------------------------------ MODULE TokenCheck ------------------------------
(***************************************************************************)
(* JwtVerifier::Verify (auth/jwt.cc) as a function of the token and the    *)
(* time.  A token is a record: whether it has three non-empty parts;       *)
(* whether header and payload are JSON objects (base64 decoding does not   *)
(* fail, what it makes of rubbish is no object); alg; whether the          *)
(* signature is the HMAC of the first two parts; and the claims.  "sub" is *)
(* an int if it is a number or a text that reads as one.                   *)
(*                                                                         *)
(* Integers keep their widths, scaled down: int64_t holds -MaxInt - 1 to   *)
(* MaxInt, uint64_t 0 to 2 * MaxInt + 1.                                   *)
(***************************************************************************)
EXTENDS JsonValue

CONSTANTS
    Skew,     \* jwt.clock_skew_seconds
    Issuer,   \* jwt.issuer
    MaxInt    \* INT64_MAX

MaxUInt == 2 * MaxInt + 1

\* exp + skew overflows for a token that is good for ever: undefined, in practice
\* wrapped around or computed in a wider register.
SkewedExp(exp) ==
    IF exp + Skew =< MaxInt THEN {exp + Skew} ELSE {exp + Skew, exp + Skew - 2 * MaxInt - 2}

\* Mutant: the skew is added on the wrong side.
Expired_SkewOnNow(exp, now) == {exp <= 0 \/ now + Skew > exp}

\* The answers to "has it expired?" the build may give.
Expired(exp, now) == {exp <= 0 \/ now > e : e \in SkewedExp(exp)}

FromFuture(iat, now) == iat > 0 /\ now + Skew < iat

\* ParseUInt64: strtoull takes a sign, wraps a negative number round and stops at
\* UINT64_MAX.
UserId(sub) ==
    IF sub.number \in -MaxUInt..MaxUInt THEN sub.number % (MaxUInt + 1) ELSE MaxUInt

SubInvalid(sub) == sub.kind # "int" \/ UserId(sub) = 0

\* The answers Verify may give, in the order of its checks: "ok", the error, or
\* that a claim of the wrong type makes it throw.
Verified(t, now) ==
    IF ~t.three_parts THEN {"token format invalid"}
    ELSE IF ~t.header_object THEN {"token header invalid"}
    ELSE IF ~t.payload_object THEN {"token payload invalid"}
    ELSE IF StringThrows(t.alg) THEN {"throws"}
    ELSE IF ~IsText(t.alg, "HS256") THEN {"token alg invalid"}
    ELSE IF ~t.signed THEN {"token signature invalid"}
    ELSE IF StringThrows(t.iss) THEN {"throws"}
    ELSE IF ~IsText(t.iss, Issuer) THEN {"token issuer mismatch"}
    ELSE IF Int64Throws(t.exp) \/ Int64Throws(t.iat) THEN {"throws"}
    ELSE {IF expired THEN "token expired"
          ELSE IF FromFuture(AsInt64(t.iat), now) THEN "token iat invalid"
          ELSE IF StringThrows(t.sub) THEN "throws"
          ELSE IF SubInvalid(t.sub) THEN "token sub invalid"
          ELSE IF StringThrows(t.did) THEN "throws"
          ELSE "ok" : expired \in Expired(AsInt64(t.exp), now)}
=============================================================================
