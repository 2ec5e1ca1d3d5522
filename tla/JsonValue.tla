------------------------------ MODULE JsonValue -------------------------------
(***************************************************************************)
(* jsoncpp (external) as the code uses it: what a member of a parsed       *)
(* object converts to, and when the conversion throws.  A value is a       *)
(* record of its kind and its content,  get(name, "") and get(name, 0) of  *)
(* a missing member convert like null, so a missing member is null here    *)
(* unless isMember is asked; an array throws like an object.               *)
(***************************************************************************)
EXTENDS Integers, Sequences

Kinds == {"null", "missing", "bool", "int",
          "uint",    \* an integer over INT64_MAX
          "real",    \* a number that is no integer; asInt64 cuts it off
          "string", "object"}

Json(kind) == [kind |-> kind, text |-> "", number |-> 0]
Text(s) == [Json("string") EXCEPT !.text = s]
Number(kind, n) == [Json(kind) EXCEPT !.number = n]
Missing == Json("missing")

IsText(j, s) == j.kind = "string" /\ j.text = s

Absent(j) == j.kind \in {"null", "missing"}

\* asInt64 throws on text, on structures and on what does not fit.
Int64Throws(j) == j.kind \in {"string", "object", "uint"}
AsInt64(j) == IF j.kind \in {"int", "real", "bool"} THEN j.number ELSE 0

\* asString writes numbers out and throws on structures only.
StringThrows(j) == j.kind = "object"
StringEmpty(j) == Absent(j) \/ (j.kind = "string" /\ Len(j.text) = 0)

\* get on a value that is neither an object nor null throws.
GetThrows(j) == ~Absent(j) /\ j.kind # "object"
=============================================================================
