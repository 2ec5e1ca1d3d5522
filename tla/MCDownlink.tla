----------------------------- MODULE MCDownlink ------------------------------
(* One user who may have two devices logs in four times: c1 and c2 from    *)
(* the same device, c3 from another, c4 without a "did".                   *)
EXTENDS Downlink, TLC

CONSTANTS c1, c2, c3, c4, d1, d2, alice

MC_UserOf == [c \in Conns |-> alice]

MC_DeviceClaim ==
    [c \in Conns |-> IF c = c4 THEN NoDevice ELSE IF c = c3 THEN d2 ELSE d1]

MC_AddresseeOf == [e \in Events |-> alice]

MC_Symmetry == Permutations({c1, c2})
=============================================================================
