---------------------------- MODULE MCFrameLimiter ----------------------------
(* Two fibers that share a bucket, and are alike.                          *)
EXTENDS FrameLimiter, TLC

CONSTANTS f1, f2

MC_Symmetry == Permutations(Fibers)
=============================================================================
