--------------------------- MODULE MCCoreSession ---------------------------
(***************************************************************************)
(* Small instances of CoreSession for TLC.                                 *)
(***************************************************************************)
EXTENDS CoreSession, TLC

CONSTANTS c1, c2, c3, q1, q2, t1, t2

SessionSymmetry == Permutations({c1, c2, c3}) \cup Permutations({q1, q2})

OverlapSymmetry == SessionSymmetry \cup Permutations({t1, t2})
=============================================================================
