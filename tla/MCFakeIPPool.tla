---------------------------- MODULE MCFakeIPPool ----------------------------
(***************************************************************************)
(* A small instance of FakeIPPool for TLC.                                 *)
(***************************************************************************)
EXTENDS FakeIPPool, TLC

CONSTANTS p1, p2, h1, h2, n1, n2

PoolSymmetry ==
    Permutations({p1, p2}) \cup Permutations({h1, h2}) \cup Permutations({n1, n2})

\* Stops where two writers of the store met.
NotTorn == ~torn
=============================================================================
