------------------------------ MODULE MCDbActor ------------------------------
(***************************************************************************)
(* Small instances of DbActor: two calls that may name the same id.        *)
(***************************************************************************)
EXTENDS DbActor, TLC

CONSTANTS o1, o2, o3, k1, k2

TwoOps   == {o1, o2}
ThreeOps == {o1, o2, o3}
OneKey   == {k1}
TwoKeys  == {k1, k2}
Symmetry == Permutations(TwoOps) \cup Permutations(TwoKeys)
=============================================================================
