------------------------------ MODULE MCPubSub ------------------------------
(***************************************************************************)
(* Small instances of PubSub: two topics, so that one is stored while the  *)
(* other is ranged over.                                                   *)
(***************************************************************************)
EXTENDS PubSub, TLC

CONSTANTS t1, t2

Topics   == {t1, t2}
Symmetry == Permutations(Topics)
=============================================================================
