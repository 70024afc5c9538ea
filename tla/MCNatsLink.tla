---------------------------- MODULE MCNatsLink ----------------------------
(***************************************************************************)
(* Small instances of NatsLink: two gateway addresses, so that an answer   *)
(* may be out of date when it is used.                                     *)
(***************************************************************************)
EXTENDS NatsLink, TLC

CONSTANTS a1, a2

TwoAddrs == {a1, a2}
Symmetry == Permutations(TwoAddrs)
=============================================================================
