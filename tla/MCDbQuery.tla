------------------------------- MODULE MCDbQuery -------------------------------
(***************************************************************************)
(* A small instance of DbQuery: four records, so that the block with the   *)
(* prefix may have records before, after and between its ends.             *)
(***************************************************************************)
EXTENDS DbQuery
=============================================================================
