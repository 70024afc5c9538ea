----------------------------- MODULE MCRestClient -----------------------------
(***************************************************************************)
(* A small instance of RestClient: two kinds, so that one handler may run  *)
(* while the other's timestamp is new.                                     *)
(***************************************************************************)
EXTENDS RestClient

TwoKinds == {"service", "schedule"}
=============================================================================
