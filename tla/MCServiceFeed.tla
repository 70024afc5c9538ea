--------------------------- MODULE MCServiceFeed ---------------------------
(***************************************************************************)
(* A small instance of ServiceFeed: two streams, so that one may replay    *)
(* history behind the other, and four entries, so that a bucket that keeps *)
(* two may purge both the entries one service has while one of them is     *)
(* replayed.  Services do not influence one another except by the entries  *)
(* they fill the bucket with, which Garbage does as well: one is enough.   *)
(***************************************************************************)
EXTENDS ServiceFeed

CONSTANTS v1, w1, w2

TwoStreams == {w1, w2}
=============================================================================
