---------------------------- MODULE MCDailyCache ----------------------------
(***************************************************************************)
(* Small instances of DailyCache: three requests are enough for two        *)
(* overlapping fetches and one request that comes after an answer.         *)
(***************************************************************************)
EXTENDS DailyCache, TLC

CONSTANTS r1, r2, r3, d1, d2

Requests == {r1, r2, r3}
TwoRequests == {r1, r2}
Drivers  == {d1, d2}
OneDriver == {d1}
Symmetry == Permutations(Requests) \cup Permutations(Drivers)
=============================================================================
