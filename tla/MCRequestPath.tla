--------------------------- MODULE MCRequestPath ---------------------------
(***************************************************************************)
(* Small instances of RequestPath.  Two requests are enough for a late     *)
(* answer to meet a later request; one kind stands for each handler shape. *)
(***************************************************************************)
EXTENDS RequestPath, TLC

CONSTANTS q1, q2, q3

TwoRequests   == {q1, q2}
ThreeRequests == {q1, q2, q3}
Shapes == {"StartService", "TakeShift", "CompanyProgSvc", "CompanyDriver",
           "ExecutedService"}
OneShape == {"TakeShift"}
Symmetry == Permutations(TwoRequests)
=============================================================================
