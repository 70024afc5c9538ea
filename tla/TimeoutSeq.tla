------------------------------ MODULE TimeoutSeq ------------------------------
(***************************************************************************)
(* utils.Timeout (internal/utils/timeout.go) returns a function that says, *)
(* of each of its calls, whether the call comes later after the previous   *)
(* one than the timeout of its turn; the last timeout is repeated.         *)
(***************************************************************************)
EXTENDS Integers, Sequences

CONSTANTS
    Timeouts,   \* sequences of timeouts it may be made with
    MaxTime,    \* bound: the clock
    MaxTurns    \* bound: calls

ASSUME TimeoutAssumption ==
    Timeouts \subseteq Seq(Int) /\ MaxTime \in Nat /\ MaxTurns \in Nat

VARIABLES
    clock,
    given_seq,  \* the argument seq
    mem, idx,   \* captured by the function: the last call, the turn from 0
    called      \* history: time and result of each call

timeoutVars == <<clock, given_seq, mem, idx, called>>

TimeoutTypeOK ==
    /\ clock \in 0 .. MaxTime
    /\ given_seq \in Timeouts
    /\ mem \in 0 .. MaxTime
    /\ idx \in 0 .. MaxTurns
    /\ called \in Seq([at : 0 .. MaxTime, result : BOOLEAN])

\* The function is made at time 0 with ti = 0.
TimeoutInit ==
    /\ clock = 0
    /\ given_seq \in Timeouts
    /\ mem = 0 /\ idx = 0
    /\ called = <<>>

\* An empty sequence is one timeout of 0.
Seqm == IF given_seq = <<>> THEN <<0>> ELSE given_seq

Unclamped == idx % Len(Seqm)                    \* mutant: the turns start over
Clamped   == IF idx >= Len(Seqm) THEN Len(Seqm) - 1 ELSE idx

Call ==
    /\ Len(called) < MaxTurns
    /\ called' = Append(called, [at |-> clock,
                                 result |-> mem + Seqm[Clamped + 1] < clock])
    /\ mem' = clock
    /\ idx' = Clamped + 1
    /\ UNCHANGED <<clock, given_seq>>

Pass == clock < MaxTime /\ clock' = clock + 1
        /\ UNCHANGED <<given_seq, mem, idx, called>>

TimeoutNext == Call \/ Pass

TimeoutSpec == TimeoutInit /\ [][TimeoutNext]_timeoutVars

-----------------------------------------------------------------------------

\* What the comment above Timeout says (timeout.go:5-8): a call is compared
\* with the previous one, by the timeout of its turn, and without timeouts by 0.
TimeoutOfTurn(n) ==
    IF given_seq = <<>> THEN 0
    ELSE given_seq[IF n <= Len(given_seq) THEN n ELSE Len(given_seq)]

ComparesWithPrevious ==
    \A n \in 1 .. Len(called) :
       called[n].result <=> called[n].at - (IF n = 1 THEN 0 ELSE called[n - 1].at)
                               > TimeoutOfTurn(n)
=============================================================================
