------------------------------ MODULE TickActor ------------------------------
(***************************************************************************)
(* TrickActor (internal/utils/actor30seg.go).  Its Started handler starts  *)
(* a goroutine that sends the parent two kinds of ticks until the channel  *)
(* `quit' is closed.  When the same object is started again, the handler   *)
(* closes the old channel, sleeps 100 ms for the old goroutine to end, and *)
(* puts a new channel in the field.  The goroutine reads the field anew in *)
(* every turn: one that is busy sending all that time finds the new one.   *)
(*                                                                         *)
(* Nothing closes the channel when the actor stops, for Terminated is only *)
(* sent to an actor that watches another.                                  *)
(***************************************************************************)
EXTENDS Naturals, FiniteSets

CONSTANT Starts     \* bound: how often the object is started

ASSUME StartsAssumption == Starts \in Nat \ {0}

VARIABLES
    quit,       \* a.quit: the number of the channel, 0 for nil
    quitClosed, \* channels that are closed
    starting,   \* the handler: "no", or "sleeps", "awake"
    turn,       \* per goroutine: "unborn", "loops", "selects" or "ended"
    selected,   \* per goroutine, the channel its select waits for
    overslept   \* history: some sleep was over before the old goroutine's turn

tickVars == <<quit, quitClosed, starting, turn, selected, overslept>>

Ticker == 1 .. Starts

TickTypeOK ==
    /\ quit \in 0 .. Starts
    /\ quitClosed \subseteq 1 .. Starts
    /\ starting \in {"no", "sleeps", "awake"}
    /\ turn \in [Ticker -> {"unborn", "loops", "selects", "ended"}]
    /\ selected \in [Ticker -> 0 .. Starts]
    /\ overslept \in BOOLEAN

TickInit ==
    /\ quit = 0
    /\ quitClosed = {}
    /\ starting = "no"
    /\ turn = [g \in Ticker |-> "unborn"]
    /\ selected = [g \in Ticker |-> 0]
    /\ overslept = FALSE

LeftOpen == UNCHANGED quitClosed                \* mutant: nobody closes it
ClosesQuit == quitClosed' = quitClosed \cup {quit}

\* Started, with a channel of an earlier start: it is closed, unless it is.
StartedAgain ==
    /\ starting = "no" /\ 0 < quit /\ quit < Starts
    /\ ClosesQuit
    /\ starting' = "sleeps"
    /\ UNCHANGED <<quit, turn, selected, overslept>>

\* What an old goroutine still has to do.
Behind(g) == turn[g] = "loops" \/ (turn[g] = "selects" /\ selected[g] \in quitClosed)

\* 100 ms are over.
Slept ==
    /\ starting = "sleeps"
    /\ starting' = "awake"
    /\ overslept' = (overslept \/ \E g \in Ticker : Behind(g))
    /\ UNCHANGED <<quit, quitClosed, turn, selected>>

\* Started goes on: a new channel and a new goroutine.
NewQuit ==
    /\ starting = "awake" \/ (starting = "no" /\ quit = 0)
    /\ quit' = quit + 1
    /\ starting' = "no"
    /\ turn' = [turn EXCEPT ![quit + 1] = "loops"]
    /\ UNCHANGED <<quitClosed, selected, overslept>>

\* A goroutine begins a turn: it evaluates a.quit.
Selects(g) ==
    /\ turn[g] = "loops"
    /\ turn' = [turn EXCEPT ![g] = "selects"]
    /\ selected' = [selected EXCEPT ![g] = quit]
    /\ UNCHANGED <<quit, quitClosed, starting, overslept>>

\* One of its tickers fires.  Select chooses at random when the channel is
\* closed as well.
Ticks(g) ==
    /\ turn[g] = "selects"
    /\ turn' = [turn EXCEPT ![g] = "loops"]
    /\ UNCHANGED <<quit, quitClosed, starting, selected, overslept>>

Quits(g) ==
    /\ turn[g] = "selects"
    /\ selected[g] \in quitClosed
    /\ turn' = [turn EXCEPT ![g] = "ended"]
    /\ UNCHANGED <<quit, quitClosed, starting, selected, overslept>>

TickNext ==
    \/ StartedAgain \/ Slept \/ NewQuit
    \/ \E g \in Ticker : Selects(g) \/ Ticks(g) \/ Quits(g)

TickSpec == TickInit /\ [][TickNext]_tickVars

-----------------------------------------------------------------------------

\* The parent gets the ticks of one goroutine, however often the actor was
\* started, unless 100 ms were too short for an old one: that one is never
\* told to quit, and ticks beside the new one until the program ends.
OneTicker ==
    starting = "no" /\ ~overslept =>
       \A g \in Ticker : turn[g] \in {"loops", "selects"} => g = quit
=============================================================================
