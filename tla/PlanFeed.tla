------------------------------ MODULE PlanFeed ------------------------------
(***************************************************************************)
(* What the parent of the app actor is promised about the programmed       *)
(* services.  The platform writes a plan, one revision after another.  The *)
(* parent hears of a revision's updates and additions in one step, and of  *)
(* each removal in a step of its own, later.  A revision may be announced  *)
(* again, or after a newer one; nothing that the plan never said is told.  *)
(*                                                                         *)
(* ServiceFeed implements it with streams that replay history, a nats      *)
(* actor that dies and comes back, and delayed goroutines.                 *)
(***************************************************************************)
EXTENDS Integers, Sequences

CONSTANT Service

VARIABLES
    log,        \* the revisions, oldest first
    view,       \* per service, the revision the parent last got of it, or 0
    announced   \* the revisions the parent has been told

vars == <<log, view, announced>>

Init ==
    /\ log = <<>>
    /\ view = [v \in Service |-> 0]
    /\ announced = {}

\* The platform writes a revision.
Write ==
    /\ \E puts, rems \in SUBSET Service, parses \in BOOLEAN :
          /\ puts \cap rems = {}
          /\ log' = Append(log, [puts |-> puts, rems |-> rems,
                                 parses |-> parses])
    /\ UNCHANGED <<view, announced>>

\* A revision is announced: what it puts is known as of it.
Announce(r) ==
    /\ log[r].parses
    /\ announced' = announced \cup {r}
    /\ view' = [v \in Service |-> IF v \in log[r].puts THEN r ELSE view[v]]
    /\ UNCHANGED log

\* A service is withdrawn, because an announced revision removed it.
Withdraw(v) ==
    /\ \E r \in announced : v \in log[r].rems
    /\ view' = [view EXCEPT ![v] = 0]
    /\ UNCHANGED <<log, announced>>

Next ==
    \/ Write
    \/ \E r \in 1 .. Len(log) : Announce(r)
    \/ \E v \in Service : Withdraw(v)

Spec == Init /\ [][Next]_vars
=============================================================================
