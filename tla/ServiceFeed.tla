----------------------------- MODULE ServiceFeed -----------------------------
(***************************************************************************)
(* How changes of the programmed services reach the consumer.              *)
(*                                                                         *)
(* The fleet platform appends entries to one key of the bucket             *)
(* FMS-SERVICE-SCHEDULES-MODS.  Every watch the nats actor has registered  *)
(* is a stream of that key's entries, history first.  The nats actor drops *)
(* an entry whose revision is the one it handled last, parses it and sends *)
(* it to the app actor, which tells its parent the updates and additions   *)
(* at once and each removal from a goroutine that slept three seconds.     *)
(* The parent keeps `view`.                                                *)
(*                                                                         *)
(* The platform, the bucket and the parent are external.  A revision is an *)
(* index into `log`; a service's data is the revision that wrote it.  The  *)
(* nats mailbox is not kept apart from the streams: it is a FIFO that they *)
(* fill in any interleaving, and that WatchMessage empties.                *)
(***************************************************************************)
EXTENDS Integers, Sequences, FiniteSets

CONSTANTS
    Service,      \* programmed services
    Stream,       \* watches the nats actor may have registered at a time
    Histories,    \* how many entries of a key a bucket may retain
    MaxLog,       \* bound: entries the platform appends
    MaxBatch,     \* bound: services one entry names
    MaxFaults,    \* bound: deaths of the gateway client and restarts
    MaxTimers     \* bound: goroutines that wait to remove one service

ASSUME HistoryAssumption == Histories \subseteq Nat \ {0}
ASSUME FeedBounds == /\ MaxLog \in Nat /\ MaxBatch \in Nat
                     /\ MaxFaults \in Nat /\ MaxTimers \in Nat

VARIABLES
    history,    \* entries of the key this bucket retains
    log,        \* the entries of the key, oldest first
    pos,        \* per stream, the last revision it delivered, or Closed
    lastvalue,  \* a.lastvalue of the nats actor: a revision, 0 for nil
    appq,       \* Mods on their way to the app actor, by revision
    timers,     \* per service, the goroutines that wait to remove it
    view,       \* per service, the revision the parent last got of it, or 0
    handled,    \* revisions whose Mods the app actor has handled
    missed,     \* history: revisions a restart lost and no stream will deliver
    deaths,     \* of the client
    restarts    \* of the app actor, and of the nats actor with it

told   == <<view, handled>>
faults == <<deaths, restarts>>
vars   == <<history, log, pos, lastvalue, appq, timers, told, missed, faults>>

Closed == -1
Rev    == 1 .. Len(log)
Entry  == [puts : SUBSET Service, rems : SUBSET Service, parses : BOOLEAN]

TypeOK ==
    /\ history \in Histories
    /\ log \in Seq(Entry) /\ Len(log) <= MaxLog
    /\ pos \in [Stream -> {Closed, 0} \cup Rev]
    /\ lastvalue \in {0} \cup Rev
    /\ appq \in Seq(Rev)
    /\ timers \in [Service -> 0 .. MaxTimers]
    /\ view \in [Service -> {0} \cup Rev]
    /\ handled \subseteq Rev /\ missed \subseteq Rev
    /\ deaths \in 0 .. MaxFaults /\ restarts \in 0 .. MaxFaults

Init ==
    /\ history \in Histories
    /\ log = <<>>
    /\ pos = [s \in Stream |-> Closed]
    /\ lastvalue = 0
    /\ appq = <<>>
    /\ timers = [v \in Service |-> 0]
    /\ view = [v \in Service |-> 0]
    /\ handled = {} /\ missed = {}
    /\ deaths = 0 /\ restarts = 0

(***************************************************************************)
(* The platform                                                            *)
(***************************************************************************)

\* The revision that decides a service's fate: the last that names it, or 0.
Touches(r, v) == log[r].parses /\ v \in log[r].puts \cup log[r].rems
LastTouch(v) ==
    LET T == {r \in Rev : Touches(r, v)}
    IN  IF T = {} THEN 0 ELSE CHOOSE r \in T : \A q \in T : q <= r

Planned(v) == LastTouch(v) # 0 /\ v \in log[LastTouch(v)].puts

\* The service was put again after it had been removed.
ReAdded(v) == \E q, r \in Rev : /\ q < r
                                /\ Touches(q, v) /\ v \in log[q].rems
                                /\ Touches(r, v) /\ v \in log[r].puts

\* The platform changes the plan.
Change(puts, rems) ==
    /\ Len(log) < MaxLog
    /\ puts \cap rems = {}
    /\ Cardinality(puts \cup rems) \in 1 .. MaxBatch
    /\ \A v \in rems : Planned(v)
    /\ log' = Append(log, [puts |-> puts, rems |-> rems, parses |-> TRUE])
    /\ UNCHANGED <<history, pos, lastvalue, appq, timers, told, missed, faults>>

\* An entry that is not the JSON of a Mods.
Garbage ==
    /\ Len(log) < MaxLog
    /\ log' = Append(log, [puts |-> {}, rems |-> {}, parses |-> FALSE])
    /\ UNCHANGED <<history, pos, lastvalue, appq, timers, told, missed, faults>>

(***************************************************************************)
(* The streams                                                             *)
(***************************************************************************)

\* The oldest entry the bucket still holds.
Oldest == IF Len(log) > history THEN Len(log) - history + 1 ELSE 1

\* IncludeHistory: a stream starts before the first entry.
FromNow == Len(log)                         \* mutant: no history
FromHistory == 0

\* WatchKeyValue with IncludeHistory.  It is sent after every spawn and again
\* after every Connected, so a client may run several streams.  What was missed
\* comes again.
WatchKeyValue(s) ==
    /\ pos[s] = Closed
    /\ pos' = [pos EXCEPT ![s] = FromHistory]
    /\ missed' = {}
    /\ UNCHANGED <<history, log, lastvalue, appq, timers, told, faults>>

\* The client dies of itself, and its streams end with it.
ClientDies ==
    /\ deaths + restarts < MaxFaults
    /\ \E s \in Stream : pos[s] # Closed
    /\ deaths' = deaths + 1
    /\ pos' = [s \in Stream |-> Closed]
    /\ UNCHANGED <<history, log, lastvalue, appq, timers, told, missed, restarts>>

\* The restarted app actor poisons the client by way of the nats actor's
\* Stopping: the streams end, or the poison is lost and they go on, and what they
\* deliver meanwhile is lost with the nats actor's mailbox.  Both actors start
\* again as the same objects; the app actor's mailbox and goroutines survive.
Restart ==
    /\ deaths + restarts < MaxFaults
    /\ restarts' = restarts + 1
    /\ pos' \in [Stream -> {Closed, 0} \cup Rev]
    /\ \/ \A s \in Stream : pos'[s] = Closed
       \/ \A s \in Stream : IF pos[s] = Closed THEN pos'[s] = Closed
                                               ELSE pos'[s] >= pos[s]
    /\ missed' = missed \cup
          {r \in Rev : /\ \E s \in Stream : pos[s] # Closed /\ pos[s] < r /\ r <= pos'[s]
                      /\ \A s \in Stream : pos'[s] # Closed => r <= pos'[s]}
    /\ UNCHANGED <<history, log, lastvalue, appq, timers, told, deaths>>

\* The next revision a stream delivers; what was purged meanwhile is skipped.
NextRev(s) == IF pos[s] + 1 >= Oldest THEN pos[s] + 1 ELSE Oldest

(***************************************************************************)
(* The actors                                                              *)
(***************************************************************************)

\* The nats actor drops an entry it has just handled.
SameRev(r) == r = lastvalue

\* The entry is remembered even when it does not parse.
WatchMessage(s) ==
    /\ pos[s] # Closed
    /\ NextRev(s) \in Rev
    /\ pos' = [pos EXCEPT ![s] = NextRev(s)]
    /\ lastvalue' = NextRev(s)
    /\ appq' = IF log[NextRev(s)].parses /\ ~SameRev(NextRev(s))
               THEN Append(appq, NextRev(s)) ELSE appq
    /\ UNCHANGED <<history, log, timers, told, missed, faults>>

\* What the handler of revision r tells at once and what it delays.
NewPuts(r)   == {v \in log[r].puts : view[v] = 0}  \* mutant: updates are not told
PutsOf(r)    == log[r].puts
NoRemovals(r) == {}                         \* mutant: removals are not told
RemovalsOf(r) == log[r].rems

\* The app actor tells updates and additions at once and starts a goroutine
\* for the removals.
Mods ==
    /\ appq # <<>>
    /\ LET r == Head(appq) IN
          /\ \A v \in RemovalsOf(r) : timers[v] < MaxTimers
          /\ view' = [v \in Service |->
                        IF v \in PutsOf(r) THEN r ELSE view[v]]
          /\ timers' = [v \in Service |->
                        IF v \in RemovalsOf(r) THEN timers[v] + 1 ELSE timers[v]]
          /\ handled' = handled \cup {r}
    /\ appq' = Tail(appq)
    /\ UNCHANGED <<history, log, pos, lastvalue, missed, faults>>

\* mutant: a removal is told although no goroutine waits for it
RemoveUnasked(v) ==
    /\ timers' = [timers EXCEPT ![v] = @ - 1]
    /\ view' = [view EXCEPT ![v] = 0]
    /\ UNCHANGED <<history, log, pos, lastvalue, appq, handled, missed, faults>>

\* A goroutine wakes up and tells a removal, whatever was told since.
Remove(v) ==
    /\ timers[v] > 0
    /\ timers' = [timers EXCEPT ![v] = @ - 1]
    /\ view' = [view EXCEPT ![v] = 0]
    /\ UNCHANGED <<history, log, pos, lastvalue, appq, handled, missed, faults>>

-----------------------------------------------------------------------------

Next ==
    \/ \E puts, rems \in SUBSET Service : Change(puts, rems)
    \/ Garbage
    \/ \E s \in Stream : WatchKeyValue(s) \/ WatchMessage(s)
    \/ ClientDies \/ Restart
    \/ Mods
    \/ \E v \in Service : Remove(v)

Spec == Init /\ [][Next]_vars

\* Who has no stream watches the bucket, unless there was a restart: until then
\* the link always comes back (NatsLink's LinkRecovers), but after one the actor
\* may hold a dead client for ever, or a live one it never asks to watch.
Unwatched == \A s \in Stream : pos[s] = Closed
Rewatch   == restarts = 0 /\ Unwatched /\ \E s \in Stream : WatchKeyValue(s)

\* The actors serve their mailboxes, goroutines wake up, and the link comes back.
Fairness ==
    /\ WF_vars(Mods) /\ WF_vars(Rewatch)
    /\ \A s \in Stream : WF_vars(WatchMessage(s))
    /\ \A v \in Service : WF_vars(Remove(v))

FairSpec == Spec /\ Fairness

-----------------------------------------------------------------------------
(***************************************************************************)
(* Properties                                                              *)
(***************************************************************************)

\* Everything that was to be delivered has been.
Quiet == /\ ~Unwatched
         /\ \A s \in Stream : pos[s] # Closed => pos[s] = Len(log)
         /\ appq = <<>>
         /\ \A v \in Service : timers[v] = 0

\* The bucket still holds the entry that decides a service's fate, and no restart
\* lost it.  When it was purged, a stream may have replayed an older entry and
\* then skipped this one, and the parent keeps what the older entry said.
Retained(v) == LastTouch(v) >= Oldest /\ LastTouch(v) \notin missed

\* A service the platform has removed does not come back, however streams
\* replay history and overtake one another, once everything is delivered.
NoGhostService ==
    Quiet => \A v \in Service :
               Retained(v) /\ ~Planned(v) => view[v] = 0

\* A planned service is known to the parent as of its last change.  It is
\* missing only if it had been removed before: the delayed removal
\* (app/actor.go:829-841) may fire after the re-addition.
OnlyReAddedMissing ==
    Quiet => \A v \in Service :
               Retained(v) /\ Planned(v)
                  => \/ view[v] = LastTouch(v)
                     \/ view[v] = 0 /\ ReAdded(v)

\* No change the bucket still holds is lost for good, for replaying history makes
\* up for every client that died; but one that came while the nats actor was
\* restarted, and whose client outlived that, stays lost until the next watch
\* (nats/actor.go:100 stops without dropping the client it holds).
NothingLost ==
    Quiet => \A r \in Rev :
               r >= Oldest /\ log[r].parses => r \in handled \cup missed

\* Once the platform stops changing the plan, the parent's view becomes the
\* plan and stays so, if the bucket retained every change: of a service the
\* platform re-added after a removal, or whose last change a restart lost,
\* nothing is said, nor of any when after a restart nobody watches.
ViewConverges ==
    MaxLog <= history
       => <>[](\/ restarts > 0 /\ Unwatched
               \/ \A v \in Service :
                     \/ ReAdded(v) \/ LastTouch(v) \in missed
                     \/ view[v] = IF Planned(v) THEN LastTouch(v) ELSE 0)

-----------------------------------------------------------------------------

\* What the parent may rely on, whatever streams, deaths and replays do.
Feed == INSTANCE PlanFeed WITH
            Service <- Service, log <- log, view <- view, announced <- handled

\* The feed implements PlanFeed: the parent is told only what the platform
\* wrote, and a removal only after the revision that asked for it was handled.
ImplementsFeed == Feed!Spec
=============================================================================
