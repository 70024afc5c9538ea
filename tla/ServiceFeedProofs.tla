-------------------------- MODULE ServiceFeedProofs --------------------------
(***************************************************************************)
(* Proofs of ServiceFeed's safety properties and that it implements        *)
(* PlanFeed, for any services, streams, bucket and bounds.                 *)
(*                                                                         *)
(* The heart is what a replay leaves behind.  When an older entry is       *)
(* queued or told behind a newer one, then the newer one comes again: some *)
(* stream has yet to deliver it, or it is queued behind.  The nats actor   *)
(* drops a repeated entry only if it is the one it sent last, and then     *)
(* nothing older was sent since.  What a restart lost is set apart until   *)
(* the next stream begins.                                                 *)
(***************************************************************************)
EXTENDS ServiceFeed, TLAPS, WellFoundedInduction

USE HistoryAssumption, FeedBounds DEF told, faults

Open(s)   == pos[s] # Closed
Queued(r) == \E i \in 1 .. Len(appq) : appq[i] = r

\* Revision r is in the bucket, says something, and no restart lost it.
Held(r)      == r >= Oldest /\ log[r].parses /\ r \notin missed
Names(r, v)  == v \in log[r].puts \cup log[r].rems

\* Some stream has yet to deliver r, or will once there is one.
Behind(r) == \/ \A s \in Stream : ~Open(s)
             \/ \E s \in Stream : Open(s) /\ pos[s] < r

\* What the parent knows of v is not older than r.
Settled(v, r) == view[v] = 0 \/ view[v] >= r \/ timers[v] > 0

Disjoint == \A r \in Rev : log[r].puts \cap log[r].rems = {}

\* Only entries that parse are sent, told or handled.
Parsed ==
    /\ \A i \in 1 .. Len(appq) : log[appq[i]].parses
    /\ \A r \in handled : log[r].parses
    /\ \A v \in Service : view[v] # 0 =>
          view[v] \in Rev /\ log[view[v]].parses /\ v \in log[view[v]].puts

Waiting ==
    \A v \in Service : timers[v] > 0 => \E r \in handled : v \in log[r].rems

\* A service that was put is known, unless it was removed at some time.
PutKnown ==
    \A r \in handled, v \in Service : v \in log[r].puts =>
       view[v] # 0 \/ \E q \in Rev : log[q].parses /\ v \in log[q].rems

\* What a stream has delivered was sent, or comes again.
Caught ==
    \A s \in Stream, r \in Rev :
       Open(s) /\ r <= pos[s] /\ Held(r) => r \in handled \/ Queued(r) \/ Behind(r)

\* The entry the nats actor sent last is the last in the queue, or the parent
\* was told of it last.
LastSent ==
    lastvalue # 0 /\ log[lastvalue].parses =>
       /\ lastvalue \in handled \/ Queued(lastvalue)
       /\ appq # <<>> => appq[Len(appq)] = lastvalue
       /\ appq = <<>> => \A v \in Service : Names(lastvalue, v) => Settled(v, lastvalue)

QueueBehind ==
    \A i \in 1 .. Len(appq), r \in Rev : appq[i] < r /\ Held(r) =>
       Behind(r) \/ \E j \in 1 .. Len(appq) : j > i /\ appq[j] = r

ViewBehind ==
    \A v \in Service, r \in Rev : Names(r, v) /\ Held(r) =>
       Settled(v, r) \/ Behind(r) \/ Queued(r)

Sent == Disjoint /\ Parsed /\ Waiting /\ PutKnown
Order == Caught /\ LastSent /\ QueueBehind /\ ViewBehind
Inv == TypeOK /\ Sent /\ Order

-----------------------------------------------------------------------------
\* Facts

LEMMA Greatest ==
    ASSUME NEW n \in Nat, NEW T \in SUBSET (1 .. n), T # {}
    PROVE  \E r \in T : \A q \in T : q <= r
  <1> DEFINE S == {n - r : r \in T}
  <1>1. S \in SUBSET Nat /\ S # {}
    <2>1. \A r \in T : r \in 1 .. n  OBVIOUS
    <2>2. \A r \in T : n - r \in Nat  BY <2>1
    <2>3. PICK r \in T : TRUE  OBVIOUS
    <2>4. n - r \in S  BY <2>3
    <2> QED  BY <2>2, <2>4
  <1>2. PICK x \in S : \A y \in S : ~(<<y, x>> \in OpToRel(<, Nat))
    BY <1>1, NatLessThanWellFounded, WFMin
  <1>3. \A y \in S : ~(y < x)  BY <1>1, <1>2 DEF OpToRel
  <1>4. PICK r \in T : x = n - r  OBVIOUS
  <1>5. \A q \in T : q <= r
    <2> TAKE q \in T
    <2>1. n - q \in S  OBVIOUS
    <2>2. ~(n - q < n - r)  BY <1>3, <1>4, <2>1
    <2> QED  BY <2>2
  <1> QED  BY <1>5

LEMMA LogFacts ==
    ASSUME TypeOK
    PROVE  /\ Len(log) \in Nat /\ Oldest \in Nat /\ Oldest >= 1
           /\ \A s \in Stream : Open(s) => pos[s] \in 0 .. Len(log)
           /\ \A s \in Stream : Open(s) => NextRev(s) \in Nat
                  /\ NextRev(s) > pos[s]
                  /\ \A r \in Rev : r > pos[s] /\ r >= Oldest => r >= NextRev(s)
  <1>1. Len(log) \in Nat /\ history \in Nat \ {0}  BY DEF TypeOK
  <1>2. Oldest \in Nat /\ Oldest >= 1  BY <1>1 DEF Oldest
  <1>3. \A s \in Stream : Open(s) => pos[s] \in 0 .. Len(log)
    BY <1>1 DEF TypeOK, Open, Rev
  <1>4. ASSUME NEW s \in Stream, Open(s)
        PROVE  /\ NextRev(s) \in Nat /\ NextRev(s) > pos[s]
               /\ \A r \in Rev : r > pos[s] /\ r >= Oldest => r >= NextRev(s)
    BY <1>1, <1>2, <1>3, <1>4 DEF NextRev, Rev
  <1> QED  BY <1>1, <1>2, <1>3, <1>4

\* A write leaves the entries before it alone, and may purge some.
LEMMA Written ==
    ASSUME TypeOK, NEW e \in Entry, log' = Append(log, e), history' = history
    PROVE  /\ log' \in Seq(Entry) /\ Len(log') = Len(log) + 1 /\ Len(log) \in Nat
           /\ \A r \in Rev : log'[r] = log[r]
           /\ Rev' = Rev \cup {Len(log) + 1} /\ Len(log) + 1 \notin Rev
           /\ log'[Len(log) + 1] = e
           /\ Oldest' >= Oldest
           /\ Oldest' \in Nat
  BY DEF TypeOK, Rev, Oldest

\* The sequence the app actor reads: what is appended, what is taken.
LEMMA Sends ==
    ASSUME TypeOK, NEW r \in Rev, appq' = Append(appq, r)
    PROVE  /\ appq' \in Seq(Rev) /\ Len(appq') = Len(appq) + 1 /\ Len(appq) \in Nat
           /\ \A i \in 1 .. Len(appq) : appq'[i] = appq[i] /\ appq[i] \in Rev
           /\ appq'[Len(appq) + 1] = r /\ appq' # <<>>
  BY DEF TypeOK

LEMMA Reads ==
    ASSUME TypeOK, appq # <<>>, appq' = Tail(appq)
    PROVE  /\ appq' \in Seq(Rev) /\ Len(appq') = Len(appq) - 1 /\ Len(appq) \in Nat \ {0}
           /\ \A i \in 1 .. Len(appq') :
                 appq'[i] = appq[i + 1] /\ i + 1 \in 1 .. Len(appq)
           /\ Head(appq) = appq[1] /\ Head(appq) \in Rev
  BY DEF TypeOK

\* What Next does to the log, for the two ways the platform writes.
Writes == /\ \E e \in Entry : e.puts \cap e.rems = {} /\ log' = Append(log, e)
          /\ Len(log) < MaxLog
          /\ UNCHANGED <<history, pos, lastvalue, appq, timers, told, missed, faults>>

LEMMA ChangeWrites ==
    ASSUME NEW puts \in SUBSET Service, NEW rems \in SUBSET Service, Change(puts, rems)
    PROVE  Writes
  <1> DEFINE e == [puts |-> puts, rems |-> rems, parses |-> TRUE]
  <1>1. e \in Entry /\ e.puts = puts /\ e.rems = rems  BY DEF Entry
  <1>2. log' = Append(log, e) /\ puts \cap rems = {} /\ Len(log) < MaxLog
        /\ UNCHANGED <<history, pos, lastvalue, appq, timers, told, missed, faults>>
    BY DEF Change
  <1> QED  BY <1>1, <1>2 DEF Writes

LEMMA GarbageWrites == Garbage => Writes
  <1> SUFFICES ASSUME Garbage PROVE Writes  OBVIOUS
  <1> DEFINE e == [puts |-> {}, rems |-> {}, parses |-> FALSE]
  <1>1. e \in Entry /\ e.puts = {} /\ e.rems = {}  BY DEF Entry
  <1>2. log' = Append(log, e) /\ Len(log) < MaxLog
        /\ UNCHANGED <<history, pos, lastvalue, appq, timers, told, missed, faults>>
    BY DEF Garbage
  <1>3. e.puts \cap e.rems = {}  BY <1>1
  <1> QED  BY <1>1, <1>2, <1>3 DEF Writes

-----------------------------------------------------------------------------
\* The invariant, action by action

LEMMA InitInv == Init => Inv
  <1> SUFFICES ASSUME Init PROVE Inv  OBVIOUS
  <1>1. /\ log = <<>> /\ appq = <<>> /\ Len(log) = 0 /\ Len(appq) = 0
        /\ Rev = {} /\ \A i \in 1 .. Len(appq) : FALSE
        /\ handled = {} /\ lastvalue = 0
        /\ \A v \in Service : timers[v] = 0 /\ view[v] = 0
    BY DEF Init, Rev
  <1>2. TypeOK
    <2>1. <<>> \in Seq(Entry) /\ <<>> \in Seq(Rev) /\ 0 \in 0 .. MaxTimers /\ 0 <= MaxLog
          /\ 0 \in 0 .. MaxFaults
      OBVIOUS
    <2>2. /\ pos \in [Stream -> {Closed, 0} \cup Rev]
          /\ timers \in [Service -> 0 .. MaxTimers]
          /\ view \in [Service -> {0} \cup Rev]
      BY <2>1 DEF Init
    <2> QED  BY <1>1, <2>1, <2>2 DEF Init, TypeOK
  <1>3. Sent
    <2>1. Waiting  BY <1>1 DEF Waiting
    <2>2. Disjoint /\ Parsed /\ PutKnown  BY <1>1, Zenon DEF Disjoint, Parsed, PutKnown
    <2> QED  BY <2>1, <2>2 DEF Sent
  <1>4. Order  BY <1>1, Zenon DEF Order, Caught, LastSent, QueueBehind, ViewBehind
  <1> QED  BY <1>2, <1>3, <1>4 DEF Inv

\* The platform writes: nothing that was said changes, and no stream has
\* delivered the new entry.
LEMMA WritesInv ==
    ASSUME Inv, Writes
    PROVE  Inv'
  <1>1. PICK e \in Entry : e.puts \cap e.rems = {} /\ log' = Append(log, e)
    BY DEF Writes
  <1>2. /\ Len(log) < MaxLog
        /\ UNCHANGED <<history, pos, lastvalue, appq, timers, told, missed, faults>>
    BY DEF Writes
  <1>3. TypeOK  BY DEF Inv
  <1>0. PICK n : n = Len(log) + 1  OBVIOUS
  <1>4. /\ log' \in Seq(Entry) /\ Len(log') = n /\ Len(log) \in Nat
        /\ \A r \in Rev : log'[r] = log[r]
        /\ Rev' = Rev \cup {n} /\ n \notin Rev /\ log'[n] = e
        /\ Oldest' >= Oldest /\ Oldest' \in Nat /\ Oldest \in Nat
    BY <1>1, <1>2, <1>3, <1>0, Written, LogFacts
  <1>5. TypeOK'
    <2>1. /\ history' \in Histories /\ handled' \subseteq Rev' /\ missed' \subseteq Rev'
          /\ deaths' \in 0 .. MaxFaults /\ restarts' \in 0 .. MaxFaults
          /\ timers' \in [Service -> 0 .. MaxTimers]
          /\ lastvalue' \in {0} \cup Rev'
      BY <1>2, <1>3, <1>4 DEF TypeOK
    <2>2. pos' \in [Stream -> {Closed, 0} \cup Rev'] /\ view' \in [Service -> {0} \cup Rev']
      BY <1>2, <1>3, <1>4 DEF TypeOK
    <2>3. appq' \in Seq(Rev')
      <3>1. appq \in Seq(Rev) /\ Rev \subseteq Rev'  BY <1>3, <1>4 DEF TypeOK
      <3>2. \A i \in 1 .. Len(appq) : appq[i] \in Rev'  BY <3>1
      <3> QED  BY <1>2, <3>1, <3>2
    <2>4. Len(log') <= MaxLog  BY <1>2, <1>4, <1>0 DEF TypeOK
    <2>5. Closed' = Closed  BY DEF Closed
    <2> QED  BY <1>4, <2>1, <2>2, <2>3, <2>4, <2>5 DEF TypeOK
  <1>6. /\ \A i \in 1 .. Len(appq) : appq[i] \in Rev
        /\ handled \subseteq Rev /\ lastvalue \in {0} \cup Rev /\ 0 \notin Rev
        /\ \A v \in Service : view[v] \in {0} \cup Rev
    BY <1>3 DEF TypeOK, Rev
  <1>7. Disjoint'  BY <1>1, <1>4 DEF Inv, Sent, Disjoint
  <1>8. Parsed'
    BY <1>2, <1>4, <1>6 DEF Inv, Sent, Parsed
  <1>9. Waiting'
    BY <1>2, <1>4, <1>6 DEF Inv, Sent, Waiting
  <1>10. PutKnown'
    BY <1>2, <1>4, <1>6 DEF Inv, Sent, PutKnown
  <1>11. /\ \A r \in Rev : Held(r)' => Held(r)
         /\ \A r : Queued(r)' <=> Queued(r)
         /\ \A r : Behind(r)' <=> Behind(r)
         /\ \A r \in Rev : \A v : Names(r, v)' <=> Names(r, v)
         /\ \A r, v : Settled(v, r)' <=> Settled(v, r)
    <2>1. \A r \in Rev : Held(r)' => Held(r)  BY <1>2, <1>4 DEF Held, Rev
    <2>2. \A r \in Rev : \A v : Names(r, v)' <=> Names(r, v)  BY <1>4 DEF Names
    <2>3. /\ \A r : Queued(r)' <=> Queued(r)
          /\ \A r, v : Settled(v, r)' <=> Settled(v, r)
      BY <1>2 DEF Queued, Settled
    <2>4. \A r : Behind(r)' <=> Behind(r)
      BY <1>2 DEF Behind, Open, Closed
    <2> QED  BY <2>1, <2>2, <2>3, <2>4
  <1>12. \A s \in Stream :
            /\ Open(s)' <=> Open(s)
            /\ pos'[s] = pos[s]
            /\ Open(s) => pos[s] \in 0 .. Len(log)
    BY <1>2, <1>3, LogFacts DEF Open, Closed
  <1>13. Behind(n)'
    BY <1>4, <1>12, <1>0 DEF Behind
  <1>14. Caught'
    <2> SUFFICES ASSUME NEW s \in Stream, NEW r \in Rev',
                        Open(s)', r <= pos'[s], Held(r)'
                 PROVE  r \in handled' \/ Queued(r)' \/ Behind(r)'
      BY DEF Caught
    <2>1. r # n  BY <1>4, <1>12, <1>0
    <2>2. r \in Rev  BY <1>4, <2>1
    <2>3. Open(s) /\ r <= pos[s] /\ Held(r)  BY <1>11, <1>12, <2>2
    <2>4. r \in handled \/ Queued(r) \/ Behind(r)
      BY <2>2, <2>3 DEF Inv, Order, Caught
    <2> QED  BY <1>2, <1>11, <2>2, <2>4
  <1>15. LastSent'
    <2>1. lastvalue' # 0 /\ log'[lastvalue'].parses
            => lastvalue # 0 /\ lastvalue \in Rev /\ log[lastvalue].parses
      BY <1>2, <1>4, <1>6
    <2> QED  BY <1>2, <1>11, <2>1 DEF Inv, Order, LastSent
  <1>16. QueueBehind'
    <2> SUFFICES ASSUME NEW i \in 1 .. Len(appq), NEW r \in Rev', appq[i] < r, Held(r)'
                 PROVE  Behind(r)' \/ \E j \in 1 .. Len(appq) : j > i /\ appq[j] = r
      BY <1>2 DEF QueueBehind
    <2>1. CASE r = n  BY <1>13, <2>1
    <2>2. CASE r \in Rev
      BY <1>11, <2>2 DEF Inv, Order, QueueBehind
    <2> QED  BY <1>4, <2>1, <2>2
  <1>17. ViewBehind'
    <2> SUFFICES ASSUME NEW v \in Service, NEW r \in Rev', Names(r, v)', Held(r)'
                 PROVE  Settled(v, r)' \/ Behind(r)' \/ Queued(r)'
      BY DEF ViewBehind
    <2>1. CASE r = n  BY <1>13, <2>1
    <2>2. CASE r \in Rev
      BY <1>11, <2>2 DEF Inv, Order, ViewBehind
    <2> QED  BY <1>4, <2>1, <2>2
  <1> QED
    BY <1>5, <1>7, <1>8, <1>9, <1>10, <1>14, <1>15, <1>16, <1>17 DEF Inv, Sent, Order

\* What streams do to the bucket's content and the parent: nothing.
LEMMA SameLog ==
    ASSUME UNCHANGED <<history, log, missed>>
    PROVE  /\ Rev' = Rev /\ Oldest' = Oldest
           /\ \A r : Held(r)' = Held(r)
           /\ \A r, v : Names(r, v)' = Names(r, v)
  BY DEF Rev, Oldest, Held, Names

\* Streams begin anew, end, or go on while their actor is restarted: what they had
\* yet to deliver they still have, but for what was lost.
LEMMA StreamsMove ==
    ASSUME Inv, UNCHANGED <<history, log, lastvalue, appq, timers, told>>,
           pos' \in [Stream -> {Closed, 0} \cup Rev], missed' \subseteq Rev,
           deaths' \in 0 .. MaxFaults, restarts' \in 0 .. MaxFaults,
           \A r \in Rev : Held(r)' /\ ~Behind(r)' =>
              /\ Held(r) /\ ~Behind(r)
              /\ \A s \in Stream : Open(s)' /\ r <= pos'[s] => Open(s) /\ r <= pos[s]
    PROVE  Inv'
  <1>1. TypeOK /\ TypeOK'
    <2>1. Rev' = Rev /\ Closed' = Closed  BY DEF Rev, Closed
    <2> QED  BY <2>1 DEF Inv, TypeOK
  <1>2. Rev' = Rev /\ \A r, v : Names(r, v)' = Names(r, v)  BY DEF Rev, Names
  <1>3. \A r : Queued(r)' = Queued(r) /\ \A v : Settled(v, r)' = Settled(v, r)
    BY DEF Queued, Settled
  <1>4. Sent'
    BY <1>2 DEF Inv, Sent, Disjoint, Parsed, Waiting, PutKnown
  <1>5. Caught'
    <2> SUFFICES ASSUME NEW s \in Stream, NEW r \in Rev, Open(s)', r <= pos'[s], Held(r)',
                        ~Behind(r)'
                 PROVE  r \in handled \/ Queued(r)
      BY <1>2, <1>3 DEF Caught
    <2> QED  BY DEF Inv, Order, Caught
  <1>6. LastSent'
    BY <1>2, <1>3 DEF Inv, Order, LastSent
  <1>7. QueueBehind'
    BY <1>2 DEF Inv, Order, QueueBehind
  <1>8. ViewBehind'
    BY <1>2, <1>3 DEF Inv, Order, ViewBehind
  <1> QED  BY <1>1, <1>4, <1>5, <1>6, <1>7, <1>8 DEF Inv, Order

\* A new stream has all to deliver, and so has the next when all have ended.
LEMMA StreamsInv ==
    ASSUME Inv, (\E s \in Stream : WatchKeyValue(s)) \/ ClientDies
    PROVE  Inv'
  <1>1. TypeOK  BY DEF Inv
  <1>2. /\ UNCHANGED <<history, log, lastvalue, appq, timers, told>>
        /\ pos' \in [Stream -> {Closed, 0} \cup Rev] /\ missed' \subseteq Rev
        /\ deaths' \in 0 .. MaxFaults /\ restarts' \in 0 .. MaxFaults
    <2>1. CASE ClientDies  BY <1>1, <2>1 DEF ClientDies, TypeOK
    <2>2. ASSUME NEW s \in Stream, WatchKeyValue(s)
          PROVE  /\ UNCHANGED <<history, log, lastvalue, appq, timers, told>>
                 /\ pos' \in [Stream -> {Closed, 0} \cup Rev] /\ missed' \subseteq Rev
                 /\ deaths' \in 0 .. MaxFaults /\ restarts' \in 0 .. MaxFaults
      BY <1>1, <2>2 DEF WatchKeyValue, FromHistory, TypeOK
    <2> QED  BY <2>1, <2>2
  <1>3. \A r \in Rev : Behind(r)'
    <2>1. CASE ClientDies  BY <2>1 DEF ClientDies, Behind, Open, Closed
    <2>2. ASSUME NEW s \in Stream, WatchKeyValue(s), NEW r \in Rev PROVE Behind(r)'
      <3>1. pos'[s] = 0  BY <1>1, <2>2 DEF WatchKeyValue, FromHistory, TypeOK
      <3> QED  BY <3>1 DEF Behind, Open, Closed, Rev
    <2> QED  BY <2>1, <2>2
  <1> QED  BY <1>2, <1>3, StreamsMove

\* What a restart loses and no stream will deliver any more is missed.
LEMMA RestartInv ==
    ASSUME Inv, Restart
    PROVE  Inv'
  <1>1. TypeOK  BY DEF Inv
  <1>2. /\ UNCHANGED <<history, log, lastvalue, appq, timers, told>>
        /\ pos' \in [Stream -> {Closed, 0} \cup Rev] /\ missed' \subseteq Rev
        /\ deaths' \in 0 .. MaxFaults /\ restarts' \in 0 .. MaxFaults
    BY <1>1 DEF Restart, TypeOK
  <1>3. \A s \in Stream : pos[s] \in {Closed, 0} \cup Rev
    BY <1>1 DEF TypeOK
  <1>4. CASE \A s \in Stream : pos'[s] = Closed
    <2>1. \A r : Behind(r)'  BY <1>4 DEF Behind, Open, Closed
    <2> QED  BY <1>2, <2>1, StreamsMove
  <1>5. CASE \A s \in Stream : IF pos[s] = Closed THEN pos'[s] = Closed
                                                  ELSE pos'[s] >= pos[s]
    <2>1. \A s \in Stream : /\ Open(s)' <=> Open(s)
                            /\ Open(s) => /\ pos[s] \in Nat /\ pos'[s] \in Nat
                                          /\ pos'[s] >= pos[s]
      BY <1>2, <1>3, <1>5 DEF Open, Closed, Rev
    <2> SUFFICES ASSUME NEW r \in Rev, Held(r)', ~Behind(r)'
                 PROVE  /\ Held(r) /\ ~Behind(r)
                        /\ \A s \in Stream : Open(s)' /\ r <= pos'[s]
                                                => Open(s) /\ r <= pos[s]
      BY <1>2, StreamsMove
    <2>2. r \in Nat  BY DEF Rev
    <2>3. /\ r \notin missed' /\ missed \subseteq missed'
          /\ (\E s \in Stream : Open(s) /\ pos[s] < r /\ r <= pos'[s]) =>
                \E s \in Stream : Open(s)' /\ ~(r <= pos'[s])
      BY DEF Restart, Held, Open, Closed
    <2>4. Held(r)  BY <1>2, <2>3 DEF Held, Oldest
    <2>5. \E s \in Stream : Open(s)'  BY DEF Behind
    <2>6. \A s \in Stream : Open(s)' => r <= pos'[s]
      BY <2>1, <2>2 DEF Behind
    <2>7. \A s \in Stream : Open(s) => r <= pos[s]
      BY <2>1, <2>2, <2>3, <2>6
    <2>8. ~Behind(r)  BY <2>1, <2>2, <2>5, <2>7 DEF Behind
    <2> QED  BY <2>1, <2>4, <2>7, <2>8
  <1> QED  BY <1>4, <1>5 DEF Restart

\* A stream delivers its next entry n.  What it had yet to deliver is n or comes
\* later; n itself is sent, or was the last to be.
LEMMA WatchMessageInv ==
    ASSUME Inv, NEW s \in Stream, WatchMessage(s)
    PROVE  Inv'
  <1>0. PICK n : n = NextRev(s)  OBVIOUS
  <1>1. TypeOK  BY DEF Inv
  <1>2. /\ Open(s) /\ n \in Rev /\ lastvalue' = n
        /\ pos' = [pos EXCEPT ![s] = n]
        /\ appq' = IF log[n].parses /\ n # lastvalue THEN Append(appq, n) ELSE appq
        /\ UNCHANGED <<history, log, timers, told, missed, faults>>
    BY <1>0 DEF WatchMessage, SameRev, Open
  <1>3. /\ pos[s] < n /\ n \in Nat /\ pos[s] \in 0 .. Len(log)
        /\ \A r \in Rev : r > pos[s] /\ r >= Oldest => r >= n
    BY <1>0, <1>1, <1>2, LogFacts
  <1>4. /\ Rev' = Rev /\ \A r : Held(r)' = Held(r)
        /\ \A r, v : Names(r, v)' = Names(r, v)
        /\ \A r, v : Settled(v, r)' = Settled(v, r)
    BY <1>2, SameLog DEF Settled
  <1>5. /\ pos'[s] = n /\ pos' \in [Stream -> {Closed, 0} \cup Rev] /\ Closed' = Closed
        /\ \A t \in Stream : Open(t)' <=> Open(t)
        /\ \A t \in Stream : t # s => pos'[t] = pos[t]
    <2>1. pos \in [Stream -> {Closed, 0} \cup Rev]  BY <1>1 DEF TypeOK
    <2>2. n # Closed  BY <1>3 DEF Closed
    <2> QED  BY <1>2, <2>1, <2>2 DEF Open, Closed
  <1>6. \/ appq' = appq /\ (~log[n].parses \/ n = lastvalue)
        \/ appq' = Append(appq, n) /\ log[n].parses
    BY <1>2
  <1>7. /\ appq' \in Seq(Rev) /\ Len(appq) \in Nat
        /\ \A i \in 1 .. Len(appq) : /\ i \in 1 .. Len(appq') /\ appq'[i] = appq[i]
                                     /\ appq[i] \in Rev
        /\ \A i \in 1 .. Len(appq') : i \in 1 .. Len(appq) \/ i = Len(appq) + 1
        /\ \A i \in 1 .. Len(appq') : i \notin 1 .. Len(appq) =>
              appq'[i] = n /\ log[n].parses
    <2>1. CASE appq' = appq  BY <1>1, <2>1 DEF TypeOK
    <2>2. CASE appq' = Append(appq, n) /\ log[n].parses
      BY <1>1, <1>2, <2>2, Sends
    <2> QED  BY <1>6, <2>1, <2>2
  <1>8. TypeOK'  BY <1>1, <1>2, <1>4, <1>5, <1>7 DEF TypeOK
  <1>9. \A r : Queued(r) => Queued(r)'  BY <1>7 DEF Queued
  <1>10. Sent'
    <2>1. Parsed'  BY <1>2, <1>4, <1>7 DEF Inv, Sent, Parsed
    <2> QED  BY <1>2, <1>4, <2>1 DEF Inv, Sent, Disjoint, Waiting, PutKnown
  <1>11. ASSUME NEW r \in Rev, Held(r), Behind(r), r # n
         PROVE  Behind(r)'
    <2>1. PICK t \in Stream : Open(t) /\ pos[t] < r  BY <1>2, <1>11 DEF Behind
    <2>2. CASE t # s  BY <1>5, <2>1, <2>2 DEF Behind
    <2>3. CASE t = s
      <3>1. n < r  BY <1>3, <1>11, <2>1, <2>3 DEF Held, Rev
      <3> QED  BY <1>2, <1>5, <3>1 DEF Behind
    <2> QED  BY <2>2, <2>3
  <1>12. ASSUME log[n].parses
         PROVE  n \in handled \/ Queued(n)'
    <2>1. CASE appq' = Append(appq, n)  BY <1>1, <1>2, <2>1, Sends DEF Queued
    <2>2. CASE n = lastvalue
      <3>1. n # 0  BY <1>2 DEF Rev
      <3> QED  BY <1>9, <1>12, <2>2, <3>1 DEF Inv, Order, LastSent
    <2> QED  BY <1>6, <1>12, <2>1, <2>2
  <1>13. Caught'
    <2> SUFFICES ASSUME NEW t \in Stream, NEW r \in Rev, Open(t), r <= pos'[t], Held(r)
                 PROVE  r \in handled \/ Queued(r)' \/ Behind(r)'
      BY <1>2, <1>4, <1>5 DEF Caught
    <2>1. CASE r <= pos[t]
      <3>1. r \in handled \/ Queued(r) \/ Behind(r)
        BY <2>1 DEF Inv, Order, Caught
      <3>2. CASE r = n  BY <1>12, <3>2 DEF Held
      <3>3. CASE r # n  BY <1>9, <1>11, <3>1, <3>3
      <3> QED  BY <3>2, <3>3
    <2>2. CASE ~(r <= pos[t])
      <3>1. t = s  BY <1>5, <2>2
      <3>2. r = n  BY <1>3, <1>5, <2>2, <3>1 DEF Held, Rev
      <3> QED  BY <1>12, <3>2 DEF Held
    <2> QED  BY <2>1, <2>2
  <1>14. LastSent'
    <2>1. ASSUME log[n].parses
          PROVE  /\ n \in handled \/ Queued(n)'
                 /\ appq' # <<>> => appq'[Len(appq')] = n
                 /\ appq' = <<>> => \A v \in Service : Names(n, v) => Settled(v, n)
      <3>1. CASE appq' = Append(appq, n)  BY <1>1, <1>2, <1>12, <2>1, <3>1, Sends
      <3>2. CASE appq' = appq /\ n = lastvalue
        <4>1. n # 0  BY <1>2 DEF Rev
        <4> QED  BY <1>12, <2>1, <3>2, <4>1 DEF Inv, Order, LastSent
      <3> QED  BY <1>6, <2>1, <3>1, <3>2
    <2>2. lastvalue' = n /\ log' = log /\ handled' = handled  BY <1>2
    <2> QED  BY <1>4, <2>1, <2>2 DEF LastSent, Queued
  <1>15. QueueBehind'
    <2> SUFFICES ASSUME NEW i \in 1 .. Len(appq'), NEW r \in Rev, appq'[i] < r, Held(r)
                 PROVE  Behind(r)' \/ \E j \in 1 .. Len(appq') : j > i /\ appq'[j] = r
      BY <1>4 DEF QueueBehind
    <2>1. CASE i \notin 1 .. Len(appq)
      <3>1. n < r  BY <1>7, <2>1
      <3> QED  BY <1>2, <1>5, <3>1 DEF Behind
    <2>2. CASE i \in 1 .. Len(appq)
      <3>1. appq[i] < r  BY <1>7, <2>2
      <3>2. Behind(r) \/ \E j \in 1 .. Len(appq) : j > i /\ appq[j] = r
        BY <2>2, <3>1 DEF Inv, Order, QueueBehind
      <3>3. CASE \E j \in 1 .. Len(appq) : j > i /\ appq[j] = r  BY <1>7, <3>3
      <3>4. CASE Behind(r) /\ r # n  BY <1>11, <3>4
      <3>5. CASE r = n
        <4>1. log[n].parses  BY <3>5 DEF Held
        <4>2. CASE appq' = Append(appq, n)
          <5>1. Len(appq) + 1 \in 1 .. Len(appq') /\ appq'[Len(appq) + 1] = n
            BY <1>1, <1>2, <4>2, Sends
          <5>2. Len(appq) + 1 > i  BY <1>7, <2>2
          <5> QED  BY <3>5, <5>1, <5>2
        <4>3. CASE appq' = appq /\ n = lastvalue
          <5>1. n # 0 /\ appq # <<>>  BY <1>2, <1>7, <2>2 DEF Rev
          <5>2. appq[Len(appq)] = r
            BY <3>5, <4>1, <4>3, <5>1 DEF Inv, Order, LastSent
          <5>3. Len(appq) \in 1 .. Len(appq') /\ Len(appq) > i
            BY <1>7, <2>2, <3>1, <4>3, <5>2 DEF Rev
          <5> QED  BY <4>3, <5>2, <5>3
        <4> QED  BY <1>6, <4>1, <4>2, <4>3
      <3> QED  BY <3>2, <3>3, <3>4, <3>5
    <2> QED  BY <2>1, <2>2
  <1>16. ViewBehind'
    <2> SUFFICES ASSUME NEW v \in Service, NEW r \in Rev, Names(r, v), Held(r)
                 PROVE  Settled(v, r) \/ Behind(r)' \/ Queued(r)'
      BY <1>4 DEF ViewBehind
    <2>1. Settled(v, r) \/ Behind(r) \/ Queued(r)  BY DEF Inv, Order, ViewBehind
    <2>2. CASE r # n  BY <1>9, <1>11, <2>1, <2>2
    <2>3. CASE r = n
      <3>1. log[n].parses /\ n # 0  BY <1>2, <2>3 DEF Held, Rev
      <3>2. CASE appq' = Append(appq, n)
        BY <1>1, <1>2, <2>3, <3>2, Sends DEF Queued
      <3>3. CASE n = lastvalue /\ appq # <<>>
        <4>1. appq[Len(appq)] = n /\ Len(appq) \in 1 .. Len(appq)
          BY <1>1, <3>1, <3>3 DEF Inv, Order, LastSent, TypeOK
        <4> QED  BY <1>9, <2>3, <4>1 DEF Queued
      <3>4. CASE n = lastvalue /\ appq = <<>>
        BY <2>3, <3>1, <3>4 DEF Inv, Order, LastSent
      <3> QED  BY <1>6, <3>1, <3>2, <3>3, <3>4
    <2> QED  BY <2>2, <2>3
  <1> QED  BY <1>8, <1>10, <1>13, <1>14, <1>15, <1>16 DEF Inv, Order

\* The app actor handles the first entry n of its queue: what it puts is known as
\* of n, and what came later is queued or comes again.
LEMMA ModsInv ==
    ASSUME Inv, Mods
    PROVE  Inv'
  <1>0. PICK n : n = Head(appq)  OBVIOUS
  <1>1. TypeOK  BY DEF Inv
  <1>2. /\ appq # <<>> /\ appq' = Tail(appq)
        /\ \A v \in log[n].rems : timers[v] < MaxTimers
        /\ view' = [v \in Service |-> IF v \in log[n].puts THEN n ELSE view[v]]
        /\ timers' = [v \in Service |->
                         IF v \in log[n].rems THEN timers[v] + 1 ELSE timers[v]]
        /\ handled' = handled \cup {n}
        /\ UNCHANGED <<history, log, pos, lastvalue, missed, faults>>
    BY <1>0 DEF Mods, RemovalsOf, PutsOf
  <1>3. /\ appq' \in Seq(Rev) /\ Len(appq') = Len(appq) - 1 /\ Len(appq) \in Nat \ {0}
        /\ \A i \in 1 .. Len(appq') :
              appq'[i] = appq[i + 1] /\ i + 1 \in 1 .. Len(appq)
        /\ n = appq[1] /\ n \in Rev /\ n \in Nat \ {0} /\ 1 \in 1 .. Len(appq)
    BY <1>0, <1>1, <1>2, Reads DEF Rev
  <1>4. /\ Rev' = Rev /\ \A r : Held(r)' = Held(r)
        /\ \A r, v : Names(r, v)' = Names(r, v)
        /\ \A r : Behind(r)' = Behind(r)
        /\ \A t : Open(t)' = Open(t)
    BY <1>2, SameLog DEF Behind, Open, Closed
  <1>5. /\ log[n].parses
        /\ \A r : Queued(r) => Queued(r)' \/ r = n
    <2>1. log[n].parses  BY <1>3 DEF Inv, Sent, Parsed
    <2>2. ASSUME NEW r, Queued(r), r # n PROVE Queued(r)'
      <3>1. PICK i \in 1 .. Len(appq) : appq[i] = r  BY <2>2 DEF Queued
      <3>2. i # 1  BY <1>3, <2>2, <3>1
      <3>3. i - 1 \in 1 .. Len(appq') /\ (i - 1) + 1 = i  BY <1>3, <3>2
      <3>4. appq'[i - 1] = r  BY <1>3, <3>1, <3>3
      <3> QED  BY <3>3, <3>4 DEF Queued
    <2> QED  BY <2>1, <2>2
  <1>6. TypeOK'
    <2>1. timers' \in [Service -> 0 .. MaxTimers]
      <3>1. \A v \in Service : timers[v] \in 0 .. MaxTimers  BY <1>1 DEF TypeOK
      <3>2. \A v \in Service : (IF v \in log[n].rems THEN timers[v] + 1 ELSE timers[v])
                                 \in 0 .. MaxTimers
        BY <1>2, <3>1
      <3> QED  BY <1>2, <3>2
    <2>2. view' \in [Service -> {0} \cup Rev]  BY <1>1, <1>2, <1>3 DEF TypeOK
    <2>3. Closed' = Closed  BY DEF Closed
    <2> QED  BY <1>1, <1>2, <1>3, <1>4, <2>1, <2>2, <2>3 DEF TypeOK
  <1>7. Parsed'
    <2>1. \A i \in 1 .. Len(appq') : log[appq'[i]].parses
      BY <1>3 DEF Inv, Sent, Parsed
    <2>2. \A r \in handled' : log[r].parses  BY <1>2, <1>5 DEF Inv, Sent, Parsed
    <2>3. \A v \in Service : view'[v] # 0 =>
             view'[v] \in Rev /\ log[view'[v]].parses /\ v \in log[view'[v]].puts
      BY <1>2, <1>3, <1>5 DEF Inv, Sent, Parsed
    <2> QED  BY <1>2, <1>4, <2>1, <2>2, <2>3 DEF Parsed
  <1>8. Waiting'
    <2> SUFFICES ASSUME NEW v \in Service, timers'[v] > 0
                 PROVE  \E r \in handled' : v \in log[r].rems
      BY <1>2 DEF Waiting
    <2>1. CASE v \in log[n].rems  BY <1>2, <2>1
    <2>2. CASE v \notin log[n].rems
      <3>1. timers[v] > 0  BY <1>2, <2>2
      <3> QED  BY <1>2, <3>1 DEF Inv, Sent, Waiting
    <2> QED  BY <2>1, <2>2
  <1>9. PutKnown'
    <2> SUFFICES ASSUME NEW r \in handled', NEW v \in Service, v \in log[r].puts
                 PROVE  view'[v] # 0 \/ \E q \in Rev : log[q].parses /\ v \in log[q].rems
      BY <1>2, <1>4 DEF PutKnown
    <2>1. CASE v \in log[n].puts  BY <1>2, <1>3, <2>1
    <2>2. CASE v \notin log[n].puts
      <3>1. r \in handled /\ view'[v] = view[v]  BY <1>2, <2>2
      <3> QED  BY <3>1 DEF Inv, Sent, PutKnown
    <2> QED  BY <2>1, <2>2
  <1>10. Disjoint'  BY <1>2, <1>4 DEF Inv, Sent, Disjoint
  <1>11. Caught'
    BY <1>2, <1>4, <1>5 DEF Inv, Order, Caught
  \* What the parent knows is as new as before, and of n as new as n.
  <1>12. \A v \in Service : Names(n, v) => Settled(v, n)'
    <2> SUFFICES ASSUME NEW v \in Service, v \in log[n].puts \/ v \in log[n].rems
                 PROVE  view'[v] = 0 \/ view'[v] >= n \/ timers'[v] > 0
      BY <1>2, <1>3 DEF Names, Settled
    <2>1. CASE v \in log[n].puts  BY <1>2, <1>3, <2>1
    <2>2. CASE v \in log[n].rems
      <3>1. timers[v] \in Nat  BY <1>1 DEF TypeOK
      <3> QED  BY <1>2, <2>2, <3>1
    <2> QED  BY <2>1, <2>2
  <1>13. LastSent'
    <2> SUFFICES ASSUME lastvalue # 0, log[lastvalue].parses
                 PROVE  /\ lastvalue \in handled' \/ Queued(lastvalue)'
                        /\ appq' # <<>> => appq'[Len(appq')] = lastvalue
                        /\ appq' = <<>> =>
                              \A v \in Service : Names(lastvalue, v) => Settled(v, lastvalue)'
      BY <1>2, <1>4 DEF LastSent, Queued, Settled
    <2>1. appq[Len(appq)] = lastvalue /\ (lastvalue \in handled \/ Queued(lastvalue))
      BY <1>2 DEF Inv, Order, LastSent
    <2>2. lastvalue \in handled' \/ Queued(lastvalue)'  BY <1>2, <1>5, <2>1
    <2>3. CASE Len(appq) = 1
      <3>1. lastvalue = n /\ appq' = <<>>  BY <1>3, <2>1, <2>3
      <3> QED  BY <1>2, <1>12, <2>2, <3>1 DEF Settled
    <2>4. CASE Len(appq) # 1
      <3>1. Len(appq') \in 1 .. Len(appq') /\ Len(appq') + 1 = Len(appq) /\ appq' # <<>>
        BY <1>3, <2>4
      <3>2. appq'[Len(appq')] = lastvalue  BY <1>3, <2>1, <3>1
      <3> QED  BY <2>2, <3>1, <3>2
    <2> QED  BY <2>3, <2>4
  <1>14. QueueBehind'
    <2> SUFFICES ASSUME NEW i \in 1 .. Len(appq'), NEW r \in Rev, appq'[i] < r, Held(r),
                        ~Behind(r)
                 PROVE  \E j \in 1 .. Len(appq') : j > i /\ appq'[j] = r
      BY <1>4 DEF QueueBehind
    <2>1. i + 1 \in 1 .. Len(appq) /\ appq[i + 1] < r  BY <1>3
    <2>2. PICK j \in 1 .. Len(appq) : j > i + 1 /\ appq[j] = r
      BY <2>1 DEF Inv, Order, QueueBehind
    <2>3. j - 1 \in 1 .. Len(appq') /\ j - 1 > i /\ (j - 1) + 1 = j  BY <1>3, <2>2
    <2> QED  BY <1>3, <2>2, <2>3
  <1>15. ViewBehind'
    <2> SUFFICES ASSUME NEW v \in Service, NEW r \in Rev, Names(r, v), Held(r), ~Behind(r)
                 PROVE  Settled(v, r)' \/ Queued(r)'
      BY <1>4 DEF ViewBehind
    <2>1. CASE r = n  BY <1>12, <2>1
    <2>2. CASE v \in log[n].puts /\ r # n
      <3>1. CASE r < n
        <4>1. view'[v] >= r  BY <1>2, <1>3, <2>2, <3>1 DEF Rev
        <4> QED  BY <4>1 DEF Settled
      <3>2. CASE n < r
        <4>1. PICK j \in 1 .. Len(appq) : j > 1 /\ appq[j] = r
          BY <1>3, <3>2 DEF Inv, Order, QueueBehind
        <4> QED  BY <1>5, <2>2, <4>1 DEF Queued
      <3> QED  BY <1>3, <2>2, <3>1, <3>2 DEF Rev
    <2>3. CASE v \notin log[n].puts /\ r # n
      <3>1. Settled(v, r) \/ Queued(r)  BY DEF Inv, Order, ViewBehind
      <3>2. view'[v] = view[v] /\ timers[v] \in Nat /\ timers'[v] \in {timers[v], timers[v] + 1}
        BY <1>1, <1>2, <2>3 DEF TypeOK
      <3>3. Settled(v, r) => Settled(v, r)'  BY <3>2 DEF Settled
      <3> QED  BY <1>5, <2>3, <3>1, <3>3
    <2> QED  BY <2>1, <2>2, <2>3
  <1> QED
    BY <1>6, <1>7, <1>8, <1>9, <1>10, <1>11, <1>13, <1>14, <1>15 DEF Inv, Sent, Order

\* A removal is told: the parent knows nothing of w any more.
LEMMA RemoveInv ==
    ASSUME Inv, NEW w \in Service, Remove(w)
    PROVE  Inv'
  <1>1. TypeOK  BY DEF Inv
  <1>2. /\ timers[w] > 0 /\ timers' = [timers EXCEPT ![w] = @ - 1]
        /\ view' = [view EXCEPT ![w] = 0]
        /\ UNCHANGED <<history, log, pos, lastvalue, appq, handled, missed, faults>>
    BY DEF Remove
  <1>3. /\ Rev' = Rev /\ \A r : Held(r)' = Held(r)
        /\ \A r, v : Names(r, v)' = Names(r, v)
        /\ \A r : Behind(r)' = Behind(r) /\ Queued(r)' = Queued(r)
        /\ \A t : Open(t)' = Open(t)
    BY <1>2, SameLog DEF Behind, Open, Closed, Queued
  <1>4. /\ view'[w] = 0 /\ timers'[w] = timers[w] - 1 /\ timers[w] \in 0 .. MaxTimers
        /\ \A v \in Service : v # w => view'[v] = view[v] /\ timers'[v] = timers[v]
    BY <1>1, <1>2 DEF TypeOK
  <1>5. \A r : \A v \in Service : Settled(v, r) => Settled(v, r)'
    BY <1>4 DEF Settled
  <1>6. TypeOK'
    <2>1. timers' \in [Service -> 0 .. MaxTimers]  BY <1>1, <1>2, <1>4 DEF TypeOK
    <2>2. view' \in [Service -> {0} \cup Rev]  BY <1>1, <1>2 DEF TypeOK
    <2>3. Closed' = Closed  BY DEF Closed
    <2> QED  BY <1>1, <1>2, <1>3, <2>1, <2>2, <2>3 DEF TypeOK
  <1>7. Parsed'  BY <1>2, <1>3, <1>4 DEF Inv, Sent, Parsed
  <1>8. Waiting'
    <2> SUFFICES ASSUME NEW v \in Service, timers'[v] > 0
                 PROVE  \E r \in handled : v \in log[r].rems
      BY <1>2 DEF Waiting
    <2>1. timers[v] > 0  BY <1>2, <1>4
    <2> QED  BY <2>1 DEF Inv, Sent, Waiting
  <1>9. PutKnown'
    <2>1. PICK q \in handled : w \in log[q].rems  BY <1>2 DEF Inv, Sent, Waiting
    <2>2. q \in Rev /\ log[q].parses  BY <1>1, <2>1 DEF Inv, Sent, Parsed, TypeOK
    <2> QED  BY <1>2, <1>3, <1>4, <2>1, <2>2 DEF Inv, Sent, PutKnown
  <1>10. Disjoint'  BY <1>2, <1>3 DEF Inv, Sent, Disjoint
  <1>11. Caught' /\ QueueBehind' /\ ViewBehind'
    BY <1>2, <1>3, <1>5 DEF Inv, Order, Caught, QueueBehind, ViewBehind
  <1>12. LastSent'
    BY <1>2, <1>3, <1>5 DEF Inv, Order, LastSent
  <1> QED  BY <1>6, <1>7, <1>8, <1>9, <1>10, <1>11, <1>12 DEF Inv, Sent, Order

LEMMA StepInv == Inv /\ [Next]_vars => Inv'
  <1> SUFFICES ASSUME Inv, [Next]_vars PROVE Inv'  OBVIOUS
  <1>1. CASE \E puts, rems \in SUBSET Service : Change(puts, rems)
    BY <1>1, ChangeWrites, WritesInv
  <1>2. CASE Garbage  BY <1>2, GarbageWrites, WritesInv
  <1>3. CASE (\E s \in Stream : WatchKeyValue(s)) \/ ClientDies  BY <1>3, StreamsInv
  <1>4. CASE Restart  BY <1>4, RestartInv
  <1>5. CASE \E s \in Stream : WatchMessage(s)  BY <1>5, WatchMessageInv
  <1>6. CASE Mods  BY <1>6, ModsInv
  <1>7. CASE \E v \in Service : Remove(v)  BY <1>7, RemoveInv
  <1>8. CASE UNCHANGED vars
    <2>1. UNCHANGED <<history, log, pos, lastvalue, appq, timers, told, missed, faults>>
      BY <1>8 DEF vars
    <2>2. /\ Rev' = Rev /\ \A r : Held(r)' = Held(r)
          /\ \A r, v : Names(r, v)' = Names(r, v)
          /\ \A r : Behind(r)' = Behind(r) /\ Queued(r)' = Queued(r)
          /\ \A t : Open(t)' = Open(t)
          /\ \A r, v : Settled(v, r)' = Settled(v, r)
      BY <2>1, SameLog DEF Behind, Open, Closed, Queued, Settled
    <2>3. TypeOK'  BY <2>1, <2>2 DEF Inv, TypeOK, Closed
    <2>4. Sent'
      BY <2>1, <2>2 DEF Inv, Sent, Disjoint, Parsed, Waiting, PutKnown
    <2>5. Order'
      BY <2>1, <2>2 DEF Inv, Order, Caught, LastSent, QueueBehind, ViewBehind
    <2> QED  BY <2>3, <2>4, <2>5 DEF Inv
  <1> QED  BY <1>1, <1>2, <1>3, <1>4, <1>5, <1>6, <1>7, <1>8 DEF Next

LEMMA Invariant == Spec => []Inv
  BY InitInv, StepInv, PTL DEF Spec

-----------------------------------------------------------------------------
\* When everything is delivered

\* The last entry that names a service.
LEMMA LastTouchFacts ==
    ASSUME TypeOK, NEW v \in Service, Retained(v)
    PROVE  /\ LastTouch(v) \in Rev /\ Touches(LastTouch(v), v)
           /\ \A q \in Rev : Touches(q, v) => q <= LastTouch(v)
  <1> DEFINE T == {r \in Rev : Touches(r, v)}
  <1>1. T # {}  BY LogFacts DEF LastTouch, Retained
  <1>2. T \in SUBSET (1 .. Len(log)) /\ Len(log) \in Nat  BY LogFacts DEF Rev
  <1>3. \E r \in T : \A q \in T : q <= r
    <2> HIDE DEF T
    <2> QED  BY <1>1, <1>2, Greatest
  <1>4. LastTouch(v) = CHOOSE r \in T : \A q \in T : q <= r
    BY <1>1 DEF LastTouch
  <1>5. LastTouch(v) \in T /\ \A q \in T : q <= LastTouch(v)
    <2> HIDE DEF T
    <2> QED  BY <1>3, <1>4
  <1> QED  BY <1>5

\* All has come that the bucket holds.
LEMMA QuietFacts ==
    ASSUME Inv, Quiet, NEW r \in Rev, Held(r)
    PROVE  /\ r \in handled /\ ~Behind(r) /\ ~Queued(r)
           /\ \A v \in Service : timers[v] = 0
  <1>1. /\ appq = <<>> /\ \A v \in Service : timers[v] = 0
        /\ \E s \in Stream : Open(s)
        /\ \A s \in Stream : Open(s) => pos[s] = Len(log)
    BY DEF Quiet, Unwatched, Open
  <1>2. ~Queued(r)  BY <1>1 DEF Queued
  <1>3. r <= Len(log) /\ Len(log) \in Nat  BY LogFacts DEF Inv, Rev
  <1>4. ~Behind(r)  BY <1>1, <1>3 DEF Behind, Rev
  <1>5. r \in handled  BY <1>1, <1>2, <1>3, <1>4 DEF Inv, Order, Caught
  <1> QED  BY <1>1, <1>2, <1>4, <1>5

\* What the parent knows of v is no older than its last change.
LEMMA NotOlder ==
    ASSUME Inv, Quiet, NEW v \in Service, Retained(v)
    PROVE  /\ view[v] = 0 \/ (view[v] = LastTouch(v) /\ Planned(v))
           /\ LastTouch(v) \in handled
  <1>1. /\ TypeOK /\ LastTouch(v) \in Rev /\ Touches(LastTouch(v), v)
        /\ \A q \in Rev : Touches(q, v) => q <= LastTouch(v)
    BY LastTouchFacts DEF Inv
  <1>2. Held(LastTouch(v)) /\ Names(LastTouch(v), v)
    BY <1>1 DEF Held, Names, Touches, Retained
  <1>3. /\ LastTouch(v) \in handled /\ timers[v] = 0
        /\ Settled(v, LastTouch(v))
    BY <1>1, <1>2, QuietFacts DEF Inv, Order, ViewBehind
  <1>4. CASE view[v] # 0
    <2>1. view[v] \in Rev /\ Touches(view[v], v) /\ v \in log[view[v]].puts
      BY <1>4 DEF Inv, Sent, Parsed, Touches
    <2>2. view[v] <= LastTouch(v)  BY <1>1, <2>1
    <2>3. view[v] >= LastTouch(v)  BY <1>3, <1>4 DEF Settled
    <2>4. view[v] = LastTouch(v) /\ LastTouch(v) # 0
      BY <1>1, <2>1, <2>2, <2>3 DEF Rev
    <2> QED  BY <1>3, <2>1, <2>4 DEF Planned
  <1> QED  BY <1>3, <1>4

-----------------------------------------------------------------------------
\* The theorems

\* Every variable keeps its type: what is queued, handled or known is a revision
\* of the bucket (nats/actor.go:345-386).
THEOREM TypeCorrect == Spec => []TypeOK
  <1>1. Inv => TypeOK  BY DEF Inv
  <1> QED  BY <1>1, Invariant, PTL

\* When all is delivered, every change the bucket still holds has been handled,
\* for any number of streams, deaths and restarts, but for what a restart lost
\* (nats/actor.go:100, 351-355).
THEOREM NothingIsLost == Spec => []NothingLost
  <1>1. Inv => NothingLost
    BY QuietFacts DEF NothingLost, Held
  <1> QED  BY <1>1, Invariant, PTL

\* When all is delivered, no service is known that the platform removed, if the
\* removal is still in the bucket (app/actor.go:824-841).
THEOREM NoGhosts == Spec => []NoGhostService
  <1>1. Inv => NoGhostService
    BY NotOlder DEF NoGhostService
  <1> QED  BY <1>1, Invariant, PTL

\* When all is delivered, a planned service is known as of its last change, unless
\* it was removed and added again (app/actor.go:829-841).
THEOREM MissingWasReAdded == Spec => []OnlyReAddedMissing
  <1>1. ASSUME Inv PROVE OnlyReAddedMissing
    <2> SUFFICES ASSUME Quiet, NEW v \in Service, Retained(v), Planned(v), view[v] = 0
                 PROVE  ReAdded(v)
      BY <1>1, NotOlder DEF OnlyReAddedMissing
    <2>1. /\ LastTouch(v) \in Rev /\ Touches(LastTouch(v), v)
          /\ \A q \in Rev : Touches(q, v) => q <= LastTouch(v)
          /\ LastTouch(v) \in handled /\ v \in log[LastTouch(v)].puts
      BY <1>1, LastTouchFacts, NotOlder DEF Inv, Planned
    <2>2. PICK q \in Rev : log[q].parses /\ v \in log[q].rems
      BY <1>1, <2>1 DEF Inv, Sent, PutKnown
    <2>3. Touches(q, v) /\ q <= LastTouch(v)  BY <2>1, <2>2 DEF Touches
    <2>4. q # LastTouch(v)  BY <1>1, <2>1, <2>2 DEF Inv, Sent, Disjoint
    <2>5. q < LastTouch(v)  BY <2>1, <2>3, <2>4 DEF Rev
    <2> QED  BY <2>1, <2>2, <2>3, <2>5 DEF ReAdded
  <1> QED  BY <1>1, Invariant, PTL

-----------------------------------------------------------------------------
\* The feed implements PlanFeed

LEMMA FeedInit == Init => Feed!Init
  BY DEF Init, Feed!Init

LEMMA FeedStep == Inv /\ [Next]_vars => [Feed!Next]_Feed!vars
  <1> SUFFICES ASSUME Inv, [Next]_vars PROVE [Feed!Next]_Feed!vars  OBVIOUS
  <1>1. ASSUME Writes PROVE Feed!Next
    <2>1. PICK e \in Entry : e.puts \cap e.rems = {} /\ log' = Append(log, e)
      BY <1>1 DEF Writes
    <2>2. /\ e.puts \in SUBSET Service /\ e.rems \in SUBSET Service /\ e.parses \in BOOLEAN
          /\ e = [puts |-> e.puts, rems |-> e.rems, parses |-> e.parses]
      BY DEF Entry
    <2>3. UNCHANGED <<view, handled>>  BY <1>1 DEF Writes
    <2>4. Feed!Write  BY <2>1, <2>2, <2>3 DEF Feed!Write
    <2> QED  BY <2>4 DEF Feed!Next
  <1>2. ASSUME Mods PROVE Feed!Next
    <2>0. PICK n : n = Head(appq)  OBVIOUS
    <2>1. n = appq[1] /\ n \in Rev /\ 1 \in 1 .. Len(appq)
      BY <1>2, <2>0, Reads DEF Inv, Mods
    <2>2. log[n].parses  BY <2>1 DEF Inv, Sent, Parsed
    <2>3. Feed!Announce(n)
      BY <1>2, <2>0, <2>2 DEF Mods, PutsOf, Feed!Announce
    <2> QED  BY <2>1, <2>3 DEF Feed!Next, Rev
  <1>3. ASSUME NEW v \in Service, Remove(v) PROVE Feed!Next
    <2>1. \E r \in handled : v \in log[r].rems  BY <1>3 DEF Remove, Inv, Sent, Waiting
    <2>2. Feed!Withdraw(v)  BY <1>3, <2>1 DEF Remove, Feed!Withdraw
    <2> QED  BY <2>2 DEF Feed!Next
  <1>4. ASSUME \/ \E s \in Stream : WatchKeyValue(s) \/ WatchMessage(s)
               \/ ClientDies \/ Restart \/ UNCHANGED vars
        PROVE  UNCHANGED Feed!vars
    BY <1>4 DEF WatchKeyValue, WatchMessage, ClientDies, Restart, vars, Feed!vars
  <1>5. CASE \E puts, rems \in SUBSET Service : Change(puts, rems)
    BY <1>1, <1>5, ChangeWrites
  <1>6. CASE Garbage  BY <1>1, <1>6, GarbageWrites
  <1> QED  BY <1>2, <1>3, <1>4, <1>5, <1>6 DEF Next

\* The parent is told only what the platform wrote, and a removal only after the
\* entry that asked for it was handled: the whole path from the bucket to the
\* parent implements the promise (nats/actor.go:345-386, app/actor.go:782-846).
THEOREM FeedImplemented == Spec => ImplementsFeed
  BY FeedInit, FeedStep, Invariant, PTL DEF Spec, ImplementsFeed, Feed!Spec
=============================================================================
