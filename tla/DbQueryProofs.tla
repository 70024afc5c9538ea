---------------------------- MODULE DbQueryProofs ----------------------------
(***************************************************************************)
(* Proofs of DbQuery's safety properties for any number of records and any *)
(* block of them.                                                          *)
(*                                                                         *)
(* The keys the cursor yields are numbered, Nth(1), Nth(2), ...  Inductive *)
(* is that what was delivered is the beginning of that sequence, that the  *)
(* child's mailbox has at most one record, which is the next, and that the *)
(* cursor stands there as well until the walk is cancelled.                *)
(***************************************************************************)
EXTENDS DbQuery, TLAPS

USE RecordsAssumption

\* The keys under the cursor, one after the other.
Nth(i) == IF reverse THEN FirstKey - (i - 1) ELSE FirstKey + (i - 1)
NextUp == Nth(Len(delivered) + 1)

Delivered ==
    \A i \in 1 .. Len(delivered) : delivered[i] = Nth(i) /\ InRange(Nth(i))

NoRecord == \A i \in 1 .. Len(inbox) : inbox[i].type # "record"

\* The child is started once; it is acknowledged when the walk is over; at most
\* one record waits for it, the next.
StartFirst ==
    \A i \in 1 .. Len(inbox) : inbox[i].type = "start" => i = 1 /\ walk = "idle"
AckLast ==
    \A i \in 1 .. Len(inbox) : inbox[i].type = "ack" => walk = "done"
RecordIsNext ==
    \A i \in 1 .. Len(inbox) : inbox[i].type = "record" =>
       /\ inbox[i].key = NextUp /\ InRange(NextUp)
       /\ \A j \in 1 .. Len(inbox) : inbox[j].type = "record" => j = i

\* Where the cursor stands.
CursorAtNext ==
    /\ walk \in {"idle", "asked", "died"} => NoRecord /\ delivered = <<>> /\ ~cancelled
    /\ walk = "walks" => /\ bucket = "found"
                         /\ ~cancelled => NoRecord /\ pos = NextUp
    /\ walk = "waits" => /\ bucket = "found" /\ ~cancelled
                         /\ pos = NextUp /\ InRange(pos)
    /\ walk = "done" /\ bucket = "found" /\ ~cancelled
         => NoRecord /\ pos = NextUp /\ ~InRange(pos)

Mailbox == StartFirst /\ AckLast /\ RecordIsNext
Inv == TypeOK /\ Delivered /\ Mailbox /\ CursorAtNext /\ CompleteOrCut

-----------------------------------------------------------------------------
\* Messages and mailboxes

LEMMA MessageFacts ==
    /\ \A t \in {"start", "ack", "noack", "poison"} : Msg(t) \in Message /\ Msg(t).type = t
    /\ \A k \in Key : [type |-> "record", key |-> k] \in Message
    /\ \A m \in Message : m.type = "record" => m.key \in Key
  BY DEF Msg, Message

LEMMA Posted ==
    ASSUME inbox \in Seq(Message), NEW m \in Message, inbox' = Append(inbox, m)
    PROVE  /\ inbox' \in Seq(Message)
           /\ Len(inbox') = Len(inbox) + 1 /\ Len(inbox) \in Nat
           /\ \A i \in 1 .. Len(inbox) : inbox'[i] = inbox[i]
           /\ inbox'[Len(inbox) + 1] = m
  OBVIOUS

LEMMA Taken ==
    ASSUME inbox \in Seq(Message), inbox # <<>>, inbox' = Tail(inbox)
    PROVE  /\ inbox' \in Seq(Message)
           /\ Len(inbox') = Len(inbox) - 1 /\ Len(inbox) \in Nat \ {0}
           /\ \A i \in 1 .. Len(inbox') : inbox'[i] = inbox[i + 1] /\ i + 1 \in 1 .. Len(inbox)
           /\ Head(inbox) = inbox[1] /\ Head(inbox) \in Message
  OBVIOUS

LEMMA BlockFacts ==
    ASSUME block \in Block
    PROVE  block[1] \in 1 .. Records + 1 /\ block[2] \in 0 .. Records
  BY DEF Block

\* The cursor stands on a key, before the first or behind the last.
LEMMA CursorFacts ==
    ASSUME TypeOK
    PROVE  /\ FirstKey \in 0 .. Records + 1
           /\ \A k \in Key : NextKey(k) \in 0 .. Records + 1
           /\ \A i \in Nat : Nth(i) \in Int
  BY BlockFacts DEF TypeOK, FirstKey, NextKey, Nth, Key

-----------------------------------------------------------------------------
\* Types

LEMMA InitType == Init => TypeOK
  <1>1. <<Msg("start")>> \in Seq(Message)  BY MessageFacts
  <1>2. <<>> \in Seq(Key)  OBVIOUS
  <1>3. 0 \in 0 .. Records + 1  OBVIOUS
  <1> QED  BY <1>1, <1>2, <1>3, Zenon DEF Init, TypeOK

\* The database actor's steps keep the types, as long as it waits under a key.
LEMMA WalkType ==
    ASSUME TypeOK, walk = "waits" => pos \in Key, Walk
    PROVE  TypeOK'
  <1> USE DEF TypeOK, query, db
  <1>1. CASE QueryData
    BY <1>1, Posted, CursorFacts, MessageFacts DEF QueryData, Responds
  <1>2. CASE Send
    <2>1. pos \in Key  BY <1>2 DEF Send, InRange
    <2>2. CASE child = "alive"
      BY <1>2, <2>1, <2>2, Posted, MessageFacts DEF Send
    <2>3. CASE child # "alive"
      BY <1>2, <2>1, <2>3, CursorFacts DEF Send
    <2> QED  BY <2>2, <2>3
  <1>3. CASE Expires  BY <1>3, CursorFacts DEF Expires
  <1>4. CASE Ends  BY <1>4, Posted, MessageFacts DEF Ends, Responds
  <1> QED  BY <1>1, <1>2, <1>3, <1>4 DEF Walk

LEMMA ChildType ==
    ASSUME TypeOK, Child
    PROVE  TypeOK'
  <1> USE DEF TypeOK, query, db, Gets, Tell
  <1>1. CASE Start  BY <1>1, Taken DEF Start
  <1>2. CASE Ack  BY <1>2, Taken DEF Ack
  <1>3. CASE NoAck  BY <1>3, Taken DEF NoAck
  <1>4. CASE Record
    <2>1. Head(inbox).key \in Key  BY <1>4, Taken, MessageFacts DEF Record
    <2>2. Append(delivered, Head(inbox).key) \in Seq(Key)  BY <2>1
    <2> QED  BY <1>4, <2>1, <2>2, Taken, CursorFacts DEF Record, Asks
  <1>5. CASE Poisoned
    <2>1. <<>> \in Seq(Message)  OBVIOUS
    <2>2. inbox' \in Seq(Message) /\ child' = "stopped"  BY <1>5, <2>1, Zenon DEF Poisoned
    <2>3. UNCHANGED <<prefixed, reverse, block, bucket, caller, busy, walk, pos,
                      cancelled, delivered, refused>>
      BY <1>5 DEF Poisoned
    <2> QED  BY <2>2, <2>3
  <1> QED  BY <1>1, <1>2, <1>3, <1>4, <1>5 DEF Child

LEMMA CallerType ==
    ASSUME TypeOK,
           \/ \E more \in BOOLEAN : QueryReturns(more)
           \/ CallerExpires \/ PoisonFuture
    PROVE  TypeOK'
  <1> USE DEF TypeOK, query, db, Tell
  <1>1. ASSUME NEW more \in BOOLEAN, QueryReturns(more) PROVE TypeOK'
    <2>1. caller' \in {"waits", "ok", "error", "expired"} /\ refused' \in BOOLEAN
      BY <1>1, Zenon DEF QueryReturns
    <2>2. /\ busy' = FALSE
          /\ UNCHANGED <<prefixed, reverse, block, bucket, child, inbox, walk, pos,
                         cancelled, delivered>>
      BY <1>1 DEF QueryReturns
    <2> QED  BY <2>1, <2>2
  <1>2. CASE CallerExpires  BY <1>2 DEF CallerExpires
  <1>3. CASE PoisonFuture  BY <1>3, Posted, MessageFacts DEF PoisonFuture
  <1> QED  BY <1>1, <1>2, <1>3

LEMMA StepType ==
    ASSUME Inv, [Next]_vars
    PROVE  TypeOK'
  <1>1. walk = "waits" => pos \in Key  BY DEF Inv, CursorAtNext, InRange
  <1>2. CASE Next
    BY <1>1, <1>2, WalkType, ChildType, CallerType DEF Next, Inv
  <1>3. CASE UNCHANGED vars  BY <1>3 DEF vars, query, db, Inv, TypeOK
  <1> QED  BY <1>2, <1>3
-----------------------------------------------------------------------------
\* What a step leaves alone

\* The sequence of keys depends on the query alone.
LEMMA SameQuery ==
    ASSUME UNCHANGED query
    PROVE  /\ \A i : Nth(i)' = Nth(i) /\ InRange(i)' = InRange(i)
           /\ FirstKey' = FirstKey
  BY DEF query, Nth, FirstKey, InRange, HasPrefix

LEMMA SameNext ==
    ASSUME UNCHANGED query, UNCHANGED delivered
    PROVE  /\ NextUp' = NextUp /\ InRange(NextUp)' = InRange(NextUp)
           /\ Delivered' = Delivered
  BY DEF query, Nth, FirstKey, InRange, HasPrefix, NextUp, Delivered

\* A message that is neither a start, a record nor an acknowledgement.
LEMMA PostedInert ==
    ASSUME TypeOK, Mailbox, UNCHANGED query, UNCHANGED delivered, UNCHANGED walk,
           NEW m \in Message, m.type \in {"noack", "poison"}, inbox' = Append(inbox, m)
    PROVE  Mailbox' /\ (NoRecord => NoRecord')
  <1>1. /\ Len(inbox') = Len(inbox) + 1 /\ Len(inbox) \in Nat
        /\ \A i \in 1 .. Len(inbox) : inbox'[i] = inbox[i]
        /\ inbox'[Len(inbox) + 1] = m
    BY Posted DEF TypeOK
  <1>2. \A i \in 1 .. Len(inbox') : inbox'[i].type \in {"start", "ack", "record"}
          => i \in 1 .. Len(inbox) /\ inbox'[i] = inbox[i]
    BY <1>1
  <1>3. NextUp' = NextUp /\ InRange(NextUp)' = InRange(NextUp)  BY SameNext
  <1>4. StartFirst' /\ AckLast'  BY <1>2 DEF Mailbox, StartFirst, AckLast
  <1>5. RecordIsNext'  BY <1>2, <1>3 DEF Mailbox, RecordIsNext
  <1>6. NoRecord => NoRecord'  BY <1>2 DEF NoRecord
  <1> QED  BY <1>4, <1>5, <1>6 DEF Mailbox

\* What the child takes from its mailbox, unless it is a record or the start.
LEMMA TakenInert ==
    ASSUME TypeOK, Mailbox, UNCHANGED query, UNCHANGED delivered, UNCHANGED walk,
           inbox # <<>>, inbox' = Tail(inbox), Head(inbox).type # "start"
    PROVE  Mailbox' /\ (NoRecord => NoRecord')
  <1>1. /\ Len(inbox') = Len(inbox) - 1 /\ Len(inbox) \in Nat \ {0}
        /\ \A i \in 1 .. Len(inbox') : inbox'[i] = inbox[i + 1] /\ i + 1 \in 1 .. Len(inbox)
    BY Taken DEF TypeOK
  <1>2. NextUp' = NextUp /\ InRange(NextUp)' = InRange(NextUp)  BY SameNext
  <1>3. StartFirst'
    <2> SUFFICES ASSUME NEW i \in 1 .. Len(inbox'), inbox'[i].type = "start"
                 PROVE  FALSE
      BY DEF StartFirst
    <2>1. i + 1 \in 1 .. Len(inbox) /\ inbox[i + 1].type = "start" /\ i + 1 # 1
      BY <1>1
    <2> QED  BY <2>1 DEF Mailbox, StartFirst
  <1>4. AckLast'  BY <1>1 DEF Mailbox, AckLast
  <1>5. RecordIsNext'
    <2> SUFFICES ASSUME NEW i \in 1 .. Len(inbox'), inbox'[i].type = "record"
                 PROVE  /\ inbox'[i].key = NextUp /\ InRange(NextUp)
                        /\ \A j \in 1 .. Len(inbox') : inbox'[j].type = "record" => j = i
      BY <1>2 DEF RecordIsNext
    <2>1. i + 1 \in 1 .. Len(inbox) /\ inbox[i + 1] = inbox'[i]  BY <1>1
    <2>2. ASSUME NEW j \in 1 .. Len(inbox'), inbox'[j].type = "record" PROVE j = i
      <3>1. j + 1 \in 1 .. Len(inbox) /\ inbox[j + 1] = inbox'[j]  BY <1>1
      <3>2. j + 1 = i + 1  BY <2>1, <2>2, <3>1 DEF Mailbox, RecordIsNext
      <3> QED  BY <3>2, <1>1
    <2> QED  BY <2>1, <2>2 DEF Mailbox, RecordIsNext
  <1>6. NoRecord => NoRecord'  BY <1>1 DEF NoRecord
  <1> QED  BY <1>3, <1>4, <1>5, <1>6 DEF Mailbox
-----------------------------------------------------------------------------
\* The invariant, step by step.  Where goes what is delivered and where the
\* cursor stands; CompleteOrCut is dealt with apart.

Progress == Delivered /\ Mailbox /\ CursorAtNext

LEMMA InitProgress == Init => Progress
  BY DEF Init, Progress, Delivered, Mailbox, StartFirst, AckLast, RecordIsNext,
         CursorAtNext, NoRecord, Msg

LEMMA QueryDataProgress ==
    ASSUME TypeOK, Progress, QueryData
    PROVE  Progress'
  <1>1. /\ NoRecord /\ delivered = <<>> /\ ~cancelled /\ walk = "asked"
        /\ UNCHANGED query /\ UNCHANGED delivered /\ UNCHANGED cancelled
    BY DEF QueryData, Progress, CursorAtNext
  <1>2. NextUp' = NextUp /\ Delivered' = Delivered /\ FirstKey' = FirstKey
        /\ NextUp = FirstKey /\ bucket' = bucket
    BY <1>1, SameNext, SameQuery, CursorFacts DEF NextUp, Nth, query
  <1>3. CASE UNCHANGED inbox /\ walk' \in {"walks", "died"}
    <2>1. NoRecord' /\ Mailbox'
      BY <1>1, <1>3 DEF NoRecord, Progress, Mailbox, StartFirst, AckLast, RecordIsNext
    <2> QED  BY <1>1, <1>2, <1>3, <2>1 DEF QueryData, Progress, CursorAtNext
  <1>4. CASE bucket \in {"inner", "unnamed"}
    <2> DEFINE m == Msg(IF bucket = "inner" THEN "ack" ELSE "noack")
    <2>1. walk' = "done" /\ (inbox' = inbox \/ inbox' = Append(inbox, m))
      BY <1>4 DEF QueryData, Responds
    <2>2. m \in Message /\ m.type \notin {"start", "record"}
      BY <1>4 DEF Message, Msg
    <2>3. inbox \in Seq(Message)  BY DEF TypeOK
    <2>4. \A i \in 1 .. Len(inbox') : inbox'[i].type \in {"start", "record"}
            => i \in 1 .. Len(inbox) /\ inbox'[i] = inbox[i]
      BY <2>1, <2>2, <2>3, Posted
    <2>5. \A i \in 1 .. Len(inbox') : inbox'[i].type \notin {"start", "record"}
      BY <1>1, <2>4 DEF NoRecord, Progress, Mailbox, StartFirst
    <2>6. Mailbox'  BY <2>1, <2>5 DEF Mailbox, StartFirst, AckLast, RecordIsNext
    <2> QED  BY <1>2, <1>4, <2>1, <2>6 DEF Progress, CursorAtNext
  <1> QED  BY <1>3, <1>4 DEF QueryData

LEMMA SendProgress ==
    ASSUME TypeOK, Progress, Send
    PROVE  Progress'
  <1>1. /\ walk = "walks" /\ bucket = "found" /\ NoRecord /\ ~cancelled
        /\ pos = NextUp /\ InRange(pos) /\ pos \in Key
        /\ UNCHANGED query /\ UNCHANGED delivered
    BY DEF Send, Progress, CursorAtNext, InRange
  <1>2. NextUp' = NextUp /\ InRange(NextUp)' = InRange(NextUp) /\ Delivered'
        /\ bucket' = bucket
    BY <1>1, SameNext DEF query, Progress
  <1>3. CASE child = "alive"
    <2> DEFINE m == [type |-> "record", key |-> pos]
    <2>1. walk' = "waits" /\ inbox' = Append(inbox, m) /\ UNCHANGED <<pos, cancelled>>
      BY <1>3 DEF Send
    <2>2. /\ Len(inbox') = Len(inbox) + 1 /\ Len(inbox) \in Nat
          /\ \A i \in 1 .. Len(inbox) : inbox'[i] = inbox[i]
          /\ inbox'[Len(inbox) + 1] = m
      BY <1>1, <2>1, Posted, MessageFacts DEF TypeOK
    <2>3. \A i \in 1 .. Len(inbox') :
             /\ inbox'[i].type \in {"start", "ack"} =>
                   i \in 1 .. Len(inbox) /\ inbox'[i] = inbox[i]
             /\ inbox'[i].type = "record" => i = Len(inbox')
      BY <1>1, <2>2 DEF NoRecord
    <2>4. \A i \in 1 .. Len(inbox') : inbox'[i].type \notin {"start", "ack"}
      <3> SUFFICES ASSUME NEW i \in 1 .. Len(inbox'), inbox'[i].type \in {"start", "ack"}
                   PROVE  FALSE
        OBVIOUS
      <3>1. i \in 1 .. Len(inbox) /\ inbox[i].type \in {"start", "ack"}  BY <2>3
      <3> QED  BY <1>1, <3>1 DEF Progress, Mailbox, StartFirst, AckLast
    <2>5. RecordIsNext'
      BY <1>1, <1>2, <2>2, <2>3 DEF RecordIsNext
    <2>6. CursorAtNext'  BY <1>1, <1>2, <2>1 DEF CursorAtNext
    <2> QED  BY <1>2, <2>4, <2>5, <2>6 DEF Progress, Mailbox, StartFirst, AckLast
  <1>4. CASE child # "alive"
    <2>1. walk' = "walks" /\ cancelled' /\ UNCHANGED inbox
      BY <1>1, <1>4 DEF Send
    <2>2. Mailbox'
      BY <1>1, <1>2, <2>1 DEF Progress, Mailbox, StartFirst, AckLast, RecordIsNext, NoRecord
    <2> QED  BY <1>1, <1>2, <2>1, <2>2 DEF Progress, CursorAtNext
  <1> QED  BY <1>3, <1>4

LEMMA ExpiresProgress ==
    ASSUME TypeOK, Progress, Expires
    PROVE  Progress'
  <1>1. /\ walk = "waits" /\ walk' = "walks" /\ cancelled' /\ bucket = "found"
        /\ UNCHANGED query /\ UNCHANGED delivered /\ UNCHANGED inbox
    BY DEF Expires, Progress, CursorAtNext
  <1>2. NextUp' = NextUp /\ InRange(NextUp)' = InRange(NextUp) /\ Delivered'
        /\ bucket' = bucket
    BY <1>1, SameNext DEF query, Progress
  <1>3. Mailbox'
    BY <1>1, <1>2 DEF Progress, Mailbox, StartFirst, AckLast, RecordIsNext
  <1> QED  BY <1>1, <1>2, <1>3 DEF Progress, CursorAtNext

LEMMA EndsProgress ==
    ASSUME TypeOK, Progress, Ends
    PROVE  Progress'
  <1>1. /\ walk = "walks" /\ bucket = "found" /\ walk' = "done"
        /\ ~InRange(pos) \/ cancelled
        /\ UNCHANGED query /\ UNCHANGED delivered /\ UNCHANGED <<pos, cancelled>>
    BY DEF Ends, Progress, CursorAtNext
  <1>2. NextUp' = NextUp /\ InRange(NextUp)' = InRange(NextUp) /\ Delivered'
        /\ bucket' = bucket
    BY <1>1, SameNext DEF query, Progress
  <1>3. \A i \in 1 .. Len(inbox') : inbox'[i].type \in {"start", "record"}
          => i \in 1 .. Len(inbox) /\ inbox'[i] = inbox[i]
    <2>1. inbox' = inbox \/ inbox' = Append(inbox, Msg("ack"))
      BY DEF Ends, Responds
    <2>2. Msg("ack") \in Message /\ Msg("ack").type = "ack"  BY MessageFacts
    <2> QED  BY <2>1, <2>2, Posted DEF TypeOK
  <1>4. StartFirst' /\ AckLast'
    BY <1>1, <1>3 DEF Progress, Mailbox, StartFirst, AckLast
  <1>5. RecordIsNext'  BY <1>2, <1>3 DEF Progress, Mailbox, RecordIsNext
  <1>6. NoRecord => NoRecord'  BY <1>3 DEF NoRecord
  <1>7. InRange(pos)' = InRange(pos)  BY <1>1 DEF query, InRange, HasPrefix
  <1>8. CursorAtNext'
    BY <1>1, <1>2, <1>6, <1>7 DEF Progress, CursorAtNext
  <1> QED  BY <1>2, <1>4, <1>5, <1>8 DEF Progress, Mailbox


\* The child's steps.
LEMMA StartProgress ==
    ASSUME TypeOK, Progress, Start
    PROVE  Progress'
  <1>1. /\ Len(inbox') = Len(inbox) - 1 /\ Len(inbox) \in Nat \ {0}
        /\ \A i \in 1 .. Len(inbox') : inbox'[i] = inbox[i + 1] /\ i + 1 \in 1 .. Len(inbox)
        /\ Head(inbox) = inbox[1]
    BY Taken DEF TypeOK, Start, Gets
  <1>2. /\ inbox[1].type = "start" /\ 1 \in 1 .. Len(inbox) /\ walk' = "asked"
        /\ UNCHANGED query /\ UNCHANGED delivered /\ UNCHANGED cancelled
    BY <1>1 DEF Start, Gets
  <1>3. walk = "idle" /\ NoRecord /\ delivered = <<>> /\ ~cancelled
    BY <1>2 DEF Progress, Mailbox, StartFirst, CursorAtNext
  <1>4. \A i \in 1 .. Len(inbox') : inbox'[i].type \notin {"start", "record", "ack"}
    <2> SUFFICES ASSUME NEW i \in 1 .. Len(inbox')
                 PROVE  inbox'[i].type \notin {"start", "record", "ack"}
      OBVIOUS
    <2>1. i + 1 \in 1 .. Len(inbox) /\ inbox'[i] = inbox[i + 1] /\ i + 1 # 1
      BY <1>1
    <2> QED  BY <1>3, <2>1 DEF Progress, Mailbox, StartFirst, AckLast, NoRecord
  <1>5. Delivered'  BY <1>2, SameNext DEF Progress
  <1>6. Mailbox' /\ NoRecord'
    BY <1>4 DEF Mailbox, StartFirst, AckLast, RecordIsNext, NoRecord
  <1> QED  BY <1>2, <1>3, <1>5, <1>6 DEF Progress, CursorAtNext

\* What the child sees is the next key; the one after it is then the next.
LEMMA RecordProgress ==
    ASSUME TypeOK, Progress, Record
    PROVE  Progress'
  <1> DEFINE k == Head(inbox).key
  <1>1. /\ Len(inbox') = Len(inbox) - 1 /\ Len(inbox) \in Nat \ {0}
        /\ \A i \in 1 .. Len(inbox') : inbox'[i] = inbox[i + 1] /\ i + 1 \in 1 .. Len(inbox)
        /\ Head(inbox) = inbox[1]
    BY Taken DEF TypeOK, Record, Gets
  <1>2. /\ inbox[1].type = "record" /\ 1 \in 1 .. Len(inbox)
        /\ UNCHANGED query /\ UNCHANGED cancelled
        /\ delivered' = Append(delivered, k)
    BY <1>1 DEF Record, Gets, Asks, db
  <1>3. k = NextUp /\ InRange(NextUp) /\ k \in Key
    BY <1>1, <1>2 DEF Progress, Mailbox, RecordIsNext, InRange
  <1>4. \A i \in 1 .. Len(inbox') : inbox'[i].type \notin {"start", "record"}
    <2> SUFFICES ASSUME NEW i \in 1 .. Len(inbox')
                 PROVE  inbox'[i].type \notin {"start", "record"}
      OBVIOUS
    <2>1. i + 1 \in 1 .. Len(inbox) /\ inbox'[i] = inbox[i + 1] /\ i + 1 # 1
      BY <1>1
    <2> QED  BY <1>2, <2>1 DEF Progress, Mailbox, StartFirst, RecordIsNext
  <1>5. /\ Len(delivered) \in Nat /\ Len(delivered') = Len(delivered) + 1
        /\ \A i \in 1 .. Len(delivered) : delivered'[i] = delivered[i]
        /\ delivered'[Len(delivered) + 1] = k
    BY <1>2, <1>3 DEF TypeOK
  <1>6. Delivered'
    <2> SUFFICES ASSUME NEW i \in 1 .. Len(delivered')
                 PROVE  delivered'[i] = Nth(i) /\ InRange(Nth(i))
      BY <1>2, SameQuery DEF Delivered
    <2>1. CASE i \in 1 .. Len(delivered)  BY <1>5, <2>1 DEF Progress, Delivered
    <2>2. CASE i = Len(delivered) + 1  BY <1>3, <1>5, <2>2 DEF NextUp
    <2> QED  BY <1>5, <2>1, <2>2
  <1>7. NextUp' = NextKey(k)
    <2>1. FirstKey \in Int /\ FirstKey' = FirstKey /\ reverse' = reverse
      BY <1>2, CursorFacts, SameQuery DEF query
    <2>2. k = IF reverse THEN FirstKey - Len(delivered) ELSE FirstKey + Len(delivered)
      BY <1>3, <1>5, <2>1 DEF NextUp, Nth
    <2> QED  BY <1>5, <2>1, <2>2 DEF NextUp, Nth, NextKey
  <1>8. walk \notin {"idle", "asked", "died"}
    BY <1>2 DEF Progress, CursorAtNext, NoRecord
  <1>9. CursorAtNext' /\ walk' \in {"walks", "waits", "done"} /\ (walk = "done" => walk' = "done")
    <2>1. NoRecord'  BY <1>4 DEF NoRecord
    <2>2. ~NoRecord  BY <1>2 DEF NoRecord
    <2>3. bucket' = bucket  BY <1>2 DEF query
    <2>4. CASE walk = "waits"
      <3>1. pos = k /\ bucket = "found"  BY <1>3, <2>4 DEF Progress, CursorAtNext
      <3>2. walk' = "walks" /\ pos' = NextKey(k)
        BY <2>4, <3>1 DEF Record, Asks
      <3> QED  BY <1>7, <2>1, <2>3, <2>4, <3>1, <3>2 DEF CursorAtNext
    <2>5. CASE walk # "waits"
      <3>1. walk' = walk /\ walk \in {"walks", "done"}
        BY <1>8, <2>5 DEF Record, Asks, db, TypeOK
      <3>2. bucket = "found" => cancelled
        BY <2>2, <3>1 DEF Progress, CursorAtNext
      <3> QED  BY <1>2, <2>3, <3>1, <3>2 DEF Progress, CursorAtNext
    <2> QED  BY <2>4, <2>5
  <1>10. AckLast'
    <2> SUFFICES ASSUME NEW i \in 1 .. Len(inbox'), inbox'[i].type = "ack"
                 PROVE  walk' = "done"
      BY DEF AckLast
    <2>1. walk = "done"  BY <1>1 DEF Progress, Mailbox, AckLast
    <2> QED  BY <1>9, <2>1
  <1>11. StartFirst' /\ RecordIsNext'  BY <1>4 DEF StartFirst, RecordIsNext
  <1> QED  BY <1>6, <1>9, <1>10, <1>11 DEF Progress, Mailbox

\* A step that leaves the query, the walk and what was delivered alone.
LEMMA StillProgress ==
    ASSUME Progress, Mailbox', NoRecord => NoRecord',
           UNCHANGED query, UNCHANGED db, UNCHANGED delivered
    PROVE  Progress'
  <1>1. NextUp' = NextUp /\ Delivered' = Delivered /\ InRange(pos)' = InRange(pos)
        /\ bucket' = bucket
    BY SameNext DEF query, db, InRange, HasPrefix
  <1>2. CursorAtNext'  BY <1>1 DEF Progress, CursorAtNext, db
  <1> QED  BY <1>1, <1>2 DEF Progress

LEMMA ChildProgress ==
    ASSUME TypeOK, Progress, Child
    PROVE  Progress'
  <1>1. CASE Start  BY <1>1, StartProgress
  <1>2. CASE Record  BY <1>2, RecordProgress
  <1>3. CASE Ack \/ NoAck
    <2>1. /\ UNCHANGED query /\ UNCHANGED db /\ UNCHANGED delivered
          /\ inbox # <<>> /\ inbox' = Tail(inbox) /\ Head(inbox).type # "start"
      BY <1>3 DEF Ack, NoAck, Gets
    <2>2. Mailbox' /\ (NoRecord => NoRecord')
      BY <2>1, TakenInert DEF Progress, db
    <2> QED  BY <2>1, <2>2, StillProgress
  <1>4. CASE Poisoned
    <2>1. UNCHANGED query /\ UNCHANGED db /\ UNCHANGED delivered /\ inbox' = <<>>
      BY <1>4 DEF Poisoned
    <2>2. Len(inbox') = 0  BY <2>1
    <2>3. \A i \in 1 .. Len(inbox') : FALSE  BY <2>2
    <2>4. Mailbox' /\ NoRecord'
      BY <2>3, Zenon DEF Mailbox, StartFirst, AckLast, RecordIsNext, NoRecord
    <2> QED  BY <2>1, <2>4, StillProgress
  <1> QED  BY <1>1, <1>2, <1>3, <1>4 DEF Child

LEMMA CallerProgress ==
    ASSUME TypeOK, Progress,
           \/ \E more \in BOOLEAN : QueryReturns(more)
           \/ CallerExpires \/ PoisonFuture
    PROVE  Progress'
  <1>1. ASSUME NEW more \in BOOLEAN, QueryReturns(more) PROVE Progress'
    <2>1. UNCHANGED query /\ UNCHANGED db /\ UNCHANGED delivered /\ UNCHANGED inbox
      BY <1>1 DEF QueryReturns
    <2>2. Mailbox' /\ (NoRecord => NoRecord')
      BY <2>1, SameNext
      DEF Progress, Mailbox, StartFirst, AckLast, RecordIsNext, NoRecord, db
    <2> QED  BY <2>1, <2>2, StillProgress
  <1>2. CASE CallerExpires
    <2>1. UNCHANGED query /\ UNCHANGED db /\ UNCHANGED delivered /\ UNCHANGED inbox
      BY <1>2 DEF CallerExpires
    <2>2. Mailbox' /\ (NoRecord => NoRecord')
      BY <2>1, SameNext
      DEF Progress, Mailbox, StartFirst, AckLast, RecordIsNext, NoRecord, db
    <2> QED  BY <2>1, <2>2, StillProgress
  <1>3. CASE PoisonFuture
    <2>1. /\ UNCHANGED query /\ UNCHANGED db /\ UNCHANGED delivered
          /\ inbox' = Append(inbox, Msg("poison"))
      BY <1>3 DEF PoisonFuture
    <2>2. Msg("poison") \in Message /\ Msg("poison").type \in {"noack", "poison"}
      BY MessageFacts
    <2>3. Mailbox' /\ (NoRecord => NoRecord')
      BY <2>1, <2>2, PostedInert DEF Progress, db
    <2> QED  BY <2>1, <2>3, StillProgress
  <1> QED  BY <1>1, <1>2, <1>3

LEMMA StepProgress ==
    ASSUME TypeOK, Progress, [Next]_vars
    PROVE  Progress'
  <1>1. CASE Walk
    BY <1>1, QueryDataProgress, SendProgress, ExpiresProgress, EndsProgress DEF Walk
  <1>2. CASE Next  BY <1>1, <1>2, ChildProgress, CallerProgress DEF Next
  <1>3. CASE UNCHANGED vars
    <2>1. /\ UNCHANGED query /\ UNCHANGED db /\ UNCHANGED delivered
          /\ UNCHANGED inbox
      BY <1>3 DEF vars
    <2>2. Mailbox' /\ (NoRecord => NoRecord')
      BY <2>1, SameNext
      DEF Progress, Mailbox, StartFirst, AckLast, RecordIsNext, NoRecord, db
    <2> QED  BY <2>1, <2>2, StillProgress
  <1> QED  BY <1>2, <1>3

-----------------------------------------------------------------------------
\* Completeness of an acknowledged query

\* What was delivered is a beginning of what is wanted.
LEMMA DeliveredInOrder ==
    ASSUME TypeOK, Delivered
    PROVE  InOrder
  <1>1. /\ FirstKey \in Int /\ Len(delivered) \in Nat /\ reverse \in BOOLEAN
        /\ prefixed \in BOOLEAN
        /\ block[1] \in 1 .. Records + 1 /\ block[2] \in 0 .. Records
    BY CursorFacts, BlockFacts DEF TypeOK
  <1> SUFFICES ASSUME NEW i \in 1 .. Len(delivered)
               PROVE  /\ Wanted(delivered[i])
                      /\ \A k \in Key : Wanted(k) /\ Earlier(k, delivered[i])
                            <=> \E j \in 1 .. i - 1 : delivered[j] = k
    BY DEF InOrder
  <1>2. Wanted(delivered[i]) /\ delivered[i] = Nth(i) /\ Nth(i) \in Key
    BY DEF Delivered, Wanted, InRange
  <1>3. ASSUME NEW k \in Key, Wanted(k), Earlier(k, delivered[i])
        PROVE  \E j \in 1 .. i - 1 : delivered[j] = k
    <2>1. CASE reverse
      <3> DEFINE j == FirstKey - k + 1
      <3>1. j \in 1 .. i - 1 /\ Nth(j) = k
        BY <1>1, <1>2, <1>3, <2>1 DEF Earlier, Nth, FirstKey, Key
      <3>2. j \in 1 .. Len(delivered)  BY <1>1, <3>1
      <3> QED  BY <3>1, <3>2 DEF Delivered
    <2>2. CASE ~reverse
      <3> DEFINE j == k - FirstKey + 1
      <3>1. FirstKey <= k
        BY <1>1, <1>3, <2>2 DEF FirstKey, Wanted, HasPrefix, Key
      <3>2. j \in 1 .. i - 1 /\ Nth(j) = k
        BY <1>1, <1>2, <1>3, <2>2, <3>1 DEF Earlier, Nth, Key
      <3>3. j \in 1 .. Len(delivered)  BY <1>1, <3>2
      <3> QED  BY <3>2, <3>3 DEF Delivered
    <2> QED  BY <2>1, <2>2
  <1>4. ASSUME NEW k \in Key, NEW j \in 1 .. i - 1, delivered[j] = k
        PROVE  Wanted(k) /\ Earlier(k, delivered[i])
    <2>1. j \in 1 .. Len(delivered)  BY <1>1
    <2>2. Wanted(k) /\ k = Nth(j)  BY <1>4, <2>1 DEF Delivered, Wanted, InRange
    <2> QED  BY <1>1, <1>2, <2>2 DEF Earlier, Nth
  <1> QED  BY <1>2, <1>3, <1>4

\* A walk that has come to its end has yielded all that is wanted, or is a
\* reverse one that never began.
LEMMA AtTheEnd ==
    ASSUME TypeOK, Delivered, ~InRange(NextUp), ~ReverseMisses
    PROVE  \A k \in Key : Wanted(k) => \E i \in 1 .. Len(delivered) : delivered[i] = k
  <1>1. /\ FirstKey \in Int /\ Len(delivered) \in Nat /\ reverse \in BOOLEAN
        /\ prefixed \in BOOLEAN /\ Records \in Nat
        /\ block[1] \in 1 .. Records + 1 /\ block[2] \in 0 .. Records
    BY CursorFacts, BlockFacts DEF TypeOK
  <1> SUFFICES ASSUME NEW k \in Key, Wanted(k)
               PROVE  \E i \in 1 .. Len(delivered) : delivered[i] = k
    OBVIOUS
  <1> DEFINE D == Len(delivered)
  <1>2. CASE D = 0
    <2>1. NextUp = FirstKey  BY <1>1, <1>2 DEF NextUp, Nth
    <2> QED
      BY <1>1, <2>1 DEF InRange, FirstKey, Wanted, HasPrefix, ReverseMisses, Key
  <1>3. CASE D > 0
    <2>1. InRange(Nth(D)) /\ D \in 1 .. D  BY <1>1, <1>3 DEF Delivered
    <2>2. CASE reverse
      <3>1. k <= FirstKey /\ FirstKey = Records
        BY <1>1, <2>2 DEF FirstKey, Key
      <3>2. NextUp = FirstKey - D /\ Nth(D) = FirstKey - D + 1
        BY <1>1, <2>2 DEF NextUp, Nth
      <3>3. k > FirstKey - D
        BY <1>1, <2>1, <3>1, <3>2 DEF InRange, Wanted, HasPrefix, Key
      <3> DEFINE j == FirstKey - k + 1
      <3>4. j \in 1 .. D /\ Nth(j) = k  BY <1>1, <2>2, <3>1, <3>3 DEF Nth, Key
      <3> QED  BY <3>4 DEF Delivered
    <2>3. CASE ~reverse
      <3>1. FirstKey <= k
        BY <1>1, <2>3 DEF FirstKey, Wanted, HasPrefix, Key
      <3>2. NextUp = FirstKey + D /\ Nth(D) = FirstKey + D - 1
        BY <1>1, <2>3 DEF NextUp, Nth
      <3>3. k < FirstKey + D
        BY <1>1, <2>1, <3>1, <3>2 DEF InRange, Wanted, HasPrefix, Key
      <3> DEFINE j == k - FirstKey + 1
      <3>4. j \in 1 .. D /\ Nth(j) = k  BY <1>1, <2>3, <3>1, <3>3 DEF Nth, Key
      <3> QED  BY <3>4 DEF Delivered
    <2> QED  BY <2>2, <2>3
  <1> QED  BY <1>1, <1>2, <1>3

\* What the caller may have been told stays true: what was seen stays seen.
LEMMA StaysComplete ==
    ASSUME TypeOK, CompleteOrCut, caller = "ok", UNCHANGED query,
           cancelled => cancelled', refused => refused',
           \/ UNCHANGED delivered
           \/ \E k \in Key : delivered' = Append(delivered, k)
    PROVE  CompleteOrCut'
  <1>1. /\ bucket' = bucket /\ ReverseMisses' = ReverseMisses
        /\ \A k : Wanted(k)' = Wanted(k)
    BY DEF query, ReverseMisses, Wanted, HasPrefix
  <1>2. \A i \in 1 .. Len(delivered) :
           i \in 1 .. Len(delivered') /\ delivered'[i] = delivered[i]
    BY DEF TypeOK
  <1> QED  BY <1>1, <1>2 DEF CompleteOrCut

LEMMA StepCompleteOrCut ==
    ASSUME TypeOK, Progress, CompleteOrCut, [Next]_vars
    PROVE  CompleteOrCut'
  <1> SUFFICES ASSUME caller' = "ok" PROVE CompleteOrCut'
    BY DEF CompleteOrCut
  <1>1. CASE Ack
    <2>1. /\ 1 \in 1 .. Len(inbox) /\ inbox[1].type = "ack"
          /\ UNCHANGED query /\ UNCHANGED db /\ UNCHANGED delivered /\ UNCHANGED refused
      BY <1>1, Taken DEF TypeOK, Ack, Gets
    <2>2. walk = "done"  BY <2>1 DEF Progress, Mailbox, AckLast
    <2>3. bucket # "found" \/ cancelled \/ ~InRange(NextUp)
      BY <2>2 DEF Progress, CursorAtNext
    <2>4. \/ \A k \in Key : Wanted(k) => \E i \in 1 .. Len(delivered) : delivered[i] = k
          \/ cancelled \/ bucket # "found" \/ ReverseMisses
      BY <2>3, AtTheEnd DEF Progress
    <2>5. /\ bucket' = bucket /\ ReverseMisses' = ReverseMisses /\ cancelled' = cancelled
          /\ \A k : Wanted(k)' = Wanted(k)
      BY <2>1 DEF query, db, ReverseMisses, Wanted, HasPrefix
    <2> QED  BY <2>1, <2>4, <2>5 DEF CompleteOrCut
  <1>2. ASSUME NEW more \in BOOLEAN, QueryReturns(more), ~more PROVE CompleteOrCut'
    <2>1. refused'  BY <1>2 DEF QueryReturns
    <2> QED  BY <2>1 DEF CompleteOrCut
  <1>3. CASE Next /\ ~Ack /\ ~(\E more \in BOOLEAN : QueryReturns(more) /\ ~more)
    <2>1. /\ caller = "ok" /\ UNCHANGED query
          /\ cancelled => cancelled'
          /\ refused' = refused
      <3>1. CASE QueryReturns(TRUE)  BY <3>1 DEF QueryReturns, db
      <3>2. CASE Walk
        BY <3>2 DEF Walk, QueryData, Send, Expires, Ends
      <3>3. CASE Start \/ NoAck \/ Record \/ Poisoned
        BY <3>3 DEF Start, NoAck, Record, Poisoned, Tell, Asks, db
      <3>4. CASE CallerExpires \/ PoisonFuture
        BY <3>4 DEF CallerExpires, PoisonFuture, db
      <3>5. ASSUME NEW more \in BOOLEAN, QueryReturns(more) PROVE QueryReturns(TRUE)
        BY <1>3, <3>5
      <3> QED  BY <1>3, <3>1, <3>2, <3>3, <3>4, <3>5 DEF Next, Child
    <2>2. UNCHANGED delivered \/ \E k \in Key : delivered' = Append(delivered, k)
      <3>1. CASE Record
        <4>1. Head(inbox).key \in Key
          BY <3>1, Taken, MessageFacts DEF Record, Gets, TypeOK
        <4> QED  BY <3>1, <4>1 DEF Record
      <3>2. CASE ~Record
        BY <1>3, <3>2 DEF Next, Walk, Child, QueryData, Send, Expires, Ends, Start,
             NoAck, Poisoned, QueryReturns, CallerExpires, PoisonFuture
      <3> QED  BY <3>1, <3>2
    <2> QED  BY <2>1, <2>2, StaysComplete
  <1>4. CASE UNCHANGED vars
    <2>1. /\ caller = "ok" /\ UNCHANGED query /\ UNCHANGED delivered
          /\ cancelled' = cancelled /\ refused' = refused
      BY <1>4 DEF vars, db
    <2> QED  BY <2>1, StaysComplete
  <1> QED  BY <1>1, <1>2, <1>3, <1>4

-----------------------------------------------------------------------------
\* The theorems

LEMMA InitInv == Init => Inv
  BY InitType, InitProgress DEF Inv, Progress, CompleteOrCut, Init

LEMMA StepInv == Inv /\ [Next]_vars => Inv'
  BY StepType, StepProgress, StepCompleteOrCut DEF Inv, Progress

LEMMA Invariant == Spec => []Inv
  BY InitInv, StepInv, PTL DEF Spec

\* Every variable keeps its type: the cursor never leaves the bucket by more than
\* one key, and the child's mailbox holds messages only (repo.go, service.go).
THEOREM TypeCorrect == Spec => []TypeOK
  <1>1. Inv => TypeOK  BY DEF Inv
  <1> QED  BY <1>1, Invariant, PTL

\* The caller's function sees the wanted records in order, each once, with no
\* gap, for any number of records and any prefix, whichever waits expire
\* (service.go:118-145, repo.go:104-150).
THEOREM SeenInOrder == Spec => []InOrder
  <1>1. Inv => InOrder  BY DeliveredInOrder DEF Inv
  <1> QED  BY <1>1, Invariant, PTL

\* A query that returns nil has delivered everything or is one of those that are
\* known to be cut short: the list in CompleteOrCut leaves none out.
THEOREM CompleteUnlessCut == Spec => []CompleteOrCut
  <1>1. Inv => CompleteOrCut  BY DEF Inv
  <1> QED  BY <1>1, Invariant, PTL
-----------------------------------------------------------------------------
\* No call after the answer: behind an answer there is no record, neither in the
\* child's mailbox nor once the caller has it, and the walk is over for good.

AnswerLast ==
    \A i \in 1 .. Len(inbox) : inbox[i].type \in {"ack", "noack"} =>
       walk = "done" /\ \A j \in i .. Len(inbox) : inbox[j].type # "record"
AnsweredLast ==
    caller \in {"ok", "error"} /\ ~refused => walk = "done" /\ NoRecord

\* A walk that is over stays over: the child is started once.
LEMMA DoneForGood ==
    ASSUME Inv, [Next]_vars, walk = "done"
    PROVE  walk' = "done"
  <1>1. ~Start
    <2> SUFFICES ASSUME Start PROVE FALSE
      OBVIOUS
    <2>1. 1 \in 1 .. Len(inbox) /\ inbox[1].type = "start"
      BY Taken DEF Start, Gets, Inv, TypeOK
    <2> QED  BY <2>1 DEF Inv, Mailbox, StartFirst
  <1> QED
    BY <1>1 DEF Next, Walk, Child, QueryData, Send, Expires, Ends, Ack, NoAck, Record,
       Asks, Poisoned, QueryReturns, CallerExpires, PoisonFuture, vars, db

\* What is posted is a record, which only a walk that is not over sends, an answer,
\* which ends the walk, or the pill.
LEMMA PostedBehind ==
    ASSUME inbox \in Seq(Message), AnswerLast,
           walk = "done" => walk' = "done",
           NEW m \in Message, inbox' = Append(inbox, m),
           m.type \in {"ack", "noack"} => walk' = "done",
           m.type = "record" => walk # "done"
    PROVE  AnswerLast' /\ (walk = "done" /\ NoRecord => NoRecord')
  <1>1. /\ Len(inbox') = Len(inbox) + 1 /\ Len(inbox) \in Nat
        /\ \A i \in 1 .. Len(inbox) : inbox'[i] = inbox[i]
        /\ inbox'[Len(inbox) + 1] = m
    BY Posted
  <1>2. AnswerLast'
    <2> SUFFICES ASSUME NEW i \in 1 .. Len(inbox'), inbox'[i].type \in {"ack", "noack"}
                 PROVE  walk' = "done" /\ \A j \in i .. Len(inbox') : inbox'[j].type # "record"
      BY DEF AnswerLast
    <2>1. CASE i \in 1 .. Len(inbox)
      <3>1. walk = "done" /\ \A j \in i .. Len(inbox) : inbox[j].type # "record"
        BY <1>1, <2>1 DEF AnswerLast
      <3>2. m.type # "record"  BY <3>1
      <3> QED  BY <1>1, <2>1, <3>1, <3>2
    <2>2. CASE i = Len(inbox) + 1
      <3>1. \A j \in i .. Len(inbox') : inbox'[j] = m  BY <1>1, <2>2
      <3>2. m.type \in {"ack", "noack"}  BY <1>1, <2>2
      <3> QED  BY <3>1, <3>2
    <2> QED  BY <1>1, <2>1, <2>2
  <1>3. ASSUME walk = "done", NoRecord PROVE NoRecord'
    BY <1>1, <1>3 DEF NoRecord
  <1> QED  BY <1>2, <1>3

LEMMA TakenBehind ==
    ASSUME inbox \in Seq(Message), AnswerLast, inbox # <<>>, inbox' = Tail(inbox),
           walk = "done" => walk' = "done"
    PROVE  /\ AnswerLast'
           /\ NoRecord \/ inbox[1].type \in {"ack", "noack"} => NoRecord'
  <1>1. /\ Len(inbox') = Len(inbox) - 1 /\ Len(inbox) \in Nat \ {0}
        /\ \A i \in 1 .. Len(inbox') : inbox'[i] = inbox[i + 1] /\ i + 1 \in 1 .. Len(inbox)
    BY Taken
  <1>2. AnswerLast'
    <2> SUFFICES ASSUME NEW i \in 1 .. Len(inbox'), inbox'[i].type \in {"ack", "noack"}
                 PROVE  walk' = "done" /\ \A j \in i .. Len(inbox') : inbox'[j].type # "record"
      BY DEF AnswerLast
    <2>1. /\ walk = "done"
          /\ \A j \in i + 1 .. Len(inbox) : inbox[j].type # "record"
      BY <1>1 DEF AnswerLast
    <2> QED  BY <1>1, <2>1
  <1>3. ASSUME inbox[1].type \in {"ack", "noack"} PROVE NoRecord
    <2>1. 1 \in 1 .. Len(inbox)  BY <1>1
    <2>2. \A j \in 1 .. Len(inbox) : inbox[j].type # "record"
      BY <1>3, <2>1 DEF AnswerLast
    <2> QED  BY <2>2 DEF NoRecord
  <1>4. ASSUME NoRecord PROVE NoRecord'
    BY <1>1, <1>4 DEF NoRecord
  <1> QED  BY <1>2, <1>3, <1>4

LEMMA BehindStep ==
    ASSUME Inv, AnswerLast, AnsweredLast, [Next]_vars
    PROVE  AnswerLast' /\ AnsweredLast'
  <1>1. inbox \in Seq(Message) /\ (walk = "done" => walk' = "done")
    BY DoneForGood DEF Inv, TypeOK
  <1>2. CASE inbox' = inbox
    <2>1. AnswerLast' /\ (NoRecord => NoRecord')
      BY <1>1, <1>2 DEF AnswerLast, NoRecord
    <2>2. caller' \in {"ok", "error"} /\ ~refused' => caller \in {"ok", "error"} /\ ~refused
      <3>1. ~Ack /\ ~NoAck /\ ~Start /\ ~Record
        BY <1>1, <1>2, Taken DEF Ack, NoAck, Start, Record, Gets
      <3> QED
        BY <1>2, <3>1 DEF Next, Walk, Child, QueryData, Send, Expires, Ends, Poisoned,
           QueryReturns, Tell, CallerExpires, PoisonFuture, vars
    <2> QED  BY <1>1, <2>1, <2>2 DEF AnsweredLast
  <1>3. CASE inbox' # inbox /\ (Walk \/ PoisonFuture)
    <2>1. caller' = caller /\ refused' = refused
      BY <1>3 DEF Walk, QueryData, Send, Expires, Ends, PoisonFuture
    <2>2. PICK m \in Message :
             /\ inbox' = Append(inbox, m)
             /\ m.type \in {"ack", "noack"} => walk' = "done"
             /\ m.type = "record" => walk # "done"
      <3>1. CASE QueryData
        BY <1>3, <3>1, MessageFacts DEF QueryData, Responds
      <3>2. CASE Send
        BY <1>3, <3>2, MessageFacts DEF Send, InRange
      <3>3. CASE Ends
        BY <1>3, <3>3, MessageFacts DEF Ends, Responds
      <3>4. CASE PoisonFuture
        BY <1>3, <3>4, MessageFacts DEF PoisonFuture
      <3> QED  BY <1>3, <3>1, <3>2, <3>3, <3>4 DEF Walk, Expires
    <2>3. AnswerLast' /\ (walk = "done" /\ NoRecord => NoRecord')
      BY <1>1, <2>2, PostedBehind
    <2> QED  BY <1>1, <2>1, <2>3 DEF AnsweredLast
  <1>4. CASE inbox' # inbox /\ (Start \/ Record \/ Ack \/ NoAck)
    <2>1. inbox # <<>> /\ inbox' = Tail(inbox) /\ Head(inbox) = inbox[1]
          /\ 1 \in 1 .. Len(inbox)
      BY <1>1, <1>4, Taken DEF Start, Record, Ack, NoAck, Gets
    <2>2. AnswerLast' /\ (NoRecord \/ inbox[1].type \in {"ack", "noack"} => NoRecord')
      BY <1>1, <2>1, TakenBehind
    <2>3. CASE Start \/ Record
      BY <1>1, <2>2, <2>3 DEF Start, Record, AnsweredLast
    <2>4. CASE Ack \/ NoAck
      <3>1. inbox[1].type \in {"ack", "noack"} /\ walk = "done"
        BY <2>1, <2>4 DEF Ack, NoAck, Gets, AnswerLast
      <3> QED  BY <1>1, <2>2, <3>1 DEF AnsweredLast
    <2> QED  BY <1>4, <2>2, <2>3, <2>4
  <1>5. CASE Poisoned
    <2>1. inbox' = <<>> /\ caller' = caller /\ refused' = refused
      BY <1>5 DEF Poisoned
    <2>2. Len(inbox') = 0  BY <2>1
    <2>3. AnswerLast' /\ NoRecord'  BY <2>2 DEF AnswerLast, NoRecord
    <2> QED  BY <1>1, <2>1, <2>3 DEF AnsweredLast
  <1>6. CASE (\E more \in BOOLEAN : QueryReturns(more)) \/ CallerExpires \/ UNCHANGED vars
    <2>1. inbox' = inbox
      BY <1>6 DEF QueryReturns, CallerExpires, vars
    <2> QED  BY <1>2, <2>1
  <1> QED  BY <1>2, <1>3, <1>4, <1>5, <1>6 DEF Next, Child

LEMMA BehindHolds == Spec => [](Inv /\ AnswerLast /\ AnsweredLast)
  <1>1. Init => AnswerLast /\ AnsweredLast
    BY DEF Init, AnswerLast, AnsweredLast, Msg
  <1>2. Inv /\ AnswerLast /\ AnsweredLast /\ [Next]_vars
           => (Inv /\ AnswerLast /\ AnsweredLast)'
    BY StepInv, BehindStep
  <1> QED  BY <1>1, <1>2, InitInv, PTL DEF Spec

\* Once Query has returned, its caller's function is called only if it had refused
\* a record before or Query gave up: MsgAckGetData and MsgNoAckGetData come behind
\* every record (service.go:118-145, actor.go:266-277).
THEOREM NoCallAfterAnswer == Spec => NoLateCall
  <1> DEFINE Allowed ==
        delivered' # delivered /\ caller # "waits" => refused \/ caller = "expired"
  <1>1. Inv /\ AnswerLast /\ AnsweredLast /\ [Next]_vars => [Allowed]_vars
    <2> SUFFICES ASSUME Inv, AnsweredLast, [Next]_vars, delivered' # delivered,
                        caller # "waits", ~refused, caller # "expired"
                 PROVE  FALSE
      OBVIOUS
    <2>1. Record
      BY DEF Next, Walk, Child, QueryData, Send, Expires, Ends, Start, Ack, NoAck,
         Poisoned, QueryReturns, CallerExpires, PoisonFuture, vars
    <2>2. 1 \in 1 .. Len(inbox) /\ inbox[1].type = "record"
      BY <2>1, Taken DEF Record, Gets, Inv, TypeOK
    <2>3. caller \in {"ok", "error"}  BY DEF Inv, TypeOK
    <2> QED  BY <2>2, <2>3 DEF AnsweredLast, NoRecord
  <1>2. [][Allowed]_vars => NoLateCall  BY DEF NoLateCall
  <1> QED  BY <1>1, <1>2, BehindHolds, PTL DEF Spec
=============================================================================
