------------------------------- MODULE DbQuery -------------------------------
(***************************************************************************)
(* One query of the database: the service's Query (service.go), the child  *)
(* actor it spawns, the database actor's MsgQueryData (actor.go) and the   *)
(* cursor that walks a bucket (repo.go).                                   *)
(*                                                                         *)
(* The records are the keys 1 .. Records in bbolt's order.  Those with the *)
(* prefix are a block of them.  For each record under the cursor the       *)
(* database actor waits up to three seconds for the child to ask for the   *)
(* next; the child asks first and then calls `query', the caller's         *)
(* function, which may be slow.  A wait that expires cancels the walk, and *)
(* a cancelled walk ends as one that is complete.                          *)
(*                                                                         *)
(* Time is not kept: a future may expire at any moment.  bbolt, the        *)
(* futures and the caller's function are external.                         *)
(***************************************************************************)
EXTENDS Integers, Sequences

CONSTANT Records

ASSUME RecordsAssumption == Records \in Nat

VARIABLES
    prefixed,   \* a prefix is asked for
    reverse,
    block,      \* the keys with the prefix: <<first, last>>, empty if first > last
    bucket,     \* "found", "none" (no topmost bucket), "inner" (a nested one is
                \* missing) or "unnamed" (no bucket is asked for)
    caller,     \* "waits", "ok", "error" or "expired": what Query returned
    child,      \* "alive" or "stopped"
    inbox,      \* the child's mailbox
    busy,       \* the child is inside `query'
    walk,       \* the database actor: "idle", "asked", "walks", "waits", "done", "died"
    pos,        \* the key under the cursor; 0 or Records + 1: none
    cancelled,
    delivered,  \* history: what `query' was called with, in order
    refused     \* history: `query' returned FALSE

query == <<prefixed, reverse, block, bucket>>
db    == <<walk, pos, cancelled>>
vars  == <<query, caller, child, inbox, busy, db, delivered, refused>>

Key == 1 .. Records
Message == [type : {"start", "ack", "noack", "poison"}] \cup
           [type : {"record"}, key : Key]
Msg(t)    == [type |-> t]
Block     == {b \in (1 .. Records + 1) \X (0 .. Records) : b[1] <= b[2] + 1}

TypeOK ==
    /\ prefixed \in BOOLEAN /\ reverse \in BOOLEAN
    /\ block \in Block
    /\ bucket \in {"found", "none", "inner", "unnamed"}
    /\ caller \in {"waits", "ok", "error", "expired"}
    /\ child \in {"alive", "stopped"}
    /\ inbox \in Seq(Message)
    /\ busy \in BOOLEAN
    /\ walk \in {"idle", "asked", "walks", "waits", "done", "died"}
    /\ pos \in 0 .. Records + 1
    /\ cancelled \in BOOLEAN
    /\ delivered \in Seq(Key)
    /\ refused \in BOOLEAN

\* Query spawns the child and asks it to start.
Init ==
    /\ prefixed \in BOOLEAN /\ reverse \in BOOLEAN
    /\ block \in Block
    /\ bucket \in {"found", "none", "inner", "unnamed"}
    /\ caller = "waits"
    /\ child = "alive"
    /\ inbox = <<Msg("start")>>
    /\ busy = FALSE
    /\ walk = "idle"
    /\ pos = 0
    /\ cancelled = FALSE
    /\ delivered = <<>>
    /\ refused = FALSE

(***************************************************************************)
(* The cursor                                                              *)
(***************************************************************************)

HasPrefix(k) == prefixed => block[1] <= k /\ k <= block[2]

\* mutant: a forward walk with a prefix starts at the first key as well
FromTheStart == IF reverse THEN Records ELSE 1

\* Seek finds the first key that is not before the prefix, which has it or has
\* not.  A reverse walk starts at the last key of the bucket, prefix or not.
FirstKey == IF reverse THEN Records ELSE IF prefixed THEN block[1] ELSE 1

NextKey(k) == IF reverse THEN k - 1 ELSE k + 1

\* The loop goes on.
InRange(k) == k \in Key /\ HasPrefix(k)

(***************************************************************************)
(* The database actor                                                      *)
(***************************************************************************)

\* mutant: the answer overtakes the records
Overtaking(m) == <<m>> \o inbox

\* MsgAckGetData and MsgNoAckGetData queue up behind the records.
Responds(m) == Append(inbox, m)

\* Without a topmost bucket the cursor dereferences nil: the actor panics and
\* is restarted, and nobody is answered.
QueryData ==
    /\ walk = "asked"
    /\ \/ /\ bucket = "found"
          /\ walk' = "walks"
          /\ pos' = FirstKey
          /\ UNCHANGED inbox
       \/ /\ bucket = "none"
          /\ walk' = "died"
          /\ UNCHANGED <<pos, inbox>>
       \/ /\ bucket \in {"inner", "unnamed"}
          /\ walk' = "done"
          /\ inbox' = IF child # "alive" THEN inbox
                      ELSE Responds(Msg(IF bucket = "inner" THEN "ack" ELSE "noack"))
          /\ UNCHANGED pos
    /\ UNCHANGED <<query, caller, child, busy, cancelled, delivered, refused>>

\* callback: the record is sent, and a child that has stopped is noticed at once.
Send ==
    /\ walk = "walks"
    /\ InRange(pos) /\ ~cancelled
    /\ IF child = "alive"
       THEN /\ walk' = "waits"
            /\ inbox' = Append(inbox, [type |-> "record", key |-> pos])
            /\ UNCHANGED <<pos, cancelled>>
       ELSE /\ cancelled' = TRUE
            /\ pos' = NextKey(pos)
            /\ UNCHANGED <<walk, inbox>>
    /\ UNCHANGED <<query, caller, child, busy, delivered, refused>>

\* mutant: the walk waits for a child as long as it lives
ExpiresIfStopped ==
    /\ walk = "waits"
    /\ child = "stopped"
    /\ walk' = "walks"
    /\ cancelled' = TRUE
    /\ pos' = NextKey(pos)
    /\ UNCHANGED <<query, caller, child, inbox, busy, delivered, refused>>

\* The wait expires: the walk is cancelled, the cursor moves on all the same.
Expires ==
    /\ walk = "waits"
    /\ walk' = "walks"
    /\ cancelled' = TRUE
    /\ pos' = NextKey(pos)
    /\ UNCHANGED <<query, caller, child, inbox, busy, delivered, refused>>

\* The walk is over or cancelled: either way it is acknowledged.
Ends ==
    /\ walk = "walks"
    /\ ~InRange(pos) \/ cancelled
    /\ walk' = "done"
    /\ inbox' = IF child = "alive" THEN Responds(Msg("ack")) ELSE inbox
    /\ UNCHANGED <<query, caller, child, busy, pos, cancelled, delivered, refused>>

(***************************************************************************)
(* The child                                                               *)
(***************************************************************************)

Gets(t) == child = "alive" /\ ~busy /\ inbox # <<>> /\ Head(inbox).type = t

Start ==
    /\ Gets("start")
    /\ inbox' = Tail(inbox)
    /\ walk' = "asked"
    /\ UNCHANGED <<query, caller, child, busy, pos, cancelled, delivered, refused>>

\* mutant: the cursor stays where it is
AsksAgain(k) ==
    IF walk = "waits" /\ pos = k
    THEN walk' = "walks" /\ UNCHANGED <<pos, cancelled>>
    ELSE UNCHANGED db

\* The database actor's wait for k ends; an answer to an expired one is lost.
Asks(k) ==
    IF walk = "waits" /\ pos = k
    THEN walk' = "walks" /\ pos' = NextKey(k) /\ UNCHANGED cancelled
    ELSE UNCHANGED db

\* MsgQueryResponse: ask for the next record, then call `query'.
Record ==
    /\ Gets("record")
    /\ inbox' = Tail(inbox)
    /\ Asks(Head(inbox).key)
    /\ busy' = TRUE
    /\ delivered' = Append(delivered, Head(inbox).key)
    /\ UNCHANGED <<query, caller, child, refused>>

\* A future of the caller that is done keeps its first answer.
Tell(answer) == caller' = IF caller = "waits" THEN answer ELSE caller

\* `query' returns; when it wants no more, the caller is told to stop.
QueryReturns(more) ==
    /\ busy
    /\ busy' = FALSE
    /\ IF more THEN UNCHANGED <<caller, refused>>
       ELSE Tell("ok") /\ refused' = TRUE
    /\ UNCHANGED <<query, child, inbox, db, delivered>>

Ack ==
    /\ Gets("ack")
    /\ inbox' = Tail(inbox)
    /\ Tell("ok")
    /\ UNCHANGED <<query, child, busy, db, delivered, refused>>

NoAck ==
    /\ Gets("noack")
    /\ inbox' = Tail(inbox)
    /\ Tell("error")
    /\ UNCHANGED <<query, child, busy, db, delivered, refused>>

\* The child stops, and what is left of its mailbox is dropped.
Poisoned ==
    /\ Gets("poison")
    /\ child' = "stopped"
    /\ inbox' = <<>>
    /\ UNCHANGED <<query, caller, busy, db, delivered, refused>>

(***************************************************************************)
(* The caller                                                              *)
(***************************************************************************)

\* Query gives up after twenty seconds.
CallerExpires ==
    /\ caller = "waits"
    /\ caller' = "expired"
    /\ UNCHANGED <<query, child, inbox, busy, db, delivered, refused>>

\* A goroutine that outlives Query poisons the child; the pill queues up.
PoisonFuture ==
    /\ caller # "waits"
    /\ child = "alive"
    /\ \A i \in 1 .. Len(inbox) : inbox[i].type # "poison"
    /\ inbox' = Append(inbox, Msg("poison"))
    /\ UNCHANGED <<query, caller, child, busy, db, delivered, refused>>

-----------------------------------------------------------------------------

Walk  == QueryData \/ Send \/ Expires \/ Ends
Child == Start \/ Ack \/ NoAck \/ Record \/ Poisoned

Next ==
    \/ Walk
    \/ Child
    \/ \E more \in BOOLEAN : QueryReturns(more)
    \/ CallerExpires \/ PoisonFuture

Spec == Init /\ [][Next]_vars

\* The database actor runs and its futures expire.  Nothing is assumed of the
\* caller's function, nor, therefore, of the child.
Fairness == WF_vars(Walk)

FairSpec == Spec /\ Fairness

-----------------------------------------------------------------------------
(***************************************************************************)
(* Properties                                                              *)
(***************************************************************************)

\* The keys the caller asked for, in the order it asked for: what a query of
\* these arguments should deliver, whatever the cursor does.
Wanted(k)  == k \in Key /\ HasPrefix(k)
Earlier(j, k) == IF reverse THEN j > k ELSE j < k

\* The caller's function sees wanted records only, each once, in order, and
\* none is left out before one it sees, whatever expires meanwhile.
InOrder ==
    \A i \in 1 .. Len(delivered) :
       /\ Wanted(delivered[i])
       /\ \A k \in Key : Wanted(k) /\ Earlier(k, delivered[i])
             <=> \E j \in 1 .. i - 1 : delivered[j] = k

\* The last key of the bucket lacks the prefix: a reverse walk stops before it
\* has begun (repo.go:125).
ReverseMisses == reverse /\ Records \in Key /\ ~HasPrefix(Records)

\* Query returns nil after every wanted record was seen, unless the caller's
\* function refused one, a wait expired, a bucket is missing, or the walk was
\* a reverse one that never began.  Nothing tells the caller which.
CompleteOrCut ==
    caller = "ok" =>
       \/ \A k \in Key : Wanted(k) => \E i \in 1 .. Len(delivered) : delivered[i] = k
       \/ refused \/ cancelled
       \/ bucket # "found" \/ ReverseMisses

\* The caller's function is called after Query has returned only if it refused
\* a record before or Query gave up: the acknowledgement comes behind every
\* record.
NoLateCall ==
    [][delivered' # delivered /\ caller # "waits" => refused \/ caller = "expired"]_vars

\* The database actor gets out of a walk even if the caller's function never
\* returns.
Released == walk \in {"walks", "waits"} ~> walk \in {"done", "died"}
=============================================================================
