------------------------------- MODULE DbActor -------------------------------
(***************************************************************************)
(* The database actor of internal/_database_ and the service before it.    *)
(* The actor opens a bbolt file, and keeps a state machine (fsm.go) beside *)
(* its behaviour (actor.go): in CloseState it handles what opens the file  *)
(* and ignores requests, in WaitState it serves them.  A failed open is    *)
(* retried by way of messages to itself.  A service call is a request with *)
(* a future of one second.                                                 *)
(*                                                                         *)
(* bbolt is external: a transaction happens or does not, what it wrote     *)
(* stays in the file, and when its commit fails it may have happened.  The *)
(* requests name one path of buckets: the topmost, which nothing here      *)
(* creates, and nested ones, which an insert or update creates.            *)
(***************************************************************************)
EXTENDS Integers, Sequences

CONSTANTS
    Op, Key, None,  \* as in KvStore
    MaxFails,       \* bound: opens that fail
    MaxCommands,    \* bound: MsgOpenDB and MsgCloseDB sent from outside
    MaxStops        \* bound: times the actor is stopped, 0 or 1

ASSUME DbBounds == /\ MaxFails \in Nat /\ MaxCommands \in Nat
                   /\ MaxStops \in {0, 1}

\* A value is told apart from the other outcomes of a call.
ASSUME DbValues ==
    /\ None \notin Op
    /\ (Op \cup {None}) \cap {"new", "waiting", "unknown", "pending", "ack",
                            "refused", "failed"} = {}

VARIABLES
    behavior,  \* CloseState or WaitState
    fsm,       \* the state of a.fm
    db,        \* a.db: "nil", "open" or "closed"
    mailbox,   \* oldest first
    stopped,
    bucket,    \* the file has the topmost bucket
    nested,    \* the file has the nested ones
    request, data, result, told,   \* as in KvStore; data is the file's content
    fails, commands

actor  == <<behavior, fsm, db, mailbox, stopped>>
calls  == <<request, data, nested, result, told>>
bounds == <<fails, commands>>
vars   == <<actor, bucket, calls, bounds>>

\* The store the calls see, over the file's content and the calls' state.
Store == INSTANCE KvStore WITH
             Op <- Op, Key <- Key, None <- None,
             request <- request, data <- data, nested <- nested,
             result <- result, told <- told

Control == {"Started", "MsgOpenDB", "MsgOpenedDB", "MsgErrorDB", "MsgCloseDB"}
Message == [type : Control] \cup [type : {"request"}, op : Op]
Msg(t)  == [type |-> t]

TypeOK ==
    /\ behavior \in {"CloseState", "WaitState"}
    /\ fsm \in {"sInit", "sOpen", "sClose", "sRestart", "sWait"}
    /\ db \in {"nil", "open", "closed"}
    /\ mailbox \in Seq(Message)
    /\ stopped \in BOOLEAN
    /\ bucket \in BOOLEAN /\ nested \in BOOLEAN
    /\ request \in [Op -> Store!Call]
    /\ data \in [Key -> Op \cup {None}]
    /\ result \in [Op -> Store!Result \cup {"pending"}]
    /\ told \in [Op -> Store!Result \cup {"new", "waiting", "unknown"}]
    /\ fails \in 0 .. MaxFails
    /\ commands \in 0 .. MaxCommands

Init ==
    /\ behavior = "CloseState"
    /\ fsm = "sInit"
    /\ db = "nil"
    /\ mailbox = <<Msg("Started")>>
    /\ stopped = FALSE
    /\ bucket \in BOOLEAN
    /\ Store!Init
    /\ nested => bucket
    /\ fails = 0 /\ commands = 0

(***************************************************************************)
(* The actor                                                               *)
(***************************************************************************)

Gets(state, type) == /\ ~stopped
                     /\ behavior = state
                     /\ mailbox # <<>>
                     /\ Head(mailbox).type = type

\* eOpenCmd is legal where the file is not being opened and not open.
MayOpen == fsm \in {"sInit", "sClose", "sRestart"}

\* Started or MsgOpenDB in CloseState: open the file, which posts the outcome.
Open ==
    /\ Gets("CloseState", "Started") \/ Gets("CloseState", "MsgOpenDB")
    /\ MayOpen
    /\ fsm' = "sOpen"
    /\ \/ /\ db' = "open"
          /\ mailbox' = Append(Tail(mailbox), Msg("MsgOpenedDB"))
          /\ UNCHANGED fails
       \/ /\ fails < MaxFails
          /\ fails' = fails + 1
          /\ db' = IF db = "nil" THEN "nil" ELSE "closed"
          /\ mailbox' = Append(Tail(mailbox), Msg("MsgErrorDB"))
    /\ UNCHANGED <<behavior, stopped, bucket, calls, commands>>

\* mutant: the reopening is not posted
RestartsNot == <<>>
RestartsBy  == <<Msg("MsgOpenDB")>>

\* MsgErrorDB: after thirty seconds, try again.
Restart ==
    /\ Gets("CloseState", "MsgErrorDB")
    /\ fsm = "sOpen"
    /\ fsm' = "sRestart"
    /\ mailbox' = Tail(mailbox) \o RestartsBy
    /\ UNCHANGED <<behavior, db, stopped, bucket, calls, bounds>>

\* MsgOpenedDB: serve requests.
Opened ==
    /\ Gets("CloseState", "MsgOpenedDB")
    /\ behavior' = "WaitState"
    /\ fsm' = IF fsm = "sOpen" THEN "sWait" ELSE fsm
    /\ mailbox' = Tail(mailbox)
    /\ UNCHANGED <<db, stopped, bucket, calls, bounds>>

\* In CloseState a request and MsgCloseDB are lost; so is MsgOpenDB while the
\* file is being opened, and in WaitState always.
Ignored == \/ Gets("CloseState", "request") \/ Gets("CloseState", "MsgCloseDB")
           \/ Gets("CloseState", "MsgOpenDB") /\ ~MayOpen
           \/ Gets("WaitState", "MsgOpenDB")
Ignore ==
    /\ Ignored
    /\ mailbox' = Tail(mailbox)
    /\ UNCHANGED <<behavior, fsm, db, stopped, bucket, calls, bounds>>

\* What eClosed does to the handle: closed and forgotten.
KeepsHandle  == db        \* mutant
ClosedHandle == "nil"

\* MsgCloseDB in WaitState.
Close ==
    /\ Gets("WaitState", "MsgCloseDB")
    /\ db' = ClosedHandle
    /\ fsm' = "sClose"
    /\ behavior' = "CloseState"
    /\ mailbox' = Tail(mailbox)
    /\ UNCHANGED <<stopped, bucket, calls, bounds>>

\* Stopping closes the file in WaitState only.  The mailbox is lost.
Stop ==
    /\ MaxStops = 1
    /\ ~stopped
    /\ stopped' = TRUE
    /\ mailbox' = <<>>
    /\ IF behavior = "WaitState"
       THEN db' = ClosedHandle /\ fsm' = "sClose" /\ behavior' = "CloseState"
       ELSE UNCHANGED <<db, fsm, behavior>>
    /\ UNCHANGED <<bucket, calls, bounds>>

\* The request is answered with r, an error unless r is "ack" or a value.
Respond(o, r) == result' = [result EXCEPT ![o] = r]

\* The transaction returned an error and is rolled back.
RollBack(o, r) == Respond(o, r) /\ UNCHANGED <<data, nested>>

\* v is written under the request's id.
Put(o, v) == data' = [data EXCEPT ![request[o].key] = v] /\ nested' = TRUE

\* bbolt writes the transaction to the file.  An error on the way is answered;
\* whether the file has the transaction then depends on how far it came.
Commit(o, v) == \/ Put(o, v) /\ Respond(o, "ack")
                \/ Put(o, v) /\ Respond(o, "failed")
                \/ RollBack(o, "failed")

\* PersistData creates the nested buckets; it refuses names and ids bbolt does
\* not accept, and to overwrite when it is not an update.
PersistAnyway(o, update) == Commit(o, o)   \* mutant
PersistData(o, update) ==
    IF request[o].form = "bad" \/ (~update /\ data[request[o].key] # None)
    THEN RollBack(o, "refused")
    ELSE Commit(o, o)

\* RemoveData and GetData refuse those too, and a nested bucket that is missing.
RemoveData(o) ==
    IF request[o].form = "bad" \/ ~nested THEN RollBack(o, "refused")
    ELSE Commit(o, None)
GetData(o) ==
    RollBack(o, IF request[o].form = "bad" \/ ~nested THEN "refused"
                ELSE data[request[o].key])

\* A request in WaitState.  Of the bad ones some are refused before the topmost
\* bucket is looked at.
Serve(o) ==
    /\ Gets("WaitState", "request")
    /\ Head(mailbox).op = o
    /\ bucket \/ request[o].form = "bad"
    /\ mailbox' = Tail(mailbox)
    /\ CASE request[o].kind = "insert" -> PersistData(o, FALSE)
         [] request[o].kind = "update" -> PersistData(o, TRUE)
         [] request[o].kind = "delete" -> RemoveData(o)
         [] request[o].kind = "get"    -> GetData(o)
    /\ UNCHANGED <<behavior, fsm, db, stopped, bucket, request, told, bounds>>

\* With no topmost bucket the transaction panics and is rolled back.  The actor
\* is restarted with its mailbox and its behaviour; the request is lost.
Panic ==
    /\ Gets("WaitState", "request")
    /\ ~bucket
    /\ mailbox' = Tail(mailbox)
    /\ UNCHANGED <<behavior, fsm, db, stopped, bucket, calls, bounds>>

(***************************************************************************)
(* The service and others that send to the actor                           *)
(***************************************************************************)

\* A call of the service: request with a future.
Request(o) ==
    /\ told[o] = "new"
    /\ told' = [told EXCEPT ![o] = "waiting"]
    /\ mailbox' = IF stopped THEN mailbox
                  ELSE Append(mailbox, [type |-> "request", op |-> o])
    /\ UNCHANGED <<behavior, fsm, db, stopped, bucket, request, data, nested, result,
                   bounds>>

\* The answer reaches the future in time ...
Answer(o) ==
    /\ told[o] = "waiting"
    /\ result[o] # "pending"
    /\ told' = [told EXCEPT ![o] = result[o]]
    /\ UNCHANGED <<actor, bucket, request, data, nested, result, bounds>>

\* ... or the future expires, or finds no actor.
Timeout(o) ==
    /\ told[o] = "waiting"
    /\ told' = [told EXCEPT ![o] = "unknown"]
    /\ UNCHANGED <<actor, bucket, request, data, nested, result, bounds>>

Command(t) ==
    /\ ~stopped
    /\ commands < MaxCommands
    /\ commands' = commands + 1
    /\ mailbox' = Append(mailbox, Msg(t))
    /\ UNCHANGED <<behavior, fsm, db, stopped, bucket, calls, fails>>

-----------------------------------------------------------------------------

Receive == \/ Open \/ Restart \/ Opened \/ Ignore \/ Close \/ Panic
           \/ \E o \in Op : Serve(o)

Next == \/ Receive \/ Stop
        \/ \E o \in Op : Request(o) \/ Answer(o) \/ Timeout(o)
        \/ \E t \in {"MsgOpenDB", "MsgCloseDB"} : Command(t)

Spec == Init /\ [][Next]_vars

\* The actor serves its mailbox.
FairSpec == Spec /\ WF_vars(Receive)

-----------------------------------------------------------------------------
(***************************************************************************)
(* Properties                                                              *)
(***************************************************************************)

\* The behaviour, the state machine and the handle never disagree: requests are
\* served exactly in sWait and over an open file, and while the actor lives a
\* file is open only in sWait or while MsgOpenedDB is on its way.
StatesAgree ==
    /\ behavior = "WaitState" <=> fsm = "sWait"
    /\ fsm = "sWait" => db = "open"
    /\ db = "open" /\ ~stopped =>
         \/ fsm = "sWait"
         \/ fsm = "sOpen" /\ \E i \in DOMAIN mailbox : mailbox[i].type = "MsgOpenedDB"

\* A stopped actor leaves the file open, and so locked for the next one, only
\* when it was stopped between the opening and MsgOpenedDB (actor.go:71-87 has
\* no case for Stopping).
LockIsReleased == stopped /\ db = "open" => fsm = "sOpen"

\* The actor and its service implement the store: a call takes effect at most
\* once and is told what it met, through failed opens, reopenings, closings, a
\* stop, failed commits and expired futures; what is refused has written nothing.
ImplementsStore == Store!Spec

\* The file is opened in the end however often opening fails at first, as long
\* as nobody sends the actor a command or stops it.
Opens == <>(behavior = "WaitState" \/ commands > 0 \/ stopped)
=============================================================================
