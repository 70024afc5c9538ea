---------------------------- MODULE DbActorProofs ----------------------------
(***************************************************************************)
(* Proofs of DbActor's safety properties, and that it implements KvStore,  *)
(* for any set of calls and ids and any bounds.                            *)
(*                                                                         *)
(* Neither is inductive.  StatesAgree needs to know what the one outcome   *)
(* message that may be in the mailbox, MsgOpenedDB or MsgErrorDB, says of  *)
(* the state machine and the handle.  The refinement needs that a request  *)
(* in the mailbox was made, has not taken effect, and is there once.       *)
(***************************************************************************)
EXTENDS DbActor, TLAPS

USE DbBounds

-----------------------------------------------------------------------------
\* Mailboxes

At(i, type) == mailbox[i].type = type
Outcome(i)  == At(i, "MsgOpenedDB") \/ At(i, "MsgErrorDB")
Asks(i, o)  == mailbox[i].type = "request" /\ mailbox[i].op = o

\* A handler leaves the messages behind the first, in their order.
LEMMA TailFacts ==
    ASSUME NEW q \in Seq(Message), q # <<>>
    PROVE  /\ Tail(q) \in Seq(Message) /\ Head(q) = q[1] /\ 1 \in DOMAIN q
           /\ Head(q) \in Message
           /\ \A i \in DOMAIN Tail(q) : i + 1 \in DOMAIN q /\ Tail(q)[i] = q[i + 1]
           /\ \A i \in DOMAIN q : i # 1 => i - 1 \in DOMAIN Tail(q)
                                          /\ Tail(q)[i - 1] = q[i]
  OBVIOUS

\* A sender adds one message behind the others.
LEMMA AppendFacts ==
    ASSUME NEW q \in Seq(Message), NEW m \in Message
    PROVE  /\ Append(q, m) \in Seq(Message)
           /\ Len(q) + 1 \in DOMAIN Append(q, m) /\ Append(q, m)[Len(q) + 1] = m
           /\ \A i \in DOMAIN q : i \in DOMAIN Append(q, m) /\ Append(q, m)[i] = q[i]
           /\ \A i \in DOMAIN Append(q, m) :
                 i \in DOMAIN q \/ i = Len(q) + 1
  OBVIOUS

\* A message put behind the others as a mailbox of its own.
LEMMA ConcatFacts ==
    ASSUME NEW q \in Seq(Message), NEW m \in Message
    PROVE  q \o <<m>> = Append(q, m)
  <1>1. <<m>> \in Seq(Message) /\ Len(<<m>>) = 1 /\ <<m>>[1] = m  OBVIOUS
  <1>2. q \o <<m>> \in Seq(Message) /\ Len(q \o <<m>>) = Len(q) + 1  BY <1>1
  <1>3. \A i \in 1 .. Len(q) + 1 : (q \o <<m>>)[i] = Append(q, m)[i]  BY <1>1
  <1>4. Append(q, m) \in Seq(Message) /\ Len(Append(q, m)) = Len(q) + 1  OBVIOUS
  <1> QED  BY <1>2, <1>3, <1>4

LEMMA MessageFacts ==
    /\ \A t \in Control : Msg(t) \in Message
    /\ Msg("MsgOpenDB") \in Message
    /\ Msg("MsgOpenedDB") \in Message /\ Msg("MsgErrorDB") \in Message
    /\ \A o \in Op : [type |-> "request", op |-> o] \in Message
    /\ \A o \in Op : [type |-> "request", op |-> o].type = "request"
    /\ \A o \in Op : [type |-> "request", op |-> o].op = o
    /\ \A t : Msg(t).type = t
    /\ \A m \in Message : m.type = "request" => m.op \in Op
    /\ \A m \in Message : m.type = "request" \/ m.type \in Control
    /\ "request" \notin Control
  BY DEF Message, Msg, Control

-----------------------------------------------------------------------------
\* The invariants

\* What a message about the opening says, there is one while the file is being
\* opened, and otherwise none and the handle is as the state has it.
OutcomeInv ==
    /\ \A i, j \in DOMAIN mailbox : Outcome(i) /\ Outcome(j) => i = j
    /\ \A i \in DOMAIN mailbox :
         /\ At(i, "MsgOpenedDB") => fsm = "sOpen" /\ db = "open"
         /\ At(i, "MsgErrorDB") => fsm = "sOpen" /\ db # "open"
    /\ fsm = "sOpen" /\ ~stopped => \E i \in DOMAIN mailbox : Outcome(i)
    /\ db = "open" => fsm \in {"sOpen", "sWait"}
    /\ fsm = "sWait" => db = "open"
    /\ behavior = "WaitState" <=> fsm = "sWait"
    /\ stopped => fsm # "sWait"

\* A request in the mailbox was made, has not taken effect, and is there once.
RequestInv ==
    /\ \A o \in Op : told[o] = "new" => result[o] = "pending"
    /\ \A o \in Op : \A i \in DOMAIN mailbox :
         Asks(i, o) => told[o] # "new" /\ result[o] = "pending"
    /\ \A o \in Op : \A i, j \in DOMAIN mailbox :
         Asks(i, o) /\ Asks(j, o) => i = j

LEMMA InitInv == Init => TypeOK /\ OutcomeInv /\ RequestInv
  <1> SUFFICES ASSUME Init PROVE TypeOK /\ OutcomeInv /\ RequestInv  OBVIOUS
  <1>1. mailbox \in Seq(Message) /\ Len(mailbox) = 1 /\ mailbox[1].type = "Started"
    BY MessageFacts DEF Init, Control
  <1>2. TypeOK
    <2>1. /\ request \in [Op -> Store!Call] /\ data \in [Key -> Op \cup {None}]
          /\ result \in [Op -> Store!Result \cup {"pending"}]
          /\ told \in [Op -> Store!Result \cup {"new", "waiting", "unknown"}]
      BY DEF Init, Store!Init
    <2>2. fails \in 0 .. MaxFails /\ commands \in 0 .. MaxCommands  BY DEF Init
    <2>3. stopped \in BOOLEAN /\ bucket \in BOOLEAN /\ nested \in BOOLEAN
      BY DEF Init, Store!Init
    <2> QED  BY <1>1, <2>1, <2>2, <2>3 DEF Init, TypeOK
  <1>3. OutcomeInv  BY <1>1 DEF Init, OutcomeInv, Outcome, At
  <1>4. RequestInv  BY <1>1 DEF Init, Store!Init, RequestInv, Asks
  <1> QED  BY <1>2, <1>3, <1>4

-----------------------------------------------------------------------------
\* Type correctness

\* What serving a request writes and answers.
LEMMA ServeFacts ==
    ASSUME TypeOK, NEW o \in Op, Serve(o)
    PROVE  /\ data' \in [Key -> Op \cup {None}] /\ nested' \in BOOLEAN
           /\ \E r \in Store!Result : Respond(o, r)
  <1>1. /\ request[o].kind \in {"insert", "update", "delete", "get"}
        /\ request[o].key \in Key
        /\ data[request[o].key] \in Op \cup {None}
    BY DEF TypeOK, Store!Call
  <1>2. ASSUME NEW v \in Op \cup {None}, Commit(o, v)
        PROVE  /\ data' \in [Key -> Op \cup {None}] /\ nested' \in BOOLEAN
               /\ \E r \in Store!Result : Respond(o, r)
    BY <1>1, <1>2 DEF Commit, Put, RollBack, TypeOK, Store!Result
  <1>3. ASSUME NEW r \in Store!Result, RollBack(o, r)
        PROVE  /\ data' \in [Key -> Op \cup {None}] /\ nested' \in BOOLEAN
               /\ Respond(o, r)
    BY <1>3 DEF RollBack, TypeOK
  <1>4. \/ \E v \in Op \cup {None} : Commit(o, v)
        \/ \E r \in Store!Result : RollBack(o, r)
    BY <1>1 DEF Serve, PersistData, RemoveData, GetData, Store!Result
  <1> QED  BY <1>2, <1>3, <1>4

LEMMA TypeStep == TypeOK /\ [Next]_vars => TypeOK'
  <1> SUFFICES ASSUME TypeOK, [Next]_vars PROVE TypeOK'  OBVIOUS
  <1> USE TailFacts, AppendFacts, MessageFacts DEF TypeOK, Control
  <1>1. CASE Open
    <2>1. mailbox' \in Seq(Message)
      <3>1. Tail(mailbox) \in Seq(Message)  BY <1>1, TailFacts DEF Open, Gets
      <3>2. \E m \in Message : mailbox' = Append(Tail(mailbox), m)
        BY ONLY <1>1, MessageFacts DEF Open
      <3> QED  BY ONLY <3>1, <3>2
    <2>2. fails' \in 0 .. MaxFails  BY <1>1 DEF Open
    <2>3. db' \in {"nil", "open", "closed"}  BY <1>1 DEF Open
    <2> QED  BY <1>1, <2>1, <2>2, <2>3 DEF Open, calls
  <1>2. CASE Restart
    <2>1. mailbox' = Append(Tail(mailbox), Msg("MsgOpenDB"))
      BY <1>2, ConcatFacts DEF Restart, Gets, RestartsBy
    <2>2. mailbox' \in Seq(Message)
      <3>1. Tail(mailbox) \in Seq(Message)  BY <1>2, TailFacts DEF Restart, Gets
      <3> QED  BY ONLY <2>1, <3>1, MessageFacts
    <2> QED  BY <1>2, <2>2 DEF Restart, calls, bounds
  <1>3. CASE Opened  BY <1>3 DEF Opened, Gets, calls, bounds
  <1>4. CASE Ignore  BY <1>4 DEF Ignore, Ignored, Gets, calls, bounds
  <1>5. CASE Close  BY <1>5 DEF Close, ClosedHandle, Gets, calls, bounds
  <1>6. CASE Panic  BY <1>6 DEF Panic, Gets, calls, bounds
  <1>7. ASSUME NEW o \in Op, Serve(o) PROVE TypeOK'
    <2>1. /\ data' \in [Key -> Op \cup {None}] /\ nested' \in BOOLEAN
          /\ \E r \in Store!Result : Respond(o, r)
      BY <1>7, ServeFacts
    <2>2. result' \in [Op -> Store!Result \cup {"pending"}]  BY <2>1 DEF Respond
    <2> QED  BY <1>7, <2>1, <2>2 DEF Serve, Gets, bounds
  <1>8. CASE Stop
    <2>1. mailbox' \in Seq(Message)  BY <1>8 DEF Stop
    <2> QED  BY <1>8, <2>1 DEF Stop, ClosedHandle, calls, bounds
  <1>9. ASSUME NEW o \in Op, Request(o) PROVE TypeOK'
    BY <1>9 DEF Request, bounds
  <1>10. ASSUME NEW o \in Op, Answer(o) \/ Timeout(o) PROVE TypeOK'
    <2>1. result[o] # "pending" => result[o] \in Store!Result  OBVIOUS
    <2>2. told' \in [Op -> Store!Result \cup {"new", "waiting", "unknown"}]
      BY ONLY TypeOK, <1>10, <2>1 DEF Answer, Timeout, TypeOK
    <2> QED  BY <1>10, <2>2 DEF Answer, Timeout, actor, bounds
  <1>11. ASSUME NEW t \in {"MsgOpenDB", "MsgCloseDB"}, Command(t) PROVE TypeOK'
    BY <1>11 DEF Command, calls
  <1>12. CASE UNCHANGED vars  BY <1>12 DEF vars, actor, calls, bounds
  <1> QED
    BY <1>1, <1>2, <1>3, <1>4, <1>5, <1>6, <1>7, <1>8, <1>9, <1>10, <1>11, <1>12
       DEF Next, Receive

\* Every variable of the database actor and of its service keeps its type.
THEOREM TypeCorrect == Spec => []TypeOK
  BY InitInv, TypeStep, PTL DEF Spec

-----------------------------------------------------------------------------
\* The opening

\* The two agree about a handler that takes a message which is no outcome.
LEMMA OutcomeTaken ==
    ASSUME TypeOK, OutcomeInv, mailbox # <<>>, ~Outcome(1),
           mailbox' = Tail(mailbox), UNCHANGED <<behavior, fsm, db, stopped>>
    PROVE  OutcomeInv'
  <1>1. \A i \in DOMAIN mailbox' : i + 1 \in DOMAIN mailbox
                                   /\ mailbox'[i] = mailbox[i + 1]
    BY TailFacts DEF TypeOK
  <1>2. \A i \in DOMAIN mailbox : i # 1 => i - 1 \in DOMAIN mailbox'
                                          /\ mailbox'[i - 1] = mailbox[i]
    BY TailFacts DEF TypeOK
  <1>3. \A i, j \in DOMAIN mailbox' : (Outcome(i) /\ Outcome(j))' => i = j
    BY <1>1 DEF OutcomeInv, Outcome, At, TypeOK
  <1>4. \A i \in DOMAIN mailbox' :
          /\ At(i, "MsgOpenedDB")' => fsm = "sOpen" /\ db = "open"
          /\ At(i, "MsgErrorDB")' => fsm = "sOpen" /\ db # "open"
    BY <1>1 DEF OutcomeInv, At
  <1>5. fsm = "sOpen" /\ ~stopped => \E i \in DOMAIN mailbox' : Outcome(i)'
    <2> SUFFICES ASSUME fsm = "sOpen", ~stopped
                 PROVE \E i \in DOMAIN mailbox' : Outcome(i)'
      OBVIOUS
    <2>1. PICK i \in DOMAIN mailbox : Outcome(i)  BY DEF OutcomeInv
    <2>2. i # 1  BY <2>1
    <2> QED  BY <1>2, <2>1, <2>2 DEF Outcome, At
  <1> QED  BY <1>3, <1>4, <1>5 DEF OutcomeInv

\* A message that is no outcome arrives.
LEMMA OutcomeSent ==
    ASSUME TypeOK, OutcomeInv, NEW m \in Message,
           m.type \notin {"MsgOpenedDB", "MsgErrorDB"},
           mailbox' = Append(mailbox, m), UNCHANGED <<behavior, fsm, db, stopped>>
    PROVE  OutcomeInv'
  <1>1. /\ \A i \in DOMAIN mailbox : i \in DOMAIN mailbox' /\ mailbox'[i] = mailbox[i]
        /\ \A i \in DOMAIN mailbox' : i \in DOMAIN mailbox \/ mailbox'[i] = m
    BY AppendFacts DEF TypeOK
  <1>2. \A i \in DOMAIN mailbox' : Outcome(i)' => i \in DOMAIN mailbox /\ Outcome(i)
    BY <1>1 DEF Outcome, At
  <1>3. \A i \in DOMAIN mailbox :  Outcome(i) => i \in DOMAIN mailbox' /\ Outcome(i)'
    BY <1>1 DEF Outcome, At
  <1>4. \A i, j \in DOMAIN mailbox' : (Outcome(i) /\ Outcome(j))' => i = j
    BY <1>2 DEF OutcomeInv
  <1>5. \A i \in DOMAIN mailbox' :
          /\ At(i, "MsgOpenedDB")' => fsm = "sOpen" /\ db = "open"
          /\ At(i, "MsgErrorDB")' => fsm = "sOpen" /\ db # "open"
    BY <1>1 DEF OutcomeInv, At
  <1>6. fsm = "sOpen" /\ ~stopped => \E i \in DOMAIN mailbox' : Outcome(i)'
    BY <1>3 DEF OutcomeInv
  <1> QED  BY <1>4, <1>5, <1>6 DEF OutcomeInv

\* The file is opened, or not, and the outcome is posted.
LEMMA OutcomePosted == TypeOK /\ OutcomeInv /\ Open => OutcomeInv'
  <1> SUFFICES ASSUME TypeOK, OutcomeInv, Open PROVE OutcomeInv'  OBVIOUS
  <1>1. \A i \in DOMAIN mailbox : ~Outcome(i)
    BY DEF Open, MayOpen, OutcomeInv, Outcome
  <1>2. mailbox # <<>> /\ Tail(mailbox) \in Seq(Message)
        /\ \A i \in DOMAIN Tail(mailbox) : i + 1 \in DOMAIN mailbox
                                         /\ Tail(mailbox)[i] = mailbox[i + 1]
    BY TailFacts DEF TypeOK, Open, Gets
  <1>3. /\ fsm' = "sOpen" /\ fsm # "sWait" /\ UNCHANGED <<behavior, stopped>>
        /\ \E m \in Message :
              /\ mailbox' = Append(Tail(mailbox), m)
              /\ \/ m.type = "MsgOpenedDB" /\ db' = "open"
                 \/ m.type = "MsgErrorDB" /\ db' # "open"
    <2>1. /\ fsm' = "sOpen" /\ fsm # "sWait" /\ UNCHANGED <<behavior, stopped>>
      BY DEF Open, MayOpen
    <2>2. \/ /\ db' = "open"
             /\ mailbox' = Append(Tail(mailbox), Msg("MsgOpenedDB"))
          \/ /\ db' # "open"
             /\ mailbox' = Append(Tail(mailbox), Msg("MsgErrorDB"))
      BY DEF Open
    <2> QED  BY ONLY <2>1, <2>2, MessageFacts
  <1>4. PICK m \in Message :
          /\ mailbox' = Append(Tail(mailbox), m)
          /\ \/ m.type = "MsgOpenedDB" /\ db' = "open"
             \/ m.type = "MsgErrorDB" /\ db' # "open"
    BY <1>3
  <1> DEFINE n == Len(Tail(mailbox)) + 1
  <1>5. /\ n \in DOMAIN mailbox' /\ mailbox'[n] = m
        /\ \A i \in DOMAIN mailbox' :
             \/ i = n
             \/ i + 1 \in DOMAIN mailbox /\ mailbox'[i] = mailbox[i + 1]
    <2>1. /\ n \in DOMAIN mailbox' /\ mailbox'[n] = m
          /\ \A i \in DOMAIN Tail(mailbox) : mailbox'[i] = Tail(mailbox)[i]
          /\ \A i \in DOMAIN mailbox' : i \in DOMAIN Tail(mailbox) \/ i = n
      BY ONLY <1>2, <1>4, AppendFacts
    <2> QED  BY ONLY <1>2, <2>1
  <1>6. \A i \in DOMAIN mailbox' : Outcome(i)' => i = n
    BY <1>1, <1>5 DEF Outcome, At
  <1>7. Outcome(n)'  BY <1>4, <1>5 DEF Outcome, At
  <1>8. \A i \in DOMAIN mailbox' :
          /\ At(i, "MsgOpenedDB")' => db' = "open"
          /\ At(i, "MsgErrorDB")' => db' # "open"
    BY <1>4, <1>5, <1>6 DEF Outcome, At
  <1>9. behavior # "WaitState"  BY DEF Open, Gets
  <1> QED  BY <1>3, <1>5, <1>6, <1>7, <1>8, <1>9 DEF OutcomeInv

\* The outcome is handled: the file is served, or opened again.
LEMMA OutcomeHandled == TypeOK /\ OutcomeInv /\ (Opened \/ Restart) => OutcomeInv'
  <1> SUFFICES ASSUME TypeOK, OutcomeInv, Opened \/ Restart PROVE OutcomeInv'
    OBVIOUS
  <1>1. /\ mailbox # <<>> /\ Outcome(1) /\ 1 \in DOMAIN mailbox
        /\ Tail(mailbox) \in Seq(Message)
        /\ \A i \in DOMAIN Tail(mailbox) : i + 1 \in DOMAIN mailbox
                                         /\ Tail(mailbox)[i] = mailbox[i + 1]
    BY TailFacts DEF TypeOK, Opened, Restart, Gets, Outcome, At
  <1>2. \A i \in DOMAIN Tail(mailbox) : Tail(mailbox)[i].type
                                          \notin {"MsgOpenedDB", "MsgErrorDB"}
    BY <1>1 DEF OutcomeInv, Outcome, At, TypeOK
  <1>3. \A i \in DOMAIN mailbox' : ~Outcome(i)'
    <2>1. CASE Opened  BY <1>2, <2>1 DEF Opened, Outcome, At
    <2>2. CASE Restart
      <3>1. mailbox' = Append(Tail(mailbox), Msg("MsgOpenDB"))
        BY <1>1, <2>2, ConcatFacts, MessageFacts DEF Restart, RestartsBy
      <3> QED
        BY <1>1, <1>2, <3>1, AppendFacts, MessageFacts DEF Outcome, At
    <2> QED  BY <2>1, <2>2
  <1>4. CASE Opened
    <2>1. fsm = "sOpen" /\ db = "open"
      <3>1. At(1, "MsgOpenedDB")  BY <1>4, TailFacts DEF Opened, Gets, At, TypeOK
      <3> QED  BY <1>1, <3>1 DEF OutcomeInv
    <2> QED  BY <1>3, <1>4, <2>1 DEF Opened, Gets, OutcomeInv, Outcome
  <1>5. CASE Restart
    <2>1. fsm = "sOpen" /\ db # "open"
      BY <1>1, <1>5, TailFacts DEF Restart, Gets, OutcomeInv, At, TypeOK
    <2> QED  BY <1>3, <1>5, <2>1 DEF Restart, OutcomeInv, Outcome
  <1> QED  BY <1>4, <1>5

\* The file is closed, while it is served.
LEMMA OutcomeClosed == TypeOK /\ OutcomeInv /\ (Close \/ Stop) => OutcomeInv'
  <1> SUFFICES ASSUME TypeOK, OutcomeInv, Close \/ Stop PROVE OutcomeInv'  OBVIOUS
  <1>1. CASE Close
    <2>1. \A i \in DOMAIN mailbox : ~Outcome(i)
      BY <1>1 DEF Close, Gets, OutcomeInv, Outcome
    <2>2. \A i \in DOMAIN mailbox' : ~Outcome(i)'
      BY <1>1, <2>1, TailFacts DEF Close, Gets, TypeOK, Outcome, At
    <2> QED  BY <1>1, <2>2 DEF Close, ClosedHandle, OutcomeInv, Outcome
  <1>2. CASE Stop
    <2>1. mailbox' = <<>> /\ stopped'  BY <1>2 DEF Stop
    <2> QED  BY <1>2, <2>1 DEF Stop, ClosedHandle, OutcomeInv, Outcome, TypeOK
  <1> QED  BY <1>1, <1>2

LEMMA OutcomeStep == TypeOK /\ OutcomeInv /\ [Next]_vars => OutcomeInv'
  <1> SUFFICES ASSUME TypeOK, OutcomeInv, [Next]_vars PROVE OutcomeInv'  OBVIOUS
  <1>1. CASE Ignore \/ Panic \/ \E o \in Op : Serve(o)
    <2>1. /\ mailbox # <<>> /\ mailbox' = Tail(mailbox)
          /\ UNCHANGED <<behavior, fsm, db, stopped>>
          /\ Head(mailbox).type \notin {"MsgOpenedDB", "MsgErrorDB"}
      BY <1>1 DEF Ignore, Ignored, Panic, Serve, Gets
    <2> QED  BY <2>1, OutcomeTaken DEF Outcome, At
  <1>2. ASSUME NEW o \in Op, Request(o) PROVE OutcomeInv'
    <2>1. CASE stopped
      BY <1>2, <2>1 DEF Request, OutcomeInv, Outcome, At
    <2>2. CASE ~stopped
      BY <1>2, <2>2, OutcomeSent, MessageFacts DEF Request
    <2> QED  BY <2>1, <2>2
  <1>3. ASSUME NEW t \in {"MsgOpenDB", "MsgCloseDB"}, Command(t) PROVE OutcomeInv'
    BY <1>3, OutcomeSent, MessageFacts DEF Command, Control
  <1>4. CASE (\E o \in Op : Answer(o) \/ Timeout(o)) \/ UNCHANGED vars
    BY <1>4 DEF Answer, Timeout, vars, actor, OutcomeInv, Outcome, At
  <1> QED
    BY <1>1, <1>2, <1>3, <1>4, OutcomePosted, OutcomeHandled, OutcomeClosed
       DEF Next, Receive

LEMMA OutcomeHolds == Spec => []OutcomeInv
  BY InitInv, OutcomeStep, TypeCorrect, PTL DEF Spec

\* Behaviour, state machine and handle never disagree.
THEOREM TheyAgree == Spec => []StatesAgree
  <1>1. OutcomeInv => StatesAgree  BY DEF OutcomeInv, StatesAgree, Outcome, At
  <1> QED  BY <1>1, OutcomeHolds, PTL

\* A stopped actor has left the file open only while it was being opened.
THEOREM LockReleased == Spec => []LockIsReleased
  <1>1. OutcomeInv => LockIsReleased  BY DEF OutcomeInv, LockIsReleased
  <1> QED  BY <1>1, OutcomeHolds, PTL

-----------------------------------------------------------------------------
\* The store

\* A handler takes a message: the requests behind it stay.
LEMMA AsksTaken ==
    ASSUME TypeOK, RequestInv, mailbox # <<>>,
           \/ mailbox' = Tail(mailbox)
           \/ \E m \in Message : /\ m.type # "request"
                                 /\ mailbox' = Append(Tail(mailbox), m)
    PROVE  /\ \A o \in Op : \A i \in DOMAIN mailbox' :
                 Asks(i, o)' => i + 1 \in DOMAIN mailbox /\ Asks(i + 1, o)
           /\ \A o \in Op : \A i, j \in DOMAIN mailbox' :
                 Asks(i, o)' /\ Asks(j, o)' => i = j
  <1>1. /\ Tail(mailbox) \in Seq(Message)
        /\ \A i \in DOMAIN Tail(mailbox) : i + 1 \in DOMAIN mailbox
                                         /\ Tail(mailbox)[i] = mailbox[i + 1]
    BY TailFacts DEF TypeOK
  <1>2. \A i \in DOMAIN mailbox' :
          \/ i + 1 \in DOMAIN mailbox /\ mailbox'[i] = mailbox[i + 1]
          \/ mailbox'[i].type # "request"
    BY <1>1, AppendFacts
  <1>3. \A o \in Op : \A i \in DOMAIN mailbox' :
          Asks(i, o)' => i + 1 \in DOMAIN mailbox /\ Asks(i + 1, o)
    BY <1>2 DEF Asks
  <1>4. \A i \in DOMAIN mailbox' : i \in Int
    BY <1>1, AppendFacts
  <1> QED  BY <1>3, <1>4 DEF RequestInv

LEMMA RequestStep == TypeOK /\ RequestInv /\ [Next]_vars => RequestInv'
  <1> SUFFICES ASSUME TypeOK, RequestInv, [Next]_vars PROVE RequestInv'  OBVIOUS
  <1>1. CASE Open \/ Restart \/ Opened \/ Ignore \/ Close \/ Panic
    <2>1. mailbox # <<>> /\ UNCHANGED calls
      BY <1>1 DEF Open, Restart, Opened, Ignore, Ignored, Close, Panic, Gets
    <2>2. \/ mailbox' = Tail(mailbox)
          \/ \E m \in Message : /\ m.type # "request"
                                /\ mailbox' = Append(Tail(mailbox), m)
      <3>1. CASE Open  BY ONLY <3>1, MessageFacts DEF Open
      <3>2. CASE Restart
        <4>1. Tail(mailbox) \in Seq(Message)  BY <2>1, TailFacts DEF TypeOK
        <4> QED  BY ONLY <3>2, <4>1, ConcatFacts, MessageFacts DEF Restart, RestartsBy
      <3> QED  BY <1>1, <3>1, <3>2 DEF Opened, Ignore, Close, Panic
    <2> QED  BY <2>1, <2>2, AsksTaken DEF RequestInv, calls
  <1>2. ASSUME NEW o \in Op, Serve(o) PROVE RequestInv'
    <2>1. /\ mailbox # <<>> /\ mailbox' = Tail(mailbox)
          /\ UNCHANGED told
          /\ 1 \in DOMAIN mailbox /\ Asks(1, o)
          /\ \A p \in Op : p # o => result'[p] = result[p]
      BY <1>2, TailFacts, ServeFacts DEF Serve, Gets, Asks, TypeOK, Respond
    <2>2. \A i \in DOMAIN mailbox' : ~Asks(i, o)'
      BY <2>1, AsksTaken, TailFacts DEF RequestInv, TypeOK
    <2> QED  BY <2>1, <2>2, AsksTaken DEF RequestInv
  <1>3. CASE Stop
    BY <1>3 DEF Stop, calls, RequestInv
  <1>4. ASSUME NEW o \in Op, Request(o) PROVE RequestInv'
    <2>1. /\ told[o] = "new" /\ told' = [told EXCEPT ![o] = "waiting"]
          /\ UNCHANGED result
      BY <1>4 DEF Request
    <2>2. \A i \in DOMAIN mailbox : ~Asks(i, o)  BY <2>1 DEF RequestInv
    <2>3. CASE stopped
      BY <1>4, <2>1, <2>3 DEF Request, RequestInv, Asks, TypeOK
    <2>4. CASE ~stopped
      <3>1. \E m \in Message : /\ mailbox' = Append(mailbox, m)
                               /\ m.type = "request" /\ m.op = o
        BY ONLY <1>4, <2>4, MessageFacts DEF Request
      <3>2. \A i \in DOMAIN mailbox' :
              \/ i \in DOMAIN mailbox /\ mailbox'[i] = mailbox[i]
              \/ i = Len(mailbox) + 1 /\ mailbox'[i].op = o
        BY <3>1, AppendFacts DEF TypeOK
      <3>3. \A p \in Op : \A i \in DOMAIN mailbox' :
              Asks(i, p)' => \/ i \in DOMAIN mailbox /\ Asks(i, p)
                             \/ i = Len(mailbox) + 1 /\ p = o
        BY <3>2 DEF Asks
      <3>4. \A p \in Op : told'[p] = "new" => told[p] = "new" /\ p # o
        BY <2>1 DEF TypeOK
      <3>5. \A p \in Op : told[p] # "new" \/ p = o => told'[p] # "new"
        BY <2>1 DEF TypeOK
      <3>6. result[o] = "pending"  BY <2>1 DEF RequestInv
      <3>7. \A p \in Op : \A i, j \in DOMAIN mailbox' :
              Asks(i, p)' /\ Asks(j, p)' => i = j
        BY <2>2, <3>3 DEF RequestInv
      <3>8. \A p \in Op : \A i \in DOMAIN mailbox' :
              Asks(i, p)' => told'[p] # "new" /\ result[p] = "pending"
        BY <3>3, <3>5, <3>6 DEF RequestInv
      <3> QED  BY <2>1, <3>4, <3>7, <3>8 DEF RequestInv
    <2> QED  BY <2>3, <2>4
  <1>5. ASSUME NEW o \in Op, Answer(o) \/ Timeout(o) PROVE RequestInv'
    <2>1. \A p \in Op : told'[p] = "new" <=> told[p] = "new"
      BY <1>5, DbValues DEF Answer, Timeout, TypeOK, Store!Result
    <2> QED  BY <1>5, <2>1 DEF Answer, Timeout, actor, RequestInv, Asks
  <1>6. ASSUME NEW t \in {"MsgOpenDB", "MsgCloseDB"}, Command(t) PROVE RequestInv'
    <2>1. /\ UNCHANGED calls
          /\ \E m \in Message : /\ mailbox' = Append(mailbox, m)
                               /\ m.type # "request"
      BY ONLY <1>6, MessageFacts DEF Command, Control
    <2>2. \A p \in Op : \A i \in DOMAIN mailbox' :
            Asks(i, p)' => i \in DOMAIN mailbox /\ Asks(i, p)
      BY <2>1, AppendFacts DEF TypeOK, Asks
    <2> QED  BY <2>1, <2>2 DEF RequestInv, calls
  <1>7. CASE UNCHANGED vars
    BY <1>7 DEF vars, actor, calls, RequestInv, Asks
  <1> QED
    BY <1>1, <1>2, <1>3, <1>4, <1>5, <1>6, <1>7 DEF Next, Receive

LEMMA RequestHolds == Spec => []RequestInv
  BY InitInv, RequestStep, TypeCorrect, PTL DEF Spec

\* Every step of the actor and its service is one of the store, or none.
LEMMA StoreStep ==
    TypeOK /\ RequestInv /\ [Next]_vars => [Store!Next]_calls
  <1> SUFFICES ASSUME TypeOK, RequestInv, [Next]_vars PROVE [Store!Next]_calls
    OBVIOUS
  <1>1. ASSUME NEW o \in Op, Serve(o) PROVE Store!TakeEffect(o)
    <2>1. told[o] # "new" /\ result[o] = "pending"
      BY <1>1, TailFacts DEF Serve, Gets, RequestInv, Asks, TypeOK
    <2>2. request[o].kind \in {"insert", "update", "delete", "get"}
      BY DEF TypeOK, Store!Call
    <2>3. \A v : Commit(o, v) => Store!Commits(o, v)
      BY DEF Commit, Put, Respond, RollBack, Store!Commits, Store!Writes, Store!NoWrite,
             Store!Meets
    <2>4. \A r : RollBack(o, r) => Store!NoWrite /\ Store!Meets(o, r)
      BY DEF RollBack, Respond, Store!NoWrite, Store!Meets
    <2>5. CASE request[o].kind \in {"insert", "update"}
      BY <1>1, <2>1, <2>3, <2>4, <2>5 DEF Serve, PersistData, Store!TakeEffect
    <2>6. CASE request[o].kind = "delete"
      BY <1>1, <2>1, <2>3, <2>4, <2>6 DEF Serve, RemoveData, Store!TakeEffect
    <2>7. CASE request[o].kind = "get"
      BY <1>1, <2>1, <2>4, <2>7 DEF Serve, GetData, Store!TakeEffect
    <2> QED  BY <2>2, <2>5, <2>6, <2>7
  <1>2. ASSUME NEW o \in Op, Request(o) PROVE Store!Make(o)
    BY <1>2 DEF Request, Store!Make
  <1>3. ASSUME NEW o \in Op, Answer(o) PROVE Store!Tell(o)
    BY <1>3 DEF Answer, Store!Tell
  <1>4. ASSUME NEW o \in Op, Timeout(o) PROVE Store!GiveUp(o)
    BY <1>4 DEF Timeout, Store!GiveUp
  <1>5. CASE \/ Open \/ Restart \/ Opened \/ Ignore \/ Close \/ Panic \/ Stop
             \/ (\E t \in {"MsgOpenDB", "MsgCloseDB"} : Command(t))
             \/ UNCHANGED vars
    BY <1>5 DEF Open, Restart, Opened, Ignore, Close, Panic, Stop, Command, vars
  <1> QED  BY <1>1, <1>2, <1>3, <1>4, <1>5 DEF Next, Receive, Store!Next

\* The actor and its service implement the store: a call takes effect at most
\* once and its caller is told what it met, or knows nothing.
THEOREM StoreImplemented == Spec => ImplementsStore
  <1>1. Init => Store!Init  BY DEF Init
  <1> QED
    BY <1>1, StoreStep, TypeCorrect, RequestHolds, PTL
       DEF Spec, ImplementsStore, Store!Spec, calls

-----------------------------------------------------------------------------
\* What Opens and the absence of deadlocks rest on

Coming(type) == \E i \in DOMAIN mailbox : At(i, type)

\* The oldest message is handled where it is meant to be, or ignored.
Takes == \/ MayOpen /\ (Gets("CloseState", "Started") \/ Gets("CloseState", "MsgOpenDB"))
         \/ fsm = "sOpen" /\ Gets("CloseState", "MsgErrorDB")
         \/ Gets("CloseState", "MsgOpenedDB")
         \/ Ignored
         \/ Gets("WaitState", "MsgCloseDB") \/ Gets("WaitState", "request")

\* As long as nobody commands the actor and the file is not served, the next
\* message that opens it, or the outcome of an opening, is on its way.
OpeningGoesOn ==
    ~stopped /\ commands = 0 /\ behavior = "CloseState" =>
        \/ fsm = "sInit" /\ Coming("Started")
        \/ fsm = "sOpen" /\ \E i \in DOMAIN mailbox : Outcome(i)
        \/ fsm = "sRestart" /\ Coming("MsgOpenDB")

\* Started is the first message of all, and a closing was commanded.
MailInv ==
    /\ \A i \in DOMAIN mailbox : At(i, "Started") => i = 1 /\ fsm = "sInit"
    /\ \A i \in DOMAIN mailbox : At(i, "MsgCloseDB") => commands > 0

\* A handler that takes a message and posts none.
LEMMA MailTaken ==
    ASSUME TypeOK, MailInv, mailbox # <<>>, mailbox' = Tail(mailbox),
           UNCHANGED commands
    PROVE  MailInv'
  <1>1. \A i \in DOMAIN mailbox' : i + 1 \in DOMAIN mailbox
                                   /\ mailbox'[i] = mailbox[i + 1]
    BY TailFacts DEF TypeOK
  <1>2. \A i \in DOMAIN mailbox' : i \in Nat /\ i > 0  BY TailFacts DEF TypeOK
  <1>3. \A i \in DOMAIN mailbox' : At(i, "Started")' => i + 1 = 1
    BY <1>1 DEF MailInv, At
  <1>4. \A i \in DOMAIN mailbox' : At(i, "MsgCloseDB")' => commands > 0
    BY <1>1 DEF MailInv, At
  <1> QED  BY <1>2, <1>3, <1>4 DEF MailInv

\* A handler that takes a message and posts one that is of the opening.
LEMMA MailPosted ==
    ASSUME TypeOK, MailInv, mailbox # <<>>, NEW m \in Message,
           m.type \notin {"Started", "MsgCloseDB"},
           mailbox' = Append(Tail(mailbox), m), UNCHANGED commands
    PROVE  MailInv'
  <1>1. Tail(mailbox) \in Seq(Message)
        /\ \A i \in DOMAIN Tail(mailbox) : i + 1 \in DOMAIN mailbox
              /\ Tail(mailbox)[i] = mailbox[i + 1] /\ i \in Nat /\ i > 0
    BY TailFacts DEF TypeOK
  <1>2. \A i \in DOMAIN mailbox' :
          \/ mailbox'[i] = m
          \/ i + 1 \in DOMAIN mailbox /\ mailbox'[i] = mailbox[i + 1]
             /\ i \in Nat /\ i > 0
    BY <1>1, AppendFacts
  <1>3. \A i \in DOMAIN mailbox' : At(i, "Started")' => i + 1 = 1 /\ i \in Nat /\ i > 0
    BY <1>2 DEF MailInv, At
  <1>4. \A i \in DOMAIN mailbox' : At(i, "MsgCloseDB")' => commands > 0
    BY <1>2 DEF MailInv, At
  <1> QED  BY <1>3, <1>4 DEF MailInv

\* A sender's message leaves the others as they are.
LEMMA MailSent ==
    ASSUME TypeOK, MailInv, NEW m \in Message, m.type # "Started",
           mailbox' = Append(mailbox, m), UNCHANGED fsm,
           commands' >= commands, commands' \in Nat,
           m.type = "MsgCloseDB" => commands' > 0
    PROVE  MailInv'
  <1>1. \A i \in DOMAIN mailbox' :
          \/ mailbox'[i] = m
          \/ i \in DOMAIN mailbox /\ mailbox'[i] = mailbox[i]
    BY AppendFacts DEF TypeOK
  <1>2. \A i \in DOMAIN mailbox' : At(i, "Started")' => i = 1 /\ fsm' = "sInit"
    BY <1>1 DEF MailInv, At
  <1>3. \A i \in DOMAIN mailbox' : At(i, "MsgCloseDB")' => commands' > 0
    BY <1>1 DEF MailInv, At, TypeOK
  <1> QED  BY <1>2, <1>3 DEF MailInv

LEMMA MailStep == TypeOK /\ MailInv /\ [Next]_vars => MailInv'
  <1> SUFFICES ASSUME TypeOK, MailInv, [Next]_vars PROVE MailInv'  OBVIOUS
  <1>1. CASE Opened \/ Ignore \/ Close \/ Panic \/ \E o \in Op : Serve(o)
    <2>1. mailbox # <<>> /\ mailbox' = Tail(mailbox) /\ UNCHANGED commands
      BY <1>1 DEF Opened, Ignore, Ignored, Close, Panic, Serve, Gets, bounds
    <2> QED  BY <2>1, MailTaken
  <1>2. CASE Open
    <2>1. /\ mailbox # <<>> /\ UNCHANGED commands
          /\ \E t \in {"MsgOpenedDB", "MsgErrorDB"} :
                mailbox' = Append(Tail(mailbox), Msg(t))
      BY <1>2 DEF Open, Gets
    <2> QED  BY <2>1, MailPosted, MessageFacts
  <1>3. CASE Restart
    <2>1. /\ mailbox # <<>> /\ UNCHANGED commands
          /\ mailbox' = Append(Tail(mailbox), Msg("MsgOpenDB"))
      BY <1>3, ConcatFacts, TailFacts, MessageFacts
         DEF Restart, RestartsBy, Gets, bounds, TypeOK
    <2> QED  BY <2>1, MailPosted, MessageFacts
  <1>4. CASE Stop
    <2>1. DOMAIN mailbox' = {}  BY <1>4 DEF Stop
    <2> QED  BY <2>1 DEF MailInv
  <1>5. ASSUME NEW o \in Op, Request(o) PROVE MailInv'
    <2>1. UNCHANGED <<fsm, commands>> /\ commands \in Nat
      BY <1>5 DEF Request, bounds, TypeOK
    <2>2. CASE stopped  BY <1>5, <2>1, <2>2 DEF Request, MailInv, At
    <2>3. CASE ~stopped
      BY <1>5, <2>1, <2>3, MailSent, MessageFacts DEF Request
    <2> QED  BY <2>2, <2>3
  <1>6. ASSUME NEW t \in {"MsgOpenDB", "MsgCloseDB"}, Command(t) PROVE MailInv'
    <2>1. /\ UNCHANGED fsm /\ commands' \in Nat /\ commands' > 0
          /\ commands' >= commands /\ mailbox' = Append(mailbox, Msg(t))
      BY <1>6 DEF Command, TypeOK
    <2>2. Msg(t) \in Message /\ Msg(t).type # "Started"
      BY MessageFacts DEF Control
    <2> QED  BY <2>1, <2>2, MailSent
  <1>7. CASE (\E o \in Op : Answer(o) \/ Timeout(o)) \/ UNCHANGED vars
    BY <1>7 DEF Answer, Timeout, vars, actor, bounds, MailInv, At
  <1> QED
    BY <1>1, <1>2, <1>3, <1>4, <1>5, <1>6, <1>7 DEF Next, Receive

\* A message behind the first stays in the mailbox through every step that
\* does not stop the actor.
LEMMA ComingStays ==
    ASSUME TypeOK, NEW type, Coming(type),
           \/ mailbox' = mailbox
           \/ \E m \in Message : mailbox' = Append(mailbox, m)
           \/ mailbox # <<>> /\ mailbox' = Tail(mailbox) /\ Head(mailbox).type # type
    PROVE  Coming(type)'
  <1>1. PICK i \in DOMAIN mailbox : At(i, type)  BY DEF Coming
  <1>2. CASE mailbox' = mailbox  BY <1>1, <1>2 DEF Coming, At
  <1>3. CASE \E m \in Message : mailbox' = Append(mailbox, m)
    BY <1>1, <1>3, AppendFacts DEF Coming, At, TypeOK
  <1>4. CASE mailbox # <<>> /\ mailbox' = Tail(mailbox) /\ Head(mailbox).type # type
    <2>1. i # 1  BY <1>1, <1>4, TailFacts DEF At, TypeOK
    <2>2. i - 1 \in DOMAIN mailbox' /\ mailbox'[i - 1] = mailbox[i]
      BY <1>4, <2>1, TailFacts DEF TypeOK
    <2> QED  BY <1>1, <2>2 DEF Coming, At
  <1> QED  BY <1>2, <1>3, <1>4

LEMMA OpeningStep ==
    TypeOK /\ OutcomeInv /\ OutcomeInv' /\ MailInv /\ OpeningGoesOn /\ [Next]_vars
        => OpeningGoesOn'
  <1> SUFFICES ASSUME TypeOK, OutcomeInv, OutcomeInv', MailInv, OpeningGoesOn,
                      [Next]_vars, ~stopped', commands' = 0,
                      behavior' = "CloseState", fsm' # "sOpen"
               PROVE  \/ fsm' = "sInit" /\ Coming("Started")'
                      \/ fsm' = "sRestart" /\ Coming("MsgOpenDB")'
    BY DEF OpeningGoesOn, OutcomeInv
  <1>1. CASE Restart
    <2>1. mailbox' = Append(Tail(mailbox), Msg("MsgOpenDB"))
      BY <1>1, ConcatFacts, TailFacts, MessageFacts
         DEF Restart, RestartsBy, Gets, TypeOK
    <2>2. Tail(mailbox) \in Seq(Message)
      BY <1>1, TailFacts DEF Restart, Gets, TypeOK
    <2>3. Coming("MsgOpenDB")'
      BY <2>1, <2>2, AppendFacts, MessageFacts DEF Coming, At
    <2> QED  BY <1>1, <2>3 DEF Restart
  <1>2. CASE Close
    <2>1. 1 \in DOMAIN mailbox /\ At(1, "MsgCloseDB")
      BY <1>2, TailFacts DEF Close, Gets, At, TypeOK
    <2>2. commands = 0  BY <1>2 DEF Close, bounds
    <2> QED  BY <2>1, <2>2 DEF MailInv
  <1>3. CASE Open \/ Opened \/ Stop \/ Panic \/ \E o \in Op : Serve(o)
    BY <1>3 DEF Open, Opened, Stop, Panic, Serve, Gets
  <1>4. CASE Ignore
    <2>1. /\ UNCHANGED <<behavior, fsm, stopped, commands>>
          /\ mailbox # <<>> /\ mailbox' = Tail(mailbox)
      BY <1>4 DEF Ignore, Ignored, Gets, bounds
    <2>2. /\ Head(mailbox).type # "Started"
          /\ fsm = "sRestart" => Head(mailbox).type # "MsgOpenDB"
      BY <1>4, <2>1 DEF Ignore, Ignored, Gets, MayOpen
    <2> QED  BY <2>1, <2>2, ComingStays DEF OpeningGoesOn
  <1>5. ASSUME NEW t \in {"MsgOpenDB", "MsgCloseDB"}, Command(t) PROVE FALSE
    BY <1>5 DEF Command, TypeOK
  <1>6. CASE (\E o \in Op : Request(o) \/ Answer(o) \/ Timeout(o)) \/ UNCHANGED vars
    <2>1. /\ UNCHANGED <<behavior, fsm, stopped, commands>>
          /\ \/ mailbox' = mailbox
             \/ \E m \in Message : mailbox' = Append(mailbox, m)
      BY <1>6, MessageFacts DEF Request, Answer, Timeout, vars, actor, bounds
    <2> QED  BY <2>1, ComingStays DEF OpeningGoesOn
  <1> QED
    BY <1>1, <1>2, <1>3, <1>4, <1>5, <1>6 DEF Next, Receive

LEMMA InitMail == Init => MailInv /\ OpeningGoesOn
  <1> SUFFICES ASSUME Init PROVE MailInv /\ OpeningGoesOn  OBVIOUS
  <1>1. DOMAIN mailbox = {1} /\ mailbox[1].type = "Started" /\ fsm = "sInit"
    BY MessageFacts DEF Init
  <1> QED  BY <1>1 DEF MailInv, OpeningGoesOn, Coming, At

LEMMA MailHolds == Spec => [](MailInv /\ OpeningGoesOn)
  <1>1. TypeOK /\ OutcomeInv /\ OutcomeInv' /\ (MailInv /\ OpeningGoesOn) /\ [Next]_vars
          => (MailInv /\ OpeningGoesOn)'
    BY MailStep, OpeningStep
  <1> QED  BY <1>1, InitMail, TypeCorrect, OutcomeHolds, PTL DEF Spec

\* An opening that failed is always followed by the next one: while the actor
\* is neither commanded nor stopped and serves no requests, Started, the outcome
\* of an opening or the MsgOpenDB of a retry is in its mailbox (actor.go:97-134).
\* With the fairness of Receive this is why Opens holds.
THEOREM NextOpeningComes == Spec => []OpeningGoesOn
  BY MailHolds, PTL

\* Through failed openings, closings and commands in any order, every message
\* comes where actor.go has a use for it, or is one that Ignored says is lost:
\* Started finds a file that may be opened, MsgErrorDB an opening to restart, and
\* neither it nor MsgOpenedDB comes late.  So the case of MsgErrorDB in WaitState
\* (actor.go:107), which would close and reopen the file that is served, is never taken.
THEOREM EveryMessageIsTaken == Spec => [](~stopped /\ mailbox # <<>> => Takes)
  <1>1. TypeOK /\ OutcomeInv /\ MailInv /\ ~stopped /\ mailbox # <<>> => Takes
    <2> SUFFICES ASSUME TypeOK, OutcomeInv, MailInv, ~stopped, mailbox # <<>>
                 PROVE  Takes
      OBVIOUS
    <2>1. /\ 1 \in DOMAIN mailbox /\ Head(mailbox) = mailbox[1]
          /\ Head(mailbox).type \in Control \cup {"request"}
      BY TailFacts, MessageFacts DEF TypeOK
    <2>2. /\ Head(mailbox).type = "Started" => fsm = "sInit"
          /\ Head(mailbox).type \in {"MsgOpenedDB", "MsgErrorDB"} => fsm = "sOpen"
      BY <2>1 DEF MailInv, OutcomeInv, At
    <2>3. \/ behavior = "CloseState"
          \/ behavior = "WaitState" /\ fsm = "sWait"
      <3>1. behavior \in {"CloseState", "WaitState"}  BY DEF TypeOK
      <3>2. behavior = "WaitState" => fsm = "sWait"  BY DEF OutcomeInv
      <3> QED  BY <3>1, <3>2
    <2> QED  BY <2>1, <2>2, <2>3 DEF Takes, Ignored, Gets, MayOpen, Control
  <1> QED  BY <1>1, MailHolds, TypeCorrect, OutcomeHolds, PTL
=============================================================================
