------------------------- MODULE RequestPathProofs -------------------------
(***************************************************************************)
(* What a requester is told is true, for any number of requests of any     *)
(* kinds.                                                                  *)
(*                                                                         *)
(* The four properties compare an answer with the gateway's reply to the   *)
(* same request.  The invariant follows a request on its way: it is at one *)
(* place at a time, and while it has not come back nothing has come for    *)
(* it, so that a reply cannot change under an answer that was made of it,  *)
(* nor a response be made of another request's reply.                      *)
(***************************************************************************)
EXTENDS RequestPath, TLAPS

(***************************************************************************)
(* Mailboxes                                                               *)
(***************************************************************************)

In(q, x)    == \E i \in 1 .. Len(q) : q[i] = x
Distinct(q) == \A i, j \in 1 .. Len(q) : q[i] = q[j] => i = j

\* What is in the mailbox after a message is taken was there before, and a
\* message that was there once is there no more.
LEMMA TakeHead ==
    ASSUME NEW S, NEW q \in Seq(S), q # <<>>
    PROVE  /\ Tail(q) \in Seq(S)
           /\ Head(q) \in S
           /\ In(q, Head(q))
           /\ \A x : In(Tail(q), x) => In(q, x)
           /\ Distinct(q) => Distinct(Tail(q)) /\ ~In(Tail(q), Head(q))
  BY DEF In, Distinct

\* Posting adds the message and nothing else.
LEMMA Post ==
    ASSUME NEW S, NEW q \in Seq(S), NEW y \in S
    PROVE  /\ Append(q, y) \in Seq(S)
           /\ \A x : In(Append(q, y), x) => In(q, x) \/ x = y
           /\ Distinct(q) /\ ~In(q, y) => Distinct(Append(q, y))
  BY DEF In, Distinct

\* A mailbox that was lost is empty.
LEMMA Empty == /\ \A x : ~In(<<>>, x)
               /\ Distinct(<<>>)
  BY DEF In, Distinct

(***************************************************************************)
(* What the handlers make of a reply                                       *)
(***************************************************************************)

Outcomes == {"ok", "error", "blank", "silent", "panic"}

\* The outcome of a copied handler.
LEMMA Copies ==
    ASSUME NEW k \in Kind, NEW v
    PROVE  Outcome(k, v) =
             CASE k = "StartService"               -> StartService(v)
               [] k \in Command \ {"StartService"} -> TakeOrRelease(v)
               [] k \in Get                        -> GetAnswer(v)
               [] k = "ExecutedService"            -> ExecutedService(v)
               [] k \in {"CompanyDriver", "VehProgSvc"} -> DriverOrVehicle(v)
  BY DEF Outcome, Kind, Command, Get, KeyValue, TakeShift, ReleaseShift, TakeService,
         CompanyProgShifts, CompanyProgSvc, ServiceSummary, CompanyDriver, VehProgSvc

\* Every response has an outcome.
LEMMA OutcomeType == ASSUME NEW k \in Kind, NEW v PROVE Outcome(k, v) \in Outcomes
  <1>1. StartService(v) \in Outcomes  BY DEF StartService, Outcomes
  <1>2. TakeOrRelease(v) \in Outcomes  BY DEF TakeOrRelease, Outcomes
  <1>3. GetAnswer(v) \in Outcomes  BY DEF GetAnswer, Outcomes
  <1>4. ExecutedService(v) \in Outcomes  BY DEF ExecutedService, Outcomes
  <1>5. DriverOrVehicle(v) \in Outcomes  BY DEF DriverOrVehicle, Outcomes
  <1> QED  BY <1>1, <1>2, <1>3, <1>4, <1>5, Copies DEF Kind, Command, Get, KeyValue

\* "Not connected" is an error to every request it may be the response to.
LEMMA NotConnectedIsError ==
    ASSUME NEW k \in Command \cup Get PROVE Outcome(k, NotConnected) = "error"
  <1> USE DEF NotConnected, ErrorReply
  <1>1. /\ StartService(NotConnected) = "error"
        /\ TakeOrRelease(NotConnected) = "error"
        /\ GetAnswer(NotConnected) = "error"
    BY DEF StartService, TakeOrRelease, GetAnswer, NoJson, Blank, HoldsResp
  <1> QED  BY <1>1, Copies DEF Kind, Command, Get

\* What the gateway may reply to a request that is not about a key.
LEMMA HttpReplies ==
    ASSUME NEW k \in Command \cup Get, NEW v \in RepliesTo(k)
    PROVE  /\ v.error \in ErrText /\ v.msg \in Inner /\ v.name \in Inner
           /\ v.code \in {200, 500} /\ v.body \in Body
           /\ v.error # "none" => v.code = 500 /\ v.body = "empty"
           /\ v.error # "json" => v.msg = "none" /\ v.name = "none"
           /\ v.body = "noItinerary" => k \in Get
           /\ k \notin KeyValue
  <1>1. k \notin KeyValue  BY DEF Command, Get, KeyValue
  <1>2. CASE v \in Contents(k)
    BY <1>1, <1>2 DEF Contents, ErrText, Inner, Get
  <1>3. CASE v \in Errors(k)
    BY <1>1, <1>3 DEF Errors, ErrText, Inner, Body
  <1> QED  BY <1>1, <1>2, <1>3 DEF RepliesTo

\* To a command, success means that it was carried out, and an error that it
\* was not, with the two exceptions AnswersTellTheTruth names.
LEMMA CommandOutcome ==
    ASSUME NEW k \in Command, NEW v \in RepliesTo(k)
    PROVE  LET o == Outcome(k, FromNats(k, v))
           IN  /\ o = "ok" => \/ Done(v)
                              \/ /\ k # "StartService" /\ v.error = "json"
                                 /\ v.msg \in Blank \/ v.name \in Blank
               /\ o = "error" => \/ ~Done(v)
                                 \/ k = "StartService" /\ v.body # "good"
               /\ o \notin {"blank", "panic"}
               /\ o = "silent" =>
                    /\ k \in Command \ {"StartService"}
                    /\ {v.error, v.msg, v.name} \cap NoJson # {}
  <1>1. /\ v.error \in ErrText /\ v.code \in {200, 500}
        /\ k \notin KeyValue /\ k \notin Get
    BY HttpReplies DEF Command, Get
  <1>2. FromNats(k, v) = PostReply(v)  BY <1>1 DEF FromNats
  <1>3. v.error = "json" =>
            PostReply(v).error = MsgOrName(v) /\ PostReply(v).code = 0
    BY DEF PostReply, ErrorReply
  <1>4. v.error # "json" => /\ PostReply(v).error = v.error
                            /\ PostReply(v).code = v.code
                            /\ PostReply(v).body = v.body
    BY DEF PostReply, AsIs
  <1>5. CASE k = "StartService"
    BY <1>1, <1>2, <1>3, <1>4, <1>5, Copies DEF Kind, StartService, Done
  <1>6. CASE k # "StartService"
    <2>1. Outcome(k, FromNats(k, v)) = TakeOrRelease(PostReply(v))
      BY <1>2, <1>6, Copies DEF Kind, Command, Get
    <2>2. CASE v.error = "json"
      BY <1>3, <1>6, <2>1, <2>2 DEF TakeOrRelease, MsgOrName, Done
    <2>3. CASE v.error # "json"
      BY <1>1, <1>4, <1>6, <2>1, <2>3 DEF TakeOrRelease, Done, Blank, ErrText
    <2> QED  BY <2>2, <2>3
  <1> QED  BY <1>5, <1>6

\* To a GET, silence, a blank answer and a panic have the causes that
\* SilenceHasACause and BlankHidesOnlyGets name.
LEMMA GetOutcome ==
    ASSUME NEW k \in Get, NEW v \in RepliesTo(k)
    PROVE  LET o == Outcome(k, FromNats(k, v))
           IN  /\ o = "blank" => /\ v.code # 200 /\ v.body = "empty"
                                 /\ v.error \in {"none", "json"} /\ v.msg = "none"
               /\ o = "panic" => v.body = "noItinerary"
               /\ o = "silent" => {v.error, v.msg, v.name} \cap HoldsResp # {}
  <1>1. /\ v.error \in ErrText /\ v.msg \in Inner /\ v.code \in {200, 500}
        /\ v.error # "none" => v.code = 500 /\ v.body = "empty"
        /\ v.error # "json" => v.msg = "none"
        /\ k \notin KeyValue /\ k \notin Command
    BY HttpReplies DEF Command, Get
  <1>2. Outcome(k, FromNats(k, v)) = GetAnswer(GetReply(v))
    BY <1>1, Copies DEF FromNats, Kind, Command, Get
  <1>3. CASE v.error = "json"
    <2>1. /\ GetReply(v).error = v.msg
          /\ GetReply(v).code = 0 /\ GetReply(v).body = "empty"
      BY <1>3 DEF GetReply, ErrorReply
    <2> QED  BY <1>1, <1>2, <1>3, <2>1 DEF GetAnswer
  <1>4. CASE v.error # "json"
    <2>1. /\ GetReply(v).error = v.error /\ GetReply(v).code = v.code
          /\ GetReply(v).body = v.body
      BY <1>4 DEF GetReply, AsIs
    <2> QED  BY <1>1, <1>2, <1>4, <2>1 DEF GetAnswer
  <1> QED  BY <1>3, <1>4

\* To a key/value request.
LEMMA KeyValueOutcome ==
    ASSUME NEW k \in KeyValue, NEW v
    PROVE  Outcome(k, v) \in {"blank", "silent", "panic"} => k = "ExecutedService"
  BY Copies DEF Kind, KeyValue, Command, Get, DriverOrVehicle

(***************************************************************************)
(* Type correctness                                                        *)
(***************************************************************************)

\* The gateway's replies.
LEMMA RepliesType == \A k : RepliesTo(k) \subseteq Reply
  BY DEF RepliesTo, Contents, Errors, Reply, HttpReply, ErrText, Inner, Body

\* What the nats actor makes of a reply is a response.
LEMMA ForwardType ==
    ASSUME NEW k \in Kind, NEW v \in RepliesTo(k)
    PROVE  FromNats(k, v) \in [error : Text, code : {0, 200, 500}, body : Body]
                                \cup [kv : KvReply \cup {"GoError"}]
  <1>1. CASE k \in KeyValue
    BY <1>1 DEF RepliesTo, FromNats, KvForward, KeyValue, Command, Get
  <1>2. CASE k \in Command \cup Get
    <2>1. /\ v.error \in ErrText /\ v.msg \in Inner /\ v.name \in Inner
          /\ v.code \in {200, 500} /\ v.body \in Body
          /\ k \notin KeyValue
      BY <1>2, HttpReplies
    <2>2. FromNats(k, v) \in {PostReply(v), GetReply(v)}
      BY <1>2, <2>1 DEF FromNats
    <2>3. \A e \in Text :
            ErrorReply(e) \in [error : Text, code : {0, 200, 500}, body : Body]
      BY DEF ErrorReply, Body
    <2>4. v.msg \in Text /\ MsgOrName(v) \in Text  BY <2>1 DEF MsgOrName, Text
    <2>5. AsIs(v) \in [error : Text, code : {0, 200, 500}, body : Body]
      BY <2>1 DEF AsIs, Text
    <2> QED  BY <2>2, <2>3, <2>4, <2>5 DEF PostReply, GetReply
  <1> QED  BY <1>1, <1>2 DEF Kind

\* Requests are of the ten kinds.
LEMMA KindType == ASSUME TypeOK, NEW r \in Request PROVE kind[r] \in Kind
  BY PathAssumption DEF TypeOK

\* Every variable of the path keeps its type, whatever is requested.
THEOREM TypeCorrect == Spec => []TypeOK
  <1>1. Init => TypeOK
    <2> SUFFICES ASSUME Init PROVE TypeOK  OBVIOUS
    <2>1. /\ appq \in Seq(Request) /\ natsq \in Seq(Request)
          /\ links \in 0 .. MaxLinks
      BY PathAssumption DEF Init
    <2>2. responses \subseteq Response  BY DEF Init
    <2> QED  BY <2>1, <2>2 DEF Init, TypeOK
  <1>2. TypeOK /\ [Next]_vars => TypeOK'
    <2> SUFFICES ASSUME TypeOK, [Next]_vars PROVE TypeOK'  OBVIOUS
    <2> USE DEF TypeOK
    <2>1. ASSUME NEW r \in Request, Send(r) PROVE TypeOK'
      BY <2>1, Post DEF Send, nats
    <2>2. ASSUME NEW r \in Request, Refuse(r) PROVE TypeOK'
      BY <2>2, TakeHead DEF Refuse, Takes, Finish, nats
    <2>3. ASSUME NEW r \in Request, Ask(r) PROVE TypeOK'
      BY <2>3, TakeHead, Post DEF Ask, Takes
    <2>4. ASSUME NEW r \in Request, Expires(r) PROVE TypeOK'
      BY <2>4 DEF Expires, Finish, nats
    <2>5. ASSUME NEW r \in Request, Forward(r) PROVE TypeOK'
      BY <2>5, TakeHead DEF Forward, NatsTakes, app
    <2>6. ASSUME NEW r \in Request, NoClient(r) PROVE TypeOK'
      <3>1. [to |-> r, reply |-> NotConnected] \in Response
        BY DEF Response, NotConnected, ErrorReply, Text, ErrText, Body
      <3> QED  BY <2>6, <3>1, TakeHead DEF NoClient, NatsTakes, app
    <2>7. ASSUME NEW r \in Request, NatsAnswers(r) PROVE TypeOK'
      <3>1. kind[r] \in Kind /\ reply[r] \in RepliesTo(kind[r])
        BY <2>7, KindType DEF NatsAnswers
      <3>2. [to |-> r, reply |-> FromNats(kind[r], reply[r])] \in Response
        BY <3>1, ForwardType DEF Response
      <3> QED  BY <2>7, <3>2 DEF NatsAnswers, app
    <2>8. ASSUME NEW r \in Request, NatsExpires(r) PROVE TypeOK'
      BY <2>8 DEF NatsExpires, app
    <2>9. ASSUME NEW r \in Request, Serve(r) PROVE TypeOK'
      BY <2>9, RepliesType DEF Serve, app, nats
    <2>10. ASSUME NEW r \in Request, Lose(r) PROVE TypeOK'
      BY <2>10 DEF Lose, app, nats
    <2>11. ASSUME NEW m \in responses, Respond(m) PROVE TypeOK'
      <3>1. PICK r \in Request : /\ Outcome(kind[r], m.reply) # "panic"
                                 /\ AnswerAs(r, Outcome(kind[r], m.reply))
        BY <2>11 DEF Respond
      <3>2. Outcome(kind[r], m.reply) \in Outcomes  BY KindType, OutcomeType
      <3> QED  BY <2>11, <3>1, <3>2 DEF Respond, AnswerAs, Finish, Outcomes, nats
    <2>12. ASSUME NEW m \in responses, Panic(m) PROVE TypeOK'
      BY <2>12, Empty DEF Panic, Finish, Response
    <2>13. ASSUME NEW m \in responses, DeadLetter(m) PROVE TypeOK'
      BY <2>13 DEF DeadLetter, app, nats
    <2>14. CASE Terminated
      BY <2>14 DEF Terminated, app, nats
    <2>15. CASE LinkChanges
      <3>1. linked' \in BOOLEAN  BY <2>15 DEF LinkChanges
      <3>2. links' \in 0 .. MaxLinks  BY <2>15, PathAssumption DEF LinkChanges
      <3> QED  BY <2>15, <3>1, <3>2 DEF LinkChanges, app
    <2>16. CASE NatsDies
      <3>1. natsq' \in Seq(Request) /\ natsOn' \in Request \cup {None}
        BY <2>16 DEF NatsDies
      <3> QED  BY <2>16, <3>1 DEF NatsDies, app
    <2>17. CASE UNCHANGED vars
      BY <2>17 DEF vars, app, nats
    <2> QED
      BY <2>1, <2>2, <2>3, <2>4, <2>5, <2>6, <2>7, <2>8, <2>9, <2>10, <2>11, <2>12,
         <2>13, <2>14, <2>15, <2>16, <2>17 DEF Next
  <1> QED  BY <1>1, <1>2, PTL DEF Spec

(***************************************************************************)
(* The invariant                                                           *)
(***************************************************************************)

\* Nothing has come for r: neither a reply nor a response.
Fresh(r) == reply[r] = NoReply /\ \A m \in responses : m.to # r

\* r is on its way to the gateway.
UnderWay(r) == In(natsq, r) \/ r \in inFlight

\* The app actor has one request at a time.
OneWaits == \A r, q \in Request : Waiting(r) /\ Waiting(q) => r = q

\* What it has not taken yet has nothing to show.
NotAsked ==
    /\ \A r \in Request : stage[r] \in {"new", "queued"} =>
         Fresh(r) /\ ~UnderWay(r) /\ natsOn # r /\ answer[r] = "nothing"
    /\ \A r \in Request : In(appq, r) => stage[r] = "queued"
    /\ Distinct(appq)
    /\ \A r \in Request : Waiting(r) => answer[r] = "nothing"

\* What is on its way is at one place, and nothing has come for it.
OnePlace ==
    /\ Distinct(natsq)
    /\ \A r \in Request : In(natsq, r) => r \notin inFlight /\ natsOn # r
    /\ \A r \in Request : UnderWay(r) =>
         /\ Fresh(r)
         /\ \/ Waiting(r)
            \/ stage[r] = "done" /\ answer[r] = "timeout"

\* A response is made of the reply to its own request, or of there being no
\* client when the nats actor took it.
ResponsesAreTrue ==
    \A m \in responses :
        \/ /\ m.reply = NotConnected
           /\ kind[m.to] \notin KeyValue
           /\ reply[m.to] = NoReply
        \/ /\ reply[m.to] # NoReply
           /\ m.reply = FromNats(kind[m.to], reply[m.to])

Answers == /\ AnswersTellTheTruth
           /\ SuccessWasServed
           /\ SilenceHasACause
           /\ BlankHidesOnlyGets

PathInv == OneWaits /\ NotAsked /\ OnePlace /\ ResponsesAreTrue
PInv    == PathInv /\ Answers

LEMMA InitPathInv == Init => PathInv
  <1> SUFFICES ASSUME Init PROVE PathInv  OBVIOUS
  <1>1. OneWaits  BY DEF Init, OneWaits, Waiting
  <1>2. NotAsked
    BY Empty, PathAssumption DEF Init, NotAsked, Fresh, UnderWay, Waiting
  <1>3. OnePlace
    BY Empty, PathAssumption DEF Init, OnePlace, Fresh, UnderWay, Waiting
  <1>4. ResponsesAreTrue  BY DEF Init, ResponsesAreTrue
  <1> QED  BY <1>1, <1>2, <1>3, <1>4 DEF PathInv

\* Steps of the app actor that take no response.
LEMMA AppStep ==
    ASSUME TypeOK, PathInv, NEW r \in Request,
           Send(r) \/ Refuse(r) \/ Ask(r) \/ Expires(r)
    PROVE  PathInv'
  <1> USE DEF PathInv, TypeOK
  <1>1. CASE Send(r)
    <2> USE <1>1 DEF Send, nats
    <2>1. ~In(appq, r)  BY DEF NotAsked
    <2>2. OneWaits'  BY DEF OneWaits, Waiting
    <2>3. NotAsked'  BY <2>1, Post DEF NotAsked, Fresh, UnderWay, Waiting
    <2>4. OnePlace'  BY DEF OnePlace, NotAsked, Fresh, UnderWay, Waiting
    <2>5. ResponsesAreTrue'  BY DEF ResponsesAreTrue
    <2> QED  BY <2>2, <2>3, <2>4, <2>5
  <1>2. CASE Refuse(r)
    <2> USE <1>2 DEF Refuse, Takes, Finish, nats
    <2>1. stage[r] = "queued"  BY TakeHead DEF NotAsked
    <2>2. OneWaits'  BY DEF OneWaits, Waiting
    <2>3. NotAsked'  BY <2>1, TakeHead DEF NotAsked, Fresh, UnderWay, Waiting
    <2>4. OnePlace'  BY <2>1 DEF OnePlace, NotAsked, Fresh, UnderWay, Waiting
    <2>5. ResponsesAreTrue'  BY DEF ResponsesAreTrue
    <2> QED  BY <2>2, <2>3, <2>4, <2>5
  <1>3. CASE Ask(r)
    <2> USE <1>3 DEF Ask, Takes
    <2>1. stage[r] = "queued"  BY TakeHead DEF NotAsked
    <2>2. OneWaits'  BY DEF OneWaits, Waiting, Idle
    <2>3. NotAsked'
      BY <2>1, TakeHead, Post DEF NotAsked, Fresh, UnderWay, Waiting
    <2>4. OnePlace'
      <3>1. /\ Distinct(natsq')
            /\ \A q \in Request : In(natsq', q) => In(natsq, q) \/ q = r
        BY <2>1, Post DEF OnePlace, NotAsked, UnderWay
      <3>2. Fresh(r) /\ r \notin inFlight /\ natsOn # r
        BY <2>1 DEF NotAsked, UnderWay
      <3>3. \A q \in Request : In(natsq', q) => q \notin inFlight /\ natsOn # q
        BY <3>1, <3>2 DEF OnePlace
      <3>4. ASSUME NEW q \in Request, UnderWay(q)'
            PROVE  /\ Fresh(q)
                   /\ \/ stage'[q] = "waiting"
                      \/ stage'[q] = "done" /\ answer[q] = "timeout"
        <4>1. UnderWay(q) \/ q = r  BY <3>1, <3>4 DEF UnderWay
        <4> QED  BY <3>2, <4>1 DEF OnePlace, Waiting
      <3> QED  BY <3>1, <3>3, <3>4 DEF OnePlace, Fresh, Waiting
    <2>5. ResponsesAreTrue'  BY DEF ResponsesAreTrue
    <2> QED  BY <2>2, <2>3, <2>4, <2>5
  <1>4. CASE Expires(r)
    <2> USE <1>4 DEF Expires, Finish, nats
    <2>1. ~In(appq, r)  BY DEF NotAsked, Waiting
    <2>2. OneWaits'  BY DEF OneWaits, Waiting
    <2>3. NotAsked'  BY <2>1 DEF NotAsked, Fresh, UnderWay, Waiting
    <2>4. OnePlace'  BY DEF OnePlace, NotAsked, Fresh, UnderWay, Waiting
    <2>5. ResponsesAreTrue'  BY DEF ResponsesAreTrue
    <2> QED  BY <2>2, <2>3, <2>4, <2>5
  <1> QED  BY <1>1, <1>2, <1>3, <1>4

\* Steps of the nats actor and of the gateway.
LEMMA NatsStep ==
    ASSUME TypeOK, PathInv, NEW r \in Request,
           \/ Forward(r) \/ NoClient(r) \/ NatsAnswers(r) \/ NatsExpires(r)
           \/ Serve(r) \/ Lose(r)
    PROVE  PathInv'
  <1> USE DEF PathInv, TypeOK
  <1>1. CASE Forward(r)
    <2> USE <1>1 DEF Forward, NatsTakes, app
    <2>1. In(natsq, r)  BY TakeHead
    <2>2. OneWaits'  BY DEF OneWaits, Waiting
    <2>3. NotAsked'
      BY <2>1, TakeHead DEF NotAsked, OnePlace, Fresh, UnderWay, Waiting
    <2>4. OnePlace'
      BY <2>1, TakeHead DEF OnePlace, Fresh, UnderWay, Waiting
    <2>5. ResponsesAreTrue'  BY DEF ResponsesAreTrue
    <2> QED  BY <2>2, <2>3, <2>4, <2>5
  <1>2. CASE NoClient(r)
    <2> USE <1>2 DEF NoClient, NatsTakes, app
    <2>1. In(natsq, r)  BY TakeHead
    <2>2. OneWaits'  BY DEF OneWaits, Waiting
    <2>3. NotAsked'
      BY <2>1, TakeHead DEF NotAsked, OnePlace, Fresh, UnderWay, Waiting
    <2>4. OnePlace'
      BY <2>1, TakeHead DEF OnePlace, Fresh, UnderWay, Waiting
    <2>5. ResponsesAreTrue'
      BY <2>1 DEF ResponsesAreTrue, OnePlace, UnderWay, Fresh
    <2> QED  BY <2>2, <2>3, <2>4, <2>5
  <1>3. CASE NatsAnswers(r)
    <2> USE <1>3 DEF NatsAnswers, app
    <2>1. OneWaits'  BY DEF OneWaits, Waiting
    <2>2. NotAsked'  BY PathAssumption DEF NotAsked, Fresh, UnderWay, Waiting
    <2>3. OnePlace'  BY PathAssumption DEF OnePlace, Fresh, UnderWay, Waiting
    <2>4. ResponsesAreTrue'  BY DEF ResponsesAreTrue
    <2> QED  BY <2>1, <2>2, <2>3, <2>4
  <1>4. CASE NatsExpires(r)
    <2> USE <1>4 DEF NatsExpires, app
    <2>1. OneWaits'  BY DEF OneWaits, Waiting
    <2>2. NotAsked'  BY PathAssumption DEF NotAsked, Fresh, UnderWay, Waiting
    <2>3. OnePlace'  BY PathAssumption DEF OnePlace, Fresh, UnderWay, Waiting
    <2>4. ResponsesAreTrue'  BY DEF ResponsesAreTrue
    <2> QED  BY <2>1, <2>2, <2>3, <2>4
  <1>5. CASE Serve(r)
    <2> USE <1>5 DEF Serve, app, nats
    <2>1. UnderWay(r) /\ ~In(natsq, r)  BY DEF UnderWay, OnePlace
    <2>2. OneWaits'  BY DEF OneWaits, Waiting
    <2>3. NotAsked'  BY <2>1 DEF NotAsked, Fresh, UnderWay, Waiting
    <2>4. OnePlace'  BY <2>1 DEF OnePlace, Fresh, UnderWay, Waiting
    <2>5. ResponsesAreTrue'
      BY <2>1 DEF ResponsesAreTrue, OnePlace, Fresh
    <2> QED  BY <2>2, <2>3, <2>4, <2>5
  <1>6. CASE Lose(r)
    <2> USE <1>6 DEF Lose, app, nats
    <2>1. OneWaits'  BY DEF OneWaits, Waiting
    <2>2. NotAsked'  BY DEF NotAsked, Fresh, UnderWay, Waiting
    <2>3. OnePlace'  BY DEF OnePlace, Fresh, UnderWay, Waiting
    <2>4. ResponsesAreTrue'  BY DEF ResponsesAreTrue
    <2> QED  BY <2>1, <2>2, <2>3, <2>4
  <1> QED  BY <1>1, <1>2, <1>3, <1>4, <1>5, <1>6

\* Steps that take a response.
LEMMA ResponseStep ==
    ASSUME TypeOK, PathInv, NEW m \in responses,
           Respond(m) \/ Panic(m) \/ DeadLetter(m)
    PROVE  PathInv'
  <1> USE DEF PathInv, TypeOK
  <1>0. m.to \in Request  BY DEF Response
  <1>1. CASE Respond(m)
    <2> USE <1>0, <1>1 DEF Respond, OwnFuture, nats
    <2>1. PICK a : stage' = [stage EXCEPT ![m.to] = "done"]
                   /\ answer' = [answer EXCEPT ![m.to] = a]
      BY DEF AnswerAs, Finish, OneWaits
    <2>2. OneWaits'  BY <2>1 DEF OneWaits, Waiting
    <2>3. NotAsked'  BY <2>1 DEF NotAsked, Fresh, UnderWay, Waiting
    <2>4. OnePlace'  BY <2>1 DEF OnePlace, Fresh, UnderWay, Waiting
    <2>5. ResponsesAreTrue'  BY DEF ResponsesAreTrue
    <2> QED  BY <2>2, <2>3, <2>4, <2>5
  <1>2. CASE Panic(m)
    <2> USE <1>0, <1>2 DEF Panic, Finish
    <2>2. OneWaits'  BY DEF OneWaits, Waiting
    <2>3. NotAsked'
      BY Empty, PathAssumption DEF NotAsked, Fresh, UnderWay, Waiting
    <2>4. OnePlace'
      BY Empty, PathAssumption DEF OnePlace, Fresh, UnderWay, Waiting
    <2>5. ResponsesAreTrue'  BY DEF ResponsesAreTrue
    <2> QED  BY <2>2, <2>3, <2>4, <2>5
  <1>3. CASE DeadLetter(m)
    <2> USE <1>0, <1>3 DEF DeadLetter, app, nats
    <2>2. OneWaits'  BY DEF OneWaits, Waiting
    <2>3. NotAsked'  BY DEF NotAsked, Fresh, UnderWay, Waiting
    <2>4. OnePlace'  BY DEF OnePlace, Fresh, UnderWay, Waiting
    <2>5. ResponsesAreTrue'  BY DEF ResponsesAreTrue
    <2> QED  BY <2>2, <2>3, <2>4, <2>5
  <1> QED  BY <1>1, <1>2, <1>3

\* Steps of no request, and no step.
LEMMA OtherStep ==
    ASSUME TypeOK, PathInv,
           Terminated \/ LinkChanges \/ NatsDies \/ UNCHANGED vars
    PROVE  PathInv'
  <1> USE DEF PathInv, TypeOK
  <1>1. CASE Terminated \/ LinkChanges \/ UNCHANGED vars
    <2> USE <1>1 DEF Terminated, LinkChanges, vars, app, nats
    <2>1. OneWaits'  BY DEF OneWaits, Waiting
    <2>2. NotAsked' /\ OnePlace'
      BY DEF NotAsked, OnePlace, Fresh, UnderWay, Waiting
    <2>3. ResponsesAreTrue'  BY DEF ResponsesAreTrue
    <2> QED  BY <2>1, <2>2, <2>3
  <1>2. CASE NatsDies
    <2> USE <1>2 DEF NatsDies, app
    <2>1. OneWaits'  BY DEF OneWaits, Waiting
    <2>2. NotAsked' /\ OnePlace'
      BY Empty, PathAssumption DEF NotAsked, OnePlace, Fresh, UnderWay, Waiting
    <2>3. ResponsesAreTrue'  BY DEF ResponsesAreTrue
    <2> QED  BY <2>1, <2>2, <2>3
  <1> QED  BY <1>1, <1>2

LEMMA PathStep == TypeOK /\ PathInv /\ [Next]_vars => PathInv'
  BY AppStep, NatsStep, ResponseStep, OtherStep DEF Next

(***************************************************************************)
(* The answers                                                             *)
(***************************************************************************)

LEMMA InitAnswers == Init => Answers
  BY DEF Init, Answers, AnswersTellTheTruth, SuccessWasServed, SilenceHasACause,
         BlankHidesOnlyGets, Texts

\* A step that answers nobody and brings no reply.
LEMMA AnswersStay ==
    ASSUME Answers, UNCHANGED <<kind, answer, reply>>,
           \A r \in Request : stage'[r] = "done" => stage[r] = "done"
    PROVE  Answers'
  BY DEF Answers, AnswersTellTheTruth, SuccessWasServed, SilenceHasACause,
         BlankHidesOnlyGets, Texts

\* r is answered, or left without an answer, by what its reply justifies.
Justified(r, a) ==
    /\ kind[r] \in Command /\ reply[r] # NoReply =>
         /\ a = "ok" =>
              \/ Done(reply[r])
              \/ /\ kind[r] # "StartService" /\ reply[r].error = "json"
                 /\ reply[r].msg \in Blank \/ reply[r].name \in Blank
         /\ a = "error" => \/ ~Done(reply[r])
                           \/ kind[r] = "StartService" /\ reply[r].body # "good"
    /\ a = "ok" => reply[r] # NoReply
    /\ a = "nothing" =>
         \/ kind[r] = "ExecutedService"
         \/ /\ reply[r] # NoReply
            /\ \/ kind[r] \in Get /\ reply[r].body = "noItinerary"
               \/ /\ kind[r] \in Command \ {"StartService"}
                  /\ Texts(r) \cap NoJson # {}
               \/ kind[r] \in Get /\ Texts(r) \cap HoldsResp # {}
    /\ a = "blank" =>
         \/ kind[r] = "ExecutedService"
         \/ /\ kind[r] \in Get /\ reply[r] # NoReply
            /\ reply[r].code # 200 /\ reply[r].body = "empty"
            /\ reply[r].error \in {"none", "json"} /\ reply[r].msg = "none"

LEMMA AnswersJustified ==
    ASSUME TypeOK, Answers, NEW r \in Request, NEW a, Finish(r, a),
           UNCHANGED <<kind, reply>>, Justified(r, a)
    PROVE  Answers'
  <1> USE DEF TypeOK, Finish, Justified
  <1>1. AnswersTellTheTruth'  BY DEF Answers, AnswersTellTheTruth
  <1>2. SuccessWasServed'  BY DEF Answers, SuccessWasServed
  <1>3. SilenceHasACause'  BY DEF Answers, SilenceHasACause, Texts
  <1>4. BlankHidesOnlyGets'  BY DEF Answers, BlankHidesOnlyGets
  <1> QED  BY <1>1, <1>2, <1>3, <1>4 DEF Answers

\* What a handler makes of the response it takes is justified by the reply.
LEMMA ResponseJustifies ==
    ASSUME TypeOK, PathInv, NEW m \in responses
    PROVE  LET o == Outcome(kind[m.to], m.reply)
           IN  Justified(m.to, IF o \in {"silent", "panic"} THEN "nothing" ELSE o)
  <1> DEFINE r == m.to
             o == Outcome(kind[r], m.reply)
             a == IF o \in {"silent", "panic"} THEN "nothing" ELSE o
  <1>0. /\ r \in Request
        /\ kind[r] \in Kind
        /\ o \in Outcomes
    BY KindType, OutcomeType DEF TypeOK, Response
  <1>1. CASE /\ m.reply = NotConnected
             /\ kind[r] \notin KeyValue
             /\ reply[r] = NoReply
    <2>1. o = "error"  BY <1>0, <1>1, NotConnectedIsError DEF Kind
    <2> QED  BY <1>1, <2>1 DEF Justified
  <1>2. CASE reply[r] # NoReply /\ m.reply = FromNats(kind[r], reply[r])
    <2>1. reply[r] \in RepliesTo(kind[r])  BY <1>0, <1>2 DEF TypeOK
    <2>2. CASE kind[r] \in Command
      BY <1>0, <1>2, <2>1, <2>2, CommandOutcome
      DEF Justified, Outcomes, Texts, Command, Get
    <2>3. CASE kind[r] \in Get
      BY <1>0, <1>2, <2>1, <2>3, GetOutcome
      DEF Justified, Outcomes, Texts, Get, Command
    <2>4. CASE kind[r] \in KeyValue
      BY <1>0, <1>2, <2>4, KeyValueOutcome
      DEF Justified, Outcomes, KeyValue, Command, Get
    <2> QED  BY <1>0, <2>2, <2>3, <2>4 DEF Kind
  <1> QED  BY <1>1, <1>2 DEF PathInv, ResponsesAreTrue

LEMMA AnswersStep == TypeOK /\ PInv /\ [Next]_vars => Answers'
  <1> SUFFICES ASSUME TypeOK, PathInv, Answers, [Next]_vars PROVE Answers'
    BY DEF PInv
  <1>1. ASSUME NEW r \in Request, Refuse(r) PROVE Answers'
    <2>1. Justified(r, "error")
      <3>1. stage[r] = "queued"
        BY <1>1, TakeHead DEF Refuse, Takes, TypeOK, PathInv, NotAsked
      <3> QED  BY <3>1 DEF PathInv, NotAsked, Fresh, Justified
    <2> QED  BY <1>1, <2>1, AnswersJustified DEF Refuse
  <1>2. ASSUME NEW r \in Request, Expires(r) PROVE Answers'
    BY <1>2, AnswersJustified DEF Expires, Justified
  <1>3. ASSUME NEW m \in responses, Respond(m) PROVE Answers'
    <2>0. m.to \in Request  BY DEF TypeOK, Response
    <2>1. /\ Outcome(kind[m.to], m.reply) # "panic"
          /\ AnswerAs(m.to, Outcome(kind[m.to], m.reply))
      BY <1>3, <2>0 DEF Respond, OwnFuture, PathInv, OneWaits
    <2> QED
      BY <1>3, <2>0, <2>1, ResponseJustifies, AnswersJustified DEF Respond, AnswerAs
  <1>4. ASSUME NEW m \in responses, Panic(m) PROVE Answers'
    <2>0. m.to \in Request  BY DEF TypeOK, Response
    <2> QED  BY <1>4, <2>0, ResponseJustifies, AnswersJustified DEF Panic
  <1>5. ASSUME NEW r \in Request, Serve(r) PROVE Answers'
    <2>1. /\ stage[r] = "waiting" \/ answer[r] = "timeout"
          /\ Waiting(r) => answer[r] = "nothing"
      BY <1>5 DEF PathInv, NotAsked, OnePlace, UnderWay, Waiting, Serve
    <2>2. /\ UNCHANGED <<kind, stage, answer>>
          /\ \A q \in Request : q # r => reply'[q] = reply[q]
      BY <1>5 DEF Serve, app, TypeOK
    <2> QED
      BY <2>1, <2>2 DEF Waiting, Answers, AnswersTellTheTruth, SuccessWasServed,
                        SilenceHasACause, BlankHidesOnlyGets, Texts
  <1>6. ASSUME NEW r \in Request, Send(r) \/ Ask(r) PROVE Answers'
    BY <1>6, AnswersStay DEF Send, Ask, TypeOK
  <1>7. ASSUME NEW r \in Request,
               \/ Forward(r) \/ NoClient(r) \/ NatsAnswers(r) \/ NatsExpires(r)
               \/ Lose(r)
        PROVE Answers'
    BY <1>7, AnswersStay DEF Forward, NoClient, NatsAnswers, NatsExpires, Lose, app
  <1>8. CASE \/ \E m \in responses : DeadLetter(m)
             \/ Terminated \/ LinkChanges \/ NatsDies \/ UNCHANGED vars
    BY <1>8, AnswersStay DEF DeadLetter, Terminated, LinkChanges, NatsDies, vars, app
  <1> QED  BY <1>1, <1>2, <1>3, <1>4, <1>5, <1>6, <1>7, <1>8 DEF Next

LEMMA InvHolds == Spec => []PInv
  <1>1. Init => PInv  BY InitPathInv, InitAnswers DEF PInv
  <1>2. TypeOK /\ PInv /\ [Next]_vars => PInv'
    BY PathStep, AnswersStep DEF PInv
  <1> QED  BY <1>1, <1>2, TypeCorrect, PTL DEF Spec

\* A command that is told to have succeeded was carried out, and one that is
\* told to have failed was not, but for the texts and bodies the property names;
\* a late answer never reaches a later request.
THEOREM AnswersAreTrue == Spec => []AnswersTellTheTruth
  BY InvHolds, PTL DEF PInv, Answers

\* No request is told success that the gateway has not answered.
THEOREM SuccessIsServed == Spec => []SuccessWasServed
  BY InvHolds, PTL DEF PInv, Answers

\* A request the app actor is done with is answered, but for the replies the
\* property names.
THEOREM SilenceIsCaused == Spec => []SilenceHasACause
  BY InvHolds, PTL DEF PInv, Answers

\* An answer with neither content nor error hides a refusal of a GET only.
THEOREM BlankIsAGet == Spec => []BlankHidesOnlyGets
  BY InvHolds, PTL DEF PInv, Answers

(***************************************************************************)
(* What EveryRequestServed rests on                                        *)
(***************************************************************************)

\* The converse of what NotAsked says of the app actor's mailbox.
Lined == \A r \in Request : stage[r] = "queued" => In(appq, r)

\* Only the first message leaves a mailbox, and none when one is posted.
LEMMA StaysIn ==
    ASSUME NEW S, NEW q \in Seq(S), NEW x, In(q, x)
    PROVE  /\ q # <<>> /\ Head(q) # x => In(Tail(q), x)
           /\ \A y \in S : In(Append(q, y), x)
  <1>1. PICK i \in 1 .. Len(q) : q[i] = x  BY DEF In
  <1>2. ASSUME q # <<>>, Head(q) # x PROVE In(Tail(q), x)
    <2>1. i # 1  BY <1>1, <1>2
    <2>2. i - 1 \in 1 .. Len(Tail(q)) /\ Tail(q)[i - 1] = x
      BY <1>1, <1>2, <2>1
    <2> QED  BY <2>2 DEF In
  <1>3. ASSUME NEW y \in S PROVE In(Append(q, y), x)
    <2>1. i \in 1 .. Len(Append(q, y)) /\ Append(q, y)[i] = x  BY <1>1
    <2> QED  BY <2>1 DEF In
  <1> QED  BY <1>2, <1>3

LEMMA PostedIsIn ==
    ASSUME NEW S, NEW q \in Seq(S), NEW y \in S PROVE In(Append(q, y), y)
  <1>1. Len(q) + 1 \in 1 .. Len(Append(q, y)) /\ Append(q, y)[Len(q) + 1] = y
    OBVIOUS
  <1> QED  BY <1>1 DEF In

LEMMA LinedStep == TypeOK /\ Lined /\ [Next]_vars => Lined'
  <1> SUFFICES ASSUME TypeOK, Lined, [Next]_vars,
                      NEW q \in Request, stage'[q] = "queued"
               PROVE  In(appq', q)
    BY DEF Lined, In
  <1>1. ASSUME NEW r \in Request, Send(r) PROVE In(appq', q)
    <2>1. CASE q = r  BY <1>1, <2>1, PostedIsIn DEF Send, TypeOK
    <2>2. CASE q # r
      <3>1. stage[q] = "queued"  BY <1>1, <2>2 DEF Send, TypeOK
      <3> QED  BY <1>1, <3>1, StaysIn DEF Send, Lined, TypeOK
    <2> QED  BY <2>1, <2>2
  <1>2. ASSUME NEW r \in Request, Refuse(r) \/ Ask(r) PROVE In(appq', q)
    <2>1. q # r /\ stage[q] = "queued"
      BY <1>2 DEF Refuse, Ask, Finish, TypeOK
    <2>2. appq # <<>> /\ Head(appq) = r /\ appq' = Tail(appq)
      BY <1>2 DEF Refuse, Ask, Takes
    <2> QED  BY <2>1, <2>2, StaysIn DEF Lined, TypeOK
  <1>3. CASE appq' = appq /\ stage[q] = "queued"  BY <1>3 DEF Lined
  <1>4. ASSUME NEW r \in Request,
               \/ Expires(r) \/ Forward(r) \/ NoClient(r) \/ NatsAnswers(r)
               \/ NatsExpires(r) \/ Serve(r) \/ Lose(r)
        PROVE  appq' = appq /\ stage[q] = "queued"
    BY <1>4 DEF Expires, Finish, Forward, NoClient, NatsAnswers, NatsExpires,
       Serve, Lose, app, TypeOK
  <1>5. ASSUME NEW m \in responses, Respond(m) \/ Panic(m) \/ DeadLetter(m)
        PROVE  appq' = appq /\ stage[q] = "queued"
    <2>1. CASE Respond(m)
      <3>1. appq' = appq
            /\ \E r \in Request : \E a : Finish(r, a)
        BY <2>1 DEF Respond, AnswerAs
      <3> QED  BY <3>1 DEF Finish, TypeOK
    <2>2. CASE Panic(m)
      BY <2>2 DEF Panic, Finish, TypeOK
    <2>3. CASE DeadLetter(m)
      BY <2>3 DEF DeadLetter, app
    <2> QED  BY <1>5, <2>1, <2>2, <2>3
  <1>6. CASE Terminated \/ LinkChanges \/ NatsDies \/ UNCHANGED vars
    BY <1>3, <1>6 DEF Terminated, LinkChanges, NatsDies, vars, app
  <1> QED  BY <1>1, <1>2, <1>3, <1>4, <1>5, <1>6 DEF Next

\* No request is lost before the app actor comes to it: whatever becomes of the
\* nats actor and its mailbox, a request that was sent and not taken stands in
\* the app actor's mailbox, which outlives its own restarts.  And the app actor
\* is never stuck: while one is there it waits on one future, which expires, or
\* it takes the next.  With the two fairness assumptions this is why
\* EveryRequestServed holds.
THEOREM NoneIsLost ==
    Spec => [](\A r \in Request : stage[r] = "queued" =>
                  /\ In(appq, r)
                  /\ \/ \E q \in Request : Waiting(q)
                     \/ Idle /\ appq # <<>> /\ Head(appq) \in Request)
  <1>1. Init => Lined  BY DEF Init, Lined
  <1>2. TypeOK /\ Lined /\ [Next]_vars => Lined'  BY LinedStep
  <1>3. TypeOK /\ Lined =>
          \A r \in Request : stage[r] = "queued" =>
              /\ In(appq, r)
              /\ \/ \E q \in Request : Waiting(q)
                 \/ Idle /\ appq # <<>> /\ Head(appq) \in Request
    <2> SUFFICES ASSUME TypeOK, Lined, NEW r \in Request, stage[r] = "queued"
                 PROVE  /\ In(appq, r)
                        /\ appq # <<>> /\ Head(appq) \in Request
      BY DEF Idle
    <2>1. In(appq, r) /\ appq \in Seq(Request)  BY DEF Lined, TypeOK
    <2>2. appq # <<>>  BY <2>1, Empty
    <2> QED  BY <2>1, <2>2, TakeHead
  <1> QED  BY <1>1, <1>2, <1>3, TypeCorrect, PTL DEF Spec
=============================================================================
