----------------------------- MODULE RequestPath -----------------------------
(***************************************************************************)
(* A request's way: the requester asks the app actor, which asks the nats  *)
(* actor and waits on a future, which asks the gateway's client and waits  *)
(* on a future.  Both actors block while they wait.  Futures expire after  *)
(* ten seconds (three for key/value requests); the app actor's is created  *)
(* first and has the same length, so it expires first.  What comes for an  *)
(* expired future is a dead letter.                                        *)
(*                                                                         *)
(* Time is abstracted to the order of the expirations.  Requests without a *)
(* sender, which no handler serves, are left out.                          *)
(***************************************************************************)
EXTENDS Replies, Sequences

CONSTANTS
    Request,   \* the requests that may be sent, each once
    Kinds,     \* the kinds they may have
    None,      \* no request
    NoReply,   \* nothing has come from the gateway
    MaxLinks   \* bound: times pidNats of the nats actor is set or cleared

ASSUME PathAssumption == /\ Kinds \subseteq Kind
                         /\ None \notin Request
                         /\ NoReply \notin Reply
                         /\ MaxLinks \in Nat

VARIABLES
    kind,       \* the kind of each request
    stage,      \* how far the app actor has come with it
    answer,     \* what the requester was told
    appq,       \* requests in the app actor's mailbox
    natsq,      \* requests in the nats actor's mailbox
    natsOn,     \* the request the nats actor waits on
    inFlight,   \* requests on their way to the gateway
    reply,      \* the gateway's reply to each request
    responses,  \* what the nats actor has answered, on its way to a future
    pidData,    \* the nats actor as the app actor knows it
    alive,      \* the nats actor runs
    linked,     \* pidNats of the nats actor is set
    links

app  == <<kind, stage, answer, appq>>
nats == <<natsq, natsOn, alive, linked, links>>
vars == <<app, nats, inFlight, reply, responses, pidData>>

Waiting(r) == stage[r] = "waiting"
Idle       == \A r \in Request : ~Waiting(r)
Response   == [to : Request,
               reply : [error : Text, code : {0, 200, 500}, body : Body]
                         \cup [kv : KvReply \cup {"GoError"}]]

TypeOK ==
    /\ kind \in [Request -> Kinds]
    /\ stage \in [Request -> {"new", "queued", "waiting", "done"}]
    /\ answer \in [Request -> {"nothing", "ok", "error", "blank", "timeout"}]
    /\ appq \in Seq(Request)
    /\ natsq \in Seq(Request)
    /\ natsOn \in Request \cup {None}
    /\ inFlight \subseteq Request
    /\ reply \in [Request -> Reply \cup {NoReply}]
    /\ \A r \in Request : reply[r] \in RepliesTo(kind[r]) \cup {NoReply}
    /\ responses \subseteq Response
    /\ pidData \in BOOLEAN /\ alive \in BOOLEAN /\ linked \in BOOLEAN
    /\ links \in 0 .. MaxLinks

Init ==
    /\ kind \in [Request -> Kinds]
    /\ stage = [r \in Request |-> "new"]
    /\ answer = [r \in Request |-> "nothing"]
    /\ appq = <<>>
    /\ natsq = <<>>
    /\ natsOn = None
    /\ inFlight = {}
    /\ reply = [r \in Request |-> NoReply]
    /\ responses = {}
    /\ pidData = TRUE /\ alive = TRUE /\ linked = FALSE
    /\ links = 0

(***************************************************************************)
(* The app actor                                                           *)
(***************************************************************************)

Send(r) ==
    /\ stage[r] = "new"
    /\ stage' = [stage EXCEPT ![r] = "queued"]
    /\ appq' = Append(appq, r)
    /\ UNCHANGED <<kind, answer, nats, inFlight, reply, responses, pidData>>

Finish(r, a) == /\ stage' = [stage EXCEPT ![r] = "done"]
                /\ answer' = [answer EXCEPT ![r] = a]

Takes(r) == Idle /\ appq # <<>> /\ Head(appq) = r /\ appq' = Tail(appq)

\* An id is missing (GetCompanyDriver only), or there is no data actor, or it
\* is dead and its dead letter answers the future at once.
Refuse(r) ==
    /\ Takes(r)
    /\ kind[r] = "CompanyDriver" \/ ~pidData \/ ~alive
    /\ Finish(r, "error")
    /\ UNCHANGED <<kind, nats, inFlight, reply, responses, pidData>>

\* RequestFuture to the nats actor.
Ask(r) ==
    /\ Takes(r)
    /\ pidData /\ alive
    /\ stage' = [stage EXCEPT ![r] = "waiting"]
    /\ natsq' = Append(natsq, r)
    /\ UNCHANGED <<kind, answer, natsOn, alive, linked, links, inFlight, reply,
                   responses, pidData>>

\* A response reaches the future it was sent to.
\* (Mutant: it is taken for the current request's, if that is of its kind.)
SomeFuture(m) == \E r \in Request : Waiting(r) /\ kind[r] = kind[m.to]
OwnFuture(m)  == Waiting(m.to)

\* The handler maps the response to an answer, or to none.
AnswerAs(r, o) == Finish(r, IF o = "silent" THEN "nothing" ELSE o)
Respond(m) ==
    /\ m \in responses
    /\ OwnFuture(m)
    /\ responses' = responses \ {m}
    /\ \E r \in Request :
          /\ Waiting(r)
          /\ Outcome(kind[r], m.reply) # "panic"
          /\ AnswerAs(r, Outcome(kind[r], m.reply))
    /\ UNCHANGED <<kind, appq, nats, inFlight, reply, pidData>>

\* The handler panics: the request is lost, the app actor is restarted, and
\* with it the nats actor, whose mailbox is lost and whose client is poisoned.
Panic(m) ==
    /\ m \in responses
    /\ Waiting(m.to)
    /\ Outcome(kind[m.to], m.reply) = "panic"
    /\ responses' = responses \ {m}
    /\ Finish(m.to, "nothing")
    /\ natsq' = <<>> /\ natsOn' = None /\ inFlight' = {}
    /\ alive' = TRUE /\ pidData' = TRUE
    /\ UNCHANGED <<kind, appq, linked, links, reply>>

\* Mutants: the handler leaves without an answer; the future has no timeout
\* while the data actor runs.
ExpiresSilently(r) ==
    /\ Waiting(r)
    /\ Finish(r, "nothing")
    /\ UNCHANGED <<kind, appq, nats, inFlight, reply, responses, pidData>>
ExpiresIfDead(r) ==
    /\ Waiting(r) /\ ~alive
    /\ Finish(r, "timeout")
    /\ UNCHANGED <<kind, appq, nats, inFlight, reply, responses, pidData>>

\* The future expires; the handler answers with the error.
Expires(r) ==
    /\ Waiting(r)
    /\ Finish(r, "timeout")
    /\ UNCHANGED <<kind, appq, nats, inFlight, reply, responses, pidData>>

\* A response to an expired future.
DeadLetter(m) ==
    /\ m \in responses
    /\ ~Waiting(m.to)
    /\ responses' = responses \ {m}
    /\ UNCHANGED <<app, nats, inFlight, reply, pidData>>

\* Terminated: the data actor is forgotten, and never replaced.
Terminated ==
    /\ Idle
    /\ ~alive /\ pidData
    /\ pidData' = FALSE
    /\ UNCHANGED <<app, nats, inFlight, reply, responses>>

(***************************************************************************)
(* The nats actor                                                          *)
(***************************************************************************)

NatsTakes(r) == /\ alive
                /\ natsOn = None
                /\ natsq # <<>>
                /\ Head(natsq) = r
                /\ natsq' = Tail(natsq)

\* A client: forward and wait.
Forward(r) ==
    /\ NatsTakes(r)
    /\ linked
    /\ natsOn' = r
    /\ inFlight' = inFlight \cup {r}
    /\ UNCHANGED <<app, alive, linked, links, reply, responses, pidData>>

\* No client: an HTTP request is answered, a key/value request is not.
NoClient(r) ==
    /\ NatsTakes(r)
    /\ ~linked
    /\ responses' = IF kind[r] \in KeyValue THEN responses
                    ELSE responses \cup {[to |-> r, reply |-> NotConnected]}
    /\ UNCHANGED <<app, natsOn, alive, linked, links, inFlight, reply, pidData>>

\* The gateway's reply is mapped and passed on.
NatsAnswers(r) ==
    /\ natsOn = r
    /\ reply[r] # NoReply
    /\ natsOn' = None
    /\ responses' = responses \cup
                      {[to |-> r, reply |-> FromNats(kind[r], reply[r])]}
    /\ UNCHANGED <<app, natsq, alive, linked, links, inFlight, reply, pidData>>

\* The future expires, after the app actor's own: nothing is answered.
NatsExpires(r) ==
    /\ natsOn = r
    /\ ~Waiting(r)
    /\ natsOn' = None
    /\ UNCHANGED <<app, natsq, alive, linked, links, inFlight, reply, responses,
                   pidData>>

\* The link is found or lost (module NatsLink) between two requests.
LinkChanges ==
    /\ alive /\ natsOn = None
    /\ links < MaxLinks
    /\ links' = links + 1
    /\ linked' = ~linked
    /\ UNCHANGED <<app, natsq, natsOn, alive, inFlight, reply, responses, pidData>>

\* The supervisor gives the nats actor up.
NatsDies ==
    /\ alive
    /\ alive' = FALSE
    /\ natsq' = <<>> /\ natsOn' = None
    /\ UNCHANGED <<app, linked, links, inFlight, reply, responses, pidData>>

(***************************************************************************)
(* The gateway                                                             *)
(***************************************************************************)

Serve(r) ==
    /\ r \in inFlight
    /\ inFlight' = inFlight \ {r}
    /\ \E v \in RepliesTo(kind[r]) : reply' = [reply EXCEPT ![r] = v]
    /\ UNCHANGED <<app, nats, responses, pidData>>

\* The request or its reply is lost with the client.
Lose(r) ==
    /\ r \in inFlight
    /\ inFlight' = inFlight \ {r}
    /\ UNCHANGED <<app, nats, reply, responses, pidData>>

-----------------------------------------------------------------------------

Next ==
    \/ \E r \in Request :
          \/ Send(r) \/ Refuse(r) \/ Ask(r) \/ Expires(r)
          \/ Forward(r) \/ NoClient(r) \/ NatsAnswers(r) \/ NatsExpires(r)
          \/ Serve(r) \/ Lose(r)
    \/ \E m \in responses : Respond(m) \/ Panic(m) \/ DeadLetter(m)
    \/ Terminated \/ LinkChanges \/ NatsDies

Spec == Init /\ [][Next]_vars

\* The app actor serves its mailbox and its futures expire.
Fairness == \A r \in Request : /\ WF_vars(Refuse(r) \/ Ask(r))
                               /\ WF_vars(Expires(r))

FairSpec == Spec /\ Fairness

-----------------------------------------------------------------------------
(***************************************************************************)
(* Properties                                                              *)
(***************************************************************************)

\* What a requester is told is about its own request: a command it is told
\* succeeded was carried out, unless what its handler took for the error held
\* JSON without a msg; one it is told failed was not, unless the platform's
\* answer to a StartService could not be read.  A late answer is never taken for
\* the answer to a later request.
AnswersTellTheTruth ==
    \A r \in {q \in Request : kind[q] \in Command /\ reply[q] # NoReply} :
        /\ answer[r] = "ok" =>
             \/ Done(reply[r])
             \/ /\ kind[r] # "StartService" /\ reply[r].error = "json"
                /\ reply[r].msg \in Blank \/ reply[r].name \in Blank
        /\ answer[r] = "error" =>
             \/ ~Done(reply[r])
             \/ kind[r] = "StartService" /\ reply[r].body # "good"

\* Success is told only of a request the gateway has answered.
SuccessWasServed ==
    \A r \in Request : answer[r] = "ok" => reply[r] # NoReply

\* The texts in which a handler may look for JSON: the error, and what nats puts
\* in its place.
Texts(r) == {reply[r].error, reply[r].msg, reply[r].name}

\* When the app actor is done with a request and its requester heard nothing, one
\* of three things happened.  It was about executed services, or services came
\* without itinerary.  Or the handler could not take the gateway's error apart:
\* a command's, because a brace in it or in its msg or name does not begin JSON
\* (StartService never leaves without an answer); a GET's, because `resp: {`
\* stands in it or in its msg, JSON or not.
SilenceHasACause ==
    \A r \in {q \in Request : stage[q] = "done" /\ answer[q] = "nothing"} :
        \/ kind[r] = "ExecutedService"
        \/ /\ reply[r] # NoReply
           /\ \/ kind[r] \in Get /\ reply[r].body = "noItinerary"
              \/ /\ kind[r] \in Command \ {"StartService"}
                 /\ Texts(r) \cap NoJson # {}
              \/ kind[r] \in Get /\ Texts(r) \cap HoldsResp # {}

\* An answer with neither content nor error hides a refusal only of a GET, whose
\* error had no msg or whose body was empty; it is never given to a command.
BlankHidesOnlyGets ==
    \A r \in {q \in Request : answer[q] = "blank"} :
        \/ kind[r] = "ExecutedService"
        \/ /\ kind[r] \in Get /\ reply[r] # NoReply
           /\ reply[r].code # 200 /\ reply[r].body = "empty"
           /\ reply[r].error \in {"none", "json"} /\ reply[r].msg = "none"

\* "Encuentra y extrae el JSON anidado ... +6 para omitir "resp: ""
\* (app/actor.go:530-534, 594-598, 880-884): the JSON that follows `resp: ` in
\* the error of a GET is extracted, so the requester is told the error.
NestedErrorIsTold ==
    \A r \in Request :
        stage[r] = "done" /\ kind[r] \in Get /\ reply[r] # NoReply
          => (reply[r].error = "brokenResp" => answer[r] # "nothing")

\* Every request is dealt with: neither a lost reply nor a dead actor blocks
\* the app actor for ever.
EveryRequestServed ==
    \A r \in Request : stage[r] = "queued" ~> stage[r] = "done"
=============================================================================
