----------------------------- MODULE DailyCache -----------------------------
(***************************************************************************)
(* GetDriverDailyServicesMsg in internal/app/actor.go: a request is        *)
(* answered from the actor's one cached answer while that is younger than  *)
(* five minutes; otherwise a goroutine asks the fleet API, posts what it   *)
(* got to the actor's mailbox for the cache, and answers the requester.    *)
(*                                                                         *)
(* The API's answer is abstracted to whose services it holds and when it   *)
(* was fetched.                                                            *)
(***************************************************************************)
EXTENDS Integers, Sequences

CONSTANTS
    Request,   \* the requests that may be sent, each once
    Driver,    \* drivers
    NoDriver,  \* an empty driverId or deviceId
    NoData,    \* no cached data, nothing fetched
    Error,     \* an answer that carries an error
    TTL,       \* the five minutes, in ticks of the clock
    MaxNow     \* bound: ticks of the clock

ASSUME CacheConstants == /\ NoDriver \notin Driver
                         /\ TTL \in Nat \ {0} /\ MaxNow \in Nat

VARIABLES
    now,
    mailbox,    \* the app actor's mailbox, oldest first
    stage,      \* how far each request has come
    driver,     \* whose services each request asks for
    data,       \* what each request's goroutine fetched
    answers,    \* the answers each request has got
    cache,      \* a.dailySvcCacheData
    cacheTime,  \* a.dailySvcCacheTime
    started,    \* when each request's fetch was started, or Never
    known       \* per request, the fetches that had been answered when it was sent

vars == <<now, mailbox, stage, driver, data, answers, cache, cacheTime,
          started, known>>

Never == -1
Time  == 0 .. MaxNow
Data  == [driver : Driver, at : Time]

\* Nothing the fleet API returns is taken for an empty cache.
ASSUME NoDataAssumption == NoData \notin Data

Message == [type : {"request"}, id : Request]
             \cup [type : {"dailySvcCacheMsg"}, data : Data]

TypeOK ==
    /\ now \in Time
    /\ mailbox \in Seq(Message)
    /\ stage \in [Request -> {"new", "queued", "fetching", "asking", "fetched",
                          "posted", "done"}]
    /\ driver \in [Request -> Driver \cup {NoDriver}]
    /\ data \in [Request -> Data \cup {NoData}]
    /\ answers \in [Request -> Seq(Data \cup {Error})]
    /\ cache \in Data \cup {NoData}
    /\ cacheTime \in Time
    /\ started \in [Request -> Time \cup {Never}]
    /\ known \in [Request -> SUBSET Request]

Init ==
    /\ now = 0
    /\ mailbox = <<>>
    /\ stage = [r \in Request |-> "new"]
    /\ driver \in [Request -> Driver \cup {NoDriver}]
    /\ data = [r \in Request |-> NoData]
    /\ answers = [r \in Request |-> <<>>]
    /\ cache = NoData
    /\ cacheTime = 0
    /\ started = [r \in Request |-> Never]
    /\ known = [r \in Request |-> {}]

Tick ==
    /\ now < MaxNow
    /\ now' = now + 1
    /\ UNCHANGED <<mailbox, stage, driver, data, answers, cache, cacheTime,
                   started, known>>

\* A consumer sends a request.
Send(r) ==
    /\ stage[r] = "new"
    /\ stage' = [stage EXCEPT ![r] = "queued"]
    /\ mailbox' = Append(mailbox, [type |-> "request", id |-> r])
    /\ known' = [known EXCEPT ![r] =
                    {q \in Request : stage[q] = "done" /\ data[q] # NoData}]
    /\ UNCHANGED <<now, driver, data, answers, cache, cacheTime, started>>

(***************************************************************************)
(* The actor                                                               *)
(***************************************************************************)

HasDailySvcCache == cache # NoData /\ now - cacheTime < TTL

Handles(r) == /\ mailbox # <<>>
              /\ Head(mailbox) = [type |-> "request", id |-> r]
              /\ mailbox' = Tail(mailbox)

Answer(r, a) == /\ answers' = [answers EXCEPT ![r] = Append(@, a)]
                /\ stage' = [stage EXCEPT ![r] = "done"]

\* An id is missing.
Refuse(r) ==
    /\ Handles(r)
    /\ driver[r] = NoDriver
    /\ Answer(r, Error)
    /\ UNCHANGED <<now, driver, data, cache, cacheTime, started, known>>

\* The cached answer is younger than five minutes: whoever it was fetched for.
AnswerFromCache(r) ==
    /\ Handles(r)
    /\ driver[r] # NoDriver
    /\ HasDailySvcCache
    /\ Answer(r, cache)
    /\ UNCHANGED <<now, driver, data, cache, cacheTime, started, known>>

\* Otherwise a goroutine is started.
StartFetch(r) ==
    /\ Handles(r)
    /\ driver[r] # NoDriver
    /\ ~HasDailySvcCache
    /\ stage' = [stage EXCEPT ![r] = "fetching"]
    /\ started' = [started EXCEPT ![r] = now]
    /\ UNCHANGED <<now, driver, data, answers, cache, cacheTime, known>>

\* The data become the cache, and are as of now.
OldTime   == cacheTime  \* mutant: the time is not refreshed
CacheTime == now
DailySvcCacheMsg ==
    /\ mailbox # <<>>
    /\ Head(mailbox).type = "dailySvcCacheMsg"
    /\ cache' = Head(mailbox).data
    /\ cacheTime' = CacheTime
    /\ mailbox' = Tail(mailbox)
    /\ UNCHANGED <<now, stage, driver, data, answers, started, known>>

(***************************************************************************)
(* The goroutine of a request                                              *)
(***************************************************************************)

\* fetchDriverDailyServices finds the provider and gets a token for the device ...
LoginOK(r) ==
    /\ stage[r] = "fetching"
    /\ stage' = [stage EXCEPT ![r] = "asking"]
    /\ UNCHANGED <<now, mailbox, driver, data, answers, cache, cacheTime, started,
                   known>>

\* ... or it does not, which is answered and never cached ...
LoginFails(r) ==
    /\ stage[r] = "fetching"
    /\ Answer(r, Error)
    /\ UNCHANGED <<now, mailbox, driver, data, cache, cacheTime, started, known>>

\* ... and then asks for the services of the driver.
FetchOK(r) ==
    /\ stage[r] = "asking"
    /\ stage' = [stage EXCEPT ![r] = "fetched"]
    /\ data' = [data EXCEPT ![r] = [driver |-> driver[r], at |-> now]]
    /\ UNCHANGED <<now, mailbox, driver, answers, cache, cacheTime, started, known>>

\* mutants: the error is not sent; the goroutine does not return after it
FailsSilently(r) ==
    /\ stage[r] = "asking"
    /\ stage' = [stage EXCEPT ![r] = "done"]
    /\ UNCHANGED <<now, mailbox, driver, data, answers, cache, cacheTime, started,
                   known>>
FailsAndGoesOn(r) ==
    /\ stage[r] = "asking"
    /\ answers' = [answers EXCEPT ![r] = Append(@, Error)]
    /\ stage' = [stage EXCEPT ![r] = "fetched"]
    /\ UNCHANGED <<now, mailbox, driver, data, cache, cacheTime, started, known>>

\* An error is answered, and never cached.
FetchFails(r) ==
    /\ stage[r] = "asking"
    /\ Answer(r, Error)
    /\ UNCHANGED <<now, mailbox, driver, data, cache, cacheTime, started, known>>

\* mutant: the cache is not told
PostNothing(r) ==
    /\ stage[r] = "fetched"
    /\ stage' = [stage EXCEPT ![r] = "posted"]
    /\ UNCHANGED <<now, mailbox, driver, data, answers, cache, cacheTime, started,
                   known>>

\* The cache is told first ...
PostCache(r) ==
    /\ stage[r] = "fetched"
    /\ stage' = [stage EXCEPT ![r] = "posted"]
    /\ mailbox' = Append(mailbox, [type |-> "dailySvcCacheMsg", data |-> data[r]])
    /\ UNCHANGED <<now, driver, data, answers, cache, cacheTime, started, known>>

\* ... then the requester.
Reply(r) ==
    /\ stage[r] = "posted"
    /\ Answer(r, data[r])
    /\ UNCHANGED <<now, mailbox, driver, data, cache, cacheTime, started, known>>

-----------------------------------------------------------------------------

Actor(r)     == Refuse(r) \/ AnswerFromCache(r) \/ StartFetch(r)
Login(r)     == LoginOK(r) \/ LoginFails(r)
Fetch(r)     == FetchOK(r) \/ FetchFails(r)
Finish(r)    == PostCache(r) \/ Reply(r)
Goroutine(r) == Login(r) \/ Fetch(r) \/ Finish(r)

Next == \/ Tick
        \/ DailySvcCacheMsg
        \/ \E r \in Request : Send(r) \/ Actor(r) \/ Goroutine(r)

Spec == Init /\ [][Next]_vars

\* The mailbox is served and goroutines run.  The calls of the login end by the
\* client's timeout of 60 s at the latest.  The call that asks for the services
\* does not: config.Client (app/daily_services.go:50) takes over the client's
\* transport and not its timeout, so nothing is assumed of Fetch.
Fairness == /\ WF_vars(DailySvcCacheMsg)
            /\ \A r \in Request : WF_vars(Actor(r)) /\ WF_vars(Login(r)) /\ WF_vars(Finish(r))

FairSpec == Spec /\ Fairness

-----------------------------------------------------------------------------
(***************************************************************************)
(* Properties                                                              *)
(***************************************************************************)

\* Whoever asks after having been told that a fetch succeeded does not cause
\* another fetch within the five minutes that follow: the goroutine posts to
\* the cache before it answers, and both take the actor's mailbox.
SparesTheApi ==
    \A r \in Request : \A q \in known[r] :
        started[r] # Never => started[r] - data[q].at >= TTL

\* The cache holds what a successful fetch has posted, and its age counts from
\* no earlier than the fetch.
CacheWasFetched ==
    cache # NoData =>
        \E r \in Request : /\ data[r] = cache
                           /\ stage[r] \in {"posted", "done"}
                           /\ data[r].at <= cacheTime

\* A request is answered once, by the actor or by its goroutine.
AnsweredOnce == \A r \in Request : Len(answers[r]) = IF stage[r] = "done" THEN 1 ELSE 0

\* An answer holds the services of the driver that was asked for.  The code
\* asks for a driverId ("deviceId and driverId are required",
\* app/actor.go:929) and then answers from a cache that is kept for no driver
\* in particular.
RightDriver ==
    \A r \in Request : \A i \in DOMAIN answers[r] :
        answers[r][i] # Error => answers[r][i].driver = driver[r]

\* Every request that is sent is answered, unless its goroutine waits for ever
\* for the fleet API's answer, on a client without a timeout
\* (app/daily_services.go:50-66); and a request whose own call does not hang is
\* answered whatever hangs beside it.
EveryRequestAnswered ==
    \A r \in Request :
        stage[r] = "queued" ~> (answers[r] # <<>> \/ [](stage[r] = "asking"))
=============================================================================
