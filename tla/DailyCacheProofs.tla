-------------------------- MODULE DailyCacheProofs --------------------------
(***************************************************************************)
(* Proofs about DailyCache for any set of requests and drivers, any time   *)
(* to live and any length of run: types, that whoever asks after a         *)
(* successful answer causes no second fetch within the time to live, that  *)
(* what is cached was fetched, and that nobody is answered twice.          *)
(*                                                                         *)
(* The argument for the second: when a fetch has been answered, the cache  *)
(* was told (Told), or the message that tells it is in the mailbox         *)
(* (Posted).  A request sent later stands behind that message (Ordered),   *)
(* so when it is handled the cache is at least as young as that fetch.     *)
(***************************************************************************)
EXTENDS DailyCache, TLAPS

USE CacheConstants, NoDataAssumption

Ask(r)  == [type |-> "request", id |-> r]
Tell(d) == [type |-> "dailySvcCacheMsg", data |-> d]
Told(q) == cache # NoData /\ data[q].at <= cacheTime

\* What each stage says of the driver and the data of a request.
Stages ==
    \A r \in Request :
        /\ stage[r] \in {"fetching", "asking", "fetched", "posted"}
             => driver[r] \in Driver
        /\ stage[r] \in {"new", "queued", "fetching", "asking"} => data[r] = NoData
        /\ stage[r] \in {"fetched", "posted"} => data[r] \in Data
        /\ stage[r] \in {"new", "queued"} => started[r] = Never

\* A request in the mailbox is queued, and is there once.
Queued ==
    \A i \in DOMAIN mailbox : \A r \in Request :
        mailbox[i] = Ask(r) =>
            /\ stage[r] = "queued"
            /\ \A j \in DOMAIN mailbox : mailbox[j] = Ask(r) => j = i

\* Nothing was fetched or cached in the future.
Clock == /\ cacheTime <= now
         /\ \A r \in Request : data[r] # NoData => data[r].at <= now

\* The fetches a request knows of have been answered.
Known == \A r \in Request : \A q \in known[r] :
             stage[q] = "done" /\ data[q] # NoData

\* A fetch that was posted is in the cache, or on its way there.
Posted ==
    \A q \in Request : stage[q] \in {"posted", "done"} /\ data[q] # NoData =>
        Told(q) \/ \E i \in DOMAIN mailbox : mailbox[i] = Tell(data[q])

\* A request stands behind the data it knows of.
Ordered ==
    \A r \in Request : \A q \in known[r] : \A j \in DOMAIN mailbox :
        mailbox[j] = Ask(r) =>
            Told(q) \/ \E i \in 1 .. (j - 1) : mailbox[i] = Tell(data[q])

Inv == /\ TypeOK /\ Stages /\ Queued /\ Clock /\ Known
       /\ Posted /\ Ordered /\ SparesTheApi

-----------------------------------------------------------------------------
\* The mailbox

\* Taking the oldest message shifts the others by one place.
LEMMA TailFacts ==
    ASSUME TypeOK, mailbox # <<>>
    PROVE  /\ Tail(mailbox) \in Seq(Message)
           /\ Head(mailbox) \in Message
           /\ Head(mailbox) = mailbox[1]
           /\ DOMAIN Tail(mailbox) = 1 .. (Len(mailbox) - 1)
           /\ DOMAIN mailbox = 1 .. Len(mailbox)
           /\ Len(mailbox) \in Nat \ {0}
           /\ \A i \in DOMAIN Tail(mailbox) : Tail(mailbox)[i] = mailbox[i + 1]
BY DEF TypeOK

\* Posting a message leaves the others where they are.
LEMMA AppendFacts ==
    ASSUME TypeOK, NEW m \in Message
    PROVE  /\ Append(mailbox, m) \in Seq(Message)
           /\ DOMAIN Append(mailbox, m) = 1 .. (Len(mailbox) + 1)
           /\ DOMAIN mailbox = 1 .. Len(mailbox)
           /\ Len(mailbox) \in Nat
           /\ \A i \in DOMAIN mailbox : Append(mailbox, m)[i] = mailbox[i]
           /\ Append(mailbox, m)[Len(mailbox) + 1] = m
BY DEF TypeOK

LEMMA MessageFacts ==
    /\ \A r \in Request : Ask(r) \in Message
    /\ \A d \in Data : Tell(d) \in Message
    /\ \A r \in Request : \A d : Ask(r) # Tell(d)
    /\ \A q, r \in Request : Ask(q) = Ask(r) => q = r
    /\ \A c, d : Tell(c) = Tell(d) => c = d
    /\ \A m \in Message : m.type = "dailySvcCacheMsg"
         => m.data \in Data /\ m = Tell(m.data)
BY DEF Ask, Tell, Message

-----------------------------------------------------------------------------
\* Type correctness

LEMMA TypeStep == TypeOK /\ Stages /\ [Next]_vars => TypeOK'
<1> SUFFICES ASSUME TypeOK, Stages, [Next]_vars PROVE TypeOK'
  OBVIOUS
<1>1. CASE Tick
  BY <1>1 DEF Tick, TypeOK, Time
<1>2. CASE DailySvcCacheMsg
  <2>1. Head(mailbox).data \in Data /\ Tail(mailbox) \in Seq(Message)
    BY <1>2, TailFacts, MessageFacts DEF DailySvcCacheMsg
  <2>2. QED  BY <1>2, <2>1 DEF DailySvcCacheMsg, CacheTime, TypeOK
<1>3. ASSUME NEW r \in Request, Send(r) PROVE TypeOK'
  <2>1. mailbox' \in Seq(Message)
    BY <1>3, AppendFacts, MessageFacts DEF Send, Ask
  <2>2. QED  BY <1>3, <2>1 DEF Send, TypeOK
<1>4. ASSUME NEW r \in Request, Actor(r) PROVE TypeOK'
  <2>1. mailbox' \in Seq(Message)
    BY <1>4, TailFacts DEF Actor, Refuse, AnswerFromCache, StartFetch, Handles
  <2>2. CASE Refuse(r)
    BY <2>1, <2>2 DEF Refuse, Answer, TypeOK
  <2>3. CASE AnswerFromCache(r)
    BY <2>1, <2>3 DEF AnswerFromCache, HasDailySvcCache, Answer, TypeOK
  <2>4. CASE StartFetch(r)
    BY <2>1, <2>4 DEF StartFetch, TypeOK
  <2>5. QED  BY <1>4, <2>2, <2>3, <2>4 DEF Actor
<1>5. ASSUME NEW r \in Request, Goroutine(r) PROVE TypeOK'
  <2>1. CASE FetchOK(r)
    BY <2>1 DEF FetchOK, Stages, TypeOK, Data
  <2>2. CASE FetchFails(r) \/ LoginFails(r)
    <3>1. Answer(r, Error) /\ UNCHANGED <<now, mailbox, driver, data, cache,
                                          cacheTime, started, known>>
      BY <2>2 DEF FetchFails, LoginFails
    <3>2. QED  BY <3>1 DEF Answer, TypeOK
  <2>6. CASE LoginOK(r)
    BY <2>6 DEF LoginOK, TypeOK
  <2>3. CASE PostCache(r)
    <3>1. mailbox' \in Seq(Message)
      BY <2>3, AppendFacts, MessageFacts DEF PostCache, Stages, Tell
    <3>2. QED  BY <2>3, <3>1 DEF PostCache, TypeOK
  <2>4. CASE Reply(r)
    BY <2>4 DEF Reply, Answer, Stages, TypeOK
  <2>5. QED  BY <1>5, <2>1, <2>2, <2>3, <2>4, <2>6
  DEF Goroutine, Login, Fetch, Finish
<1>6. CASE UNCHANGED vars
  BY <1>6 DEF vars, TypeOK
<1>7. QED  BY <1>1, <1>2, <1>3, <1>4, <1>5, <1>6 DEF Next

-----------------------------------------------------------------------------
\* The bookkeeping of requests

\* A request that is handled was queued and is in the mailbox no more.
LEMMA HandlesFacts ==
    ASSUME TypeOK, Queued, NEW r \in Request, Handles(r)
    PROVE  /\ stage[r] = "queued"
           /\ \A i \in DOMAIN mailbox' : mailbox'[i] # Ask(r)
<1>1. mailbox # <<>> /\ mailbox[1] = Ask(r) /\ mailbox' = Tail(mailbox)
      /\ 1 \in DOMAIN mailbox
  BY TailFacts DEF Handles, Ask
<1>2. stage[r] = "queued" /\ \A j \in DOMAIN mailbox : mailbox[j] = Ask(r) => j = 1
  BY <1>1 DEF Queued
<1>3. QED  BY <1>1, <1>2, TailFacts

LEMMA StagesStep ==
    TypeOK /\ Stages /\ Queued /\ [Next]_vars => Stages'
<1> SUFFICES ASSUME TypeOK, Stages, Queued, [Next]_vars PROVE Stages'
  OBVIOUS
<1>1. CASE Tick \/ DailySvcCacheMsg \/ UNCHANGED vars
  BY <1>1 DEF Tick, DailySvcCacheMsg, vars, Stages
<1>2. ASSUME NEW r \in Request, Send(r) PROVE Stages'
  BY <1>2 DEF Send, Stages, TypeOK
<1>3. ASSUME NEW r \in Request, Actor(r) PROVE Stages'
  <2>1. stage[r] = "queued"
    BY <1>3, HandlesFacts DEF Actor, Refuse, AnswerFromCache, StartFetch
  <2>2. CASE Refuse(r)
    BY <2>1, <2>2 DEF Refuse, Answer, Stages, TypeOK
  <2>3. CASE AnswerFromCache(r)
    BY <2>1, <2>3 DEF AnswerFromCache, Answer, Stages, TypeOK
  <2>4. CASE StartFetch(r)
    BY <2>1, <2>4 DEF StartFetch, Stages, TypeOK
  <2>5. QED  BY <1>3, <2>2, <2>3, <2>4 DEF Actor
<1>4. ASSUME NEW r \in Request, Goroutine(r) PROVE Stages'
  <2>1. CASE FetchOK(r)
    BY <2>1 DEF FetchOK, Stages, TypeOK, Data
  <2>2. CASE FetchFails(r) \/ LoginFails(r)
    BY <2>2 DEF FetchFails, LoginFails, Answer, Stages, TypeOK
  <2>6. CASE LoginOK(r)
    BY <2>6 DEF LoginOK, Stages, TypeOK
  <2>3. CASE PostCache(r)
    BY <2>3 DEF PostCache, Stages, TypeOK
  <2>4. CASE Reply(r)
    BY <2>4 DEF Reply, Answer, Stages, TypeOK
  <2>5. QED  BY <1>4, <2>1, <2>2, <2>3, <2>4, <2>6
  DEF Goroutine, Login, Fetch, Finish
<1>5. QED  BY <1>1, <1>2, <1>3, <1>4 DEF Next

LEMMA QueuedStep ==
    TypeOK /\ Stages /\ Queued /\ [Next]_vars => Queued'
<1> SUFFICES ASSUME TypeOK, Stages, Queued, [Next]_vars PROVE Queued'
  OBVIOUS
<1>1. CASE Tick \/ UNCHANGED vars
  BY <1>1 DEF Tick, vars, Queued
<1>2. CASE DailySvcCacheMsg
  BY <1>2, TailFacts DEF DailySvcCacheMsg, Queued
<1>3. ASSUME NEW r \in Request, Send(r) PROVE Queued'
  <2>1. /\ mailbox' = Append(mailbox, Ask(r))
        /\ stage[r] = "new"
        /\ stage' = [stage EXCEPT ![r] = "queued"]
    BY <1>3 DEF Send, Ask
  <2>2. \A i \in DOMAIN mailbox : mailbox[i] # Ask(r)
    BY <2>1 DEF Queued
  <2>3. QED
    BY <2>1, <2>2, AppendFacts, MessageFacts DEF Queued, TypeOK
<1>4. ASSUME NEW r \in Request, Actor(r) PROVE Queued'
  <2>1. Handles(r) /\ mailbox # <<>> /\ mailbox' = Tail(mailbox)
    BY <1>4 DEF Actor, Refuse, AnswerFromCache, StartFetch, Handles
  <2>2. \A q \in Request : q # r => stage'[q] = stage[q]
    BY <1>4 DEF Actor, Refuse, AnswerFromCache, StartFetch, Answer, TypeOK
  <2>3. QED
    BY <2>1, <2>2, HandlesFacts, TailFacts DEF Queued
<1>5. ASSUME NEW r \in Request, Goroutine(r) PROVE Queued'
  <2>1. stage[r] # "queued"
    BY <1>5 DEF Goroutine, Login, Fetch, Finish, LoginOK, LoginFails, FetchOK,
        FetchFails, PostCache, Reply
  <2>2. \A q \in Request : q # r => stage'[q] = stage[q]
    BY <1>5 DEF Goroutine, Login, Fetch, Finish, LoginOK, LoginFails, FetchOK,
        FetchFails, PostCache, Reply, Answer, TypeOK
  <2>3. CASE mailbox' = mailbox
    BY <2>1, <2>2, <2>3 DEF Queued
  <2>4. CASE mailbox' = Append(mailbox, Tell(data[r])) /\ Tell(data[r]) \in Message
    BY <2>1, <2>2, <2>4, AppendFacts, MessageFacts DEF Queued
  <2>5. QED
    BY <1>5, <2>3, <2>4, MessageFacts
    DEF Goroutine, Login, Fetch, Finish, LoginOK, LoginFails, FetchOK,
        FetchFails, PostCache, Reply, Tell, Stages
<1>6. QED  BY <1>1, <1>2, <1>3, <1>4, <1>5 DEF Next

LEMMA ClockStep == TypeOK /\ Clock /\ [Next]_vars => Clock'
<1> SUFFICES ASSUME TypeOK, Clock, [Next]_vars PROVE Clock'
  OBVIOUS
<1>1. CASE Tick
  BY <1>1 DEF Tick, Clock, TypeOK, Time, Data
<1>2. CASE DailySvcCacheMsg
  BY <1>2 DEF DailySvcCacheMsg, CacheTime, Clock, TypeOK, Time
<1>3. ASSUME NEW r \in Request, FetchOK(r) PROVE Clock'
  BY <1>3 DEF FetchOK, Clock, TypeOK, Time
<1>4. CASE UNCHANGED <<now, cacheTime, data>>
  BY <1>4 DEF Clock
<1>5. QED
  BY <1>1, <1>2, <1>3, <1>4
  DEF Next, Send, Actor, Refuse, AnswerFromCache, StartFetch, Goroutine, Login,
      Fetch, Finish, LoginOK, LoginFails, FetchFails, PostCache, Reply, vars

\* What has been answered stays as it was.
LEMMA DoneStays ==
    ASSUME TypeOK, Queued, [Next]_vars, NEW q \in Request, stage[q] = "done"
    PROVE  stage'[q] = "done" /\ data'[q] = data[q]
<1>1. ASSUME NEW r \in Request, Actor(r) PROVE r # q
  BY <1>1, HandlesFacts DEF Actor, Refuse, AnswerFromCache, StartFetch
<1>2. QED
  BY <1>1 DEF Next, Tick, DailySvcCacheMsg, Send, Actor, Refuse,
      AnswerFromCache, StartFetch, Goroutine, Login, Fetch, Finish, LoginOK,
      LoginFails, FetchOK, FetchFails, PostCache, Reply, Answer, vars, TypeOK

LEMMA KnownStep == TypeOK /\ Queued /\ Known /\ [Next]_vars => Known'
<1> SUFFICES ASSUME TypeOK, Queued, Known, [Next]_vars,
                    NEW r \in Request, NEW q \in known'[r]
             PROVE  stage'[q] = "done" /\ data'[q] # NoData
  BY DEF Known
<1>1. q \in Request /\ stage[q] = "done" /\ data[q] # NoData
  <2>1. CASE known' = known
    BY <2>1 DEF Known, TypeOK
  <2>2. ASSUME NEW p \in Request, Send(p)
        PROVE  q \in Request /\ stage[q] = "done" /\ data[q] # NoData
    BY <2>2 DEF Send, Known, TypeOK
  <2>3. QED
    BY <2>1, <2>2 DEF Next, Tick, DailySvcCacheMsg, Actor, Refuse,
        AnswerFromCache, StartFetch, Goroutine, Login, Fetch, Finish, LoginOK,
        LoginFails, FetchOK, FetchFails, PostCache, Reply, vars
<1>2. QED  BY <1>1, DoneStays

-----------------------------------------------------------------------------
\* The cache

\* What has been told stays told: the cache is only ever replaced.
LEMMA ToldStays ==
    ASSUME TypeOK, Clock, [Next]_vars, NEW q \in Request, data[q] # NoData,
           data'[q] = data[q], Told(q)
    PROVE  Told(q)'
<1>1. CASE DailySvcCacheMsg
  <2>1. Head(mailbox).data \in Data
    BY <1>1, TailFacts, MessageFacts DEF DailySvcCacheMsg
  <2>2. QED
    BY <1>1, <2>1 DEF DailySvcCacheMsg, CacheTime, Told, Clock, TypeOK
<1>2. CASE UNCHANGED <<cache, cacheTime>>
  BY <1>2 DEF Told
<1>3. QED
  BY <1>1, <1>2 DEF Next, Tick, Send, Actor, Refuse, AnswerFromCache,
      StartFetch, Goroutine, Login, Fetch, Finish, LoginOK, LoginFails, FetchOK,
      FetchFails, PostCache, Reply, vars

\* A message in the mailbox moves up by one place, or stays, or is handled;
\* handling a Tell makes it told.
LEMMA MailMoves ==
    ASSUME TypeOK, Clock, Stages, [Next]_vars, NEW q \in Request, data[q] # NoData,
           data'[q] = data[q],
           NEW i \in DOMAIN mailbox, mailbox[i] = Tell(data[q])
    PROVE  \/ Told(q)'
           \/ /\ mailbox' = Tail(mailbox) /\ mailbox # <<>>
              /\ i - 1 \in DOMAIN mailbox' /\ mailbox'[i - 1] = Tell(data[q])
           \/ /\ \/ mailbox' = mailbox
                 \/ \E m \in Message : mailbox' = Append(mailbox, m)
              /\ i \in DOMAIN mailbox' /\ mailbox'[i] = Tell(data[q])
<1>1. CASE DailySvcCacheMsg
  <2>1. CASE i = 1
    <3>1. cache' = data[q] /\ cacheTime' = now
      BY <1>1, <2>1, TailFacts DEF DailySvcCacheMsg, CacheTime, Tell
    <3>2. QED  BY <3>1 DEF Told, Clock, TypeOK
  <2>2. CASE i # 1
    <3>1. mailbox # <<>> /\ mailbox' = Tail(mailbox)
      BY <1>1 DEF DailySvcCacheMsg
    <3>2. i - 1 \in DOMAIN Tail(mailbox) /\ (i - 1) + 1 = i
      BY <2>2, <3>1, TailFacts
    <3>3. QED  BY <3>1, <3>2, TailFacts
  <2>3. QED  BY <2>1, <2>2
<1>2. ASSUME NEW r \in Request, Handles(r)
      PROVE  /\ mailbox' = Tail(mailbox) /\ mailbox # <<>>
             /\ i - 1 \in DOMAIN mailbox' /\ mailbox'[i - 1] = Tell(data[q])
  <2>1. mailbox # <<>> /\ mailbox[1] = Ask(r) /\ mailbox' = Tail(mailbox)
    BY <1>2, TailFacts DEF Handles, Ask
  <2>2. i # 1  BY <2>1, MessageFacts
  <2>3. QED  BY <2>1, <2>2, TailFacts
<1>3. ASSUME NEW m \in Message, mailbox' = Append(mailbox, m)
      PROVE  i \in DOMAIN mailbox' /\ mailbox'[i] = Tell(data[q])
  BY <1>3, AppendFacts
<1>4. ASSUME NEW r \in Request, Send(r)
      PROVE  \E m \in Message : mailbox' = Append(mailbox, m)
  BY <1>4, MessageFacts DEF Send, Ask
<1>5. ASSUME NEW r \in Request, PostCache(r)
      PROVE  \E m \in Message : mailbox' = Append(mailbox, m)
  BY <1>5, MessageFacts DEF PostCache, Tell, Stages
<1>6. CASE mailbox' = mailbox
  BY <1>6
<1>7. QED
  BY <1>1, <1>2, <1>3, <1>4, <1>5, <1>6 DEF Next, Tick, Actor, Refuse,
      AnswerFromCache, StartFetch, Goroutine, Login, Fetch, Finish, LoginOK,
      LoginFails, FetchOK, FetchFails, Reply, vars

LEMMA PostedStep ==
    TypeOK /\ Stages /\ Queued /\ Clock /\ Posted /\ [Next]_vars => Posted'
<1> SUFFICES ASSUME TypeOK, Stages, Queued, Clock, Posted, [Next]_vars,
                    NEW q \in Request,
                    stage'[q] \in {"posted", "done"}, data'[q] # NoData
             PROVE  Told(q)' \/ \E i \in DOMAIN mailbox' : mailbox'[i] = Tell(data'[q])
  BY DEF Posted
<1>1. CASE PostCache(q)
  <2>1. /\ Tell(data[q]) \in Message
        /\ mailbox' = Append(mailbox, Tell(data[q]))
        /\ data' = data
    BY <1>1, MessageFacts DEF PostCache, Tell, Stages
  <2>2. QED  BY <2>1, AppendFacts
<1>2. CASE stage[q] \in {"posted", "done"} /\ data'[q] = data[q]
  <2>1. CASE Told(q)
    BY <1>2, <2>1, ToldStays
  <2>2. ASSUME NEW i \in DOMAIN mailbox, mailbox[i] = Tell(data[q])
        PROVE  Told(q)' \/ \E k \in DOMAIN mailbox' : mailbox'[k] = Tell(data'[q])
    BY <1>2, <2>2, MailMoves
  <2>3. QED  BY <1>2, <2>1, <2>2 DEF Posted
<1>3. ASSUME ~PostCache(q)
      PROVE  stage[q] \in {"posted", "done"} /\ data'[q] = data[q]
  <2>1. ASSUME NEW r \in Request, Actor(r)
        PROVE  r # q /\ data' = data /\ stage'[q] = stage[q]
    <3>1. stage[r] = "queued" /\ data' = data
      BY <2>1, HandlesFacts DEF Actor, Refuse, AnswerFromCache, StartFetch
    <3>2. data[r] = NoData  BY <3>1 DEF Stages
    <3>3. QED
      BY <2>1, <3>1, <3>2 DEF Actor, Refuse, AnswerFromCache, StartFetch,
         Answer, TypeOK
  <2>2. ASSUME NEW r \in Request, FetchFails(r) \/ LoginFails(r)
        PROVE  r # q /\ data' = data /\ stage'[q] = stage[q]
    BY <2>2 DEF FetchFails, LoginFails, Answer, Stages, TypeOK
  <2>3. QED
    BY <1>3, <2>1, <2>2 DEF Next, Tick, DailySvcCacheMsg, Send, Goroutine,
        Login, Fetch, Finish, LoginOK, LoginFails, FetchOK, PostCache, Reply,
        Answer, vars, TypeOK
<1>4. QED  BY <1>1, <1>2, <1>3

LEMMA OrderedStep ==
    Inv /\ [Next]_vars => Ordered'
<1> SUFFICES ASSUME Inv, [Next]_vars, NEW r \in Request, NEW q \in known'[r],
                    NEW j \in DOMAIN mailbox', mailbox'[j] = Ask(r)
             PROVE  Told(q)' \/ \E i \in 1 .. (j - 1) : mailbox'[i] = Tell(data'[q])
  BY DEF Ordered
<1> USE DEF Inv
<1>1. CASE Send(r)
  <2>1. /\ mailbox' = Append(mailbox, Ask(r)) /\ Ask(r) \in Message
        /\ q \in Request /\ stage[q] = "done" /\ data[q] # NoData
        /\ data' = data /\ cache' = cache /\ cacheTime' = cacheTime
        /\ stage[r] = "new"
    BY <1>1, MessageFacts DEF Send, Ask, TypeOK
  <2>2. \A i \in DOMAIN mailbox : mailbox[i] # Ask(r)
    BY <2>1 DEF Queued
  <2>3. j = Len(mailbox) + 1
    BY <2>1, <2>2, AppendFacts
  <2>4. Told(q) \/ \E i \in DOMAIN mailbox : mailbox[i] = Tell(data[q])
    BY <2>1 DEF Posted
  <2>5. QED  BY <2>1, <2>3, <2>4, AppendFacts DEF Told
<1>2. CASE ~Send(r)
  <2>1. q \in known[r]
    BY <1>2 DEF Next, Tick, DailySvcCacheMsg, Send, Actor, Refuse,
        AnswerFromCache, StartFetch, Goroutine, Login, Fetch, Finish, LoginOK,
        LoginFails, FetchOK, FetchFails, PostCache, Reply, vars, TypeOK
  <2>2. q \in Request /\ data[q] # NoData /\ data'[q] = data[q]
    BY <2>1, DoneStays DEF Known, TypeOK
  <2>3. ASSUME NEW k \in DOMAIN mailbox, mailbox[k] = Ask(r),
               \A i \in 1 .. (k - 1) : i \in DOMAIN mailbox,
               \/ mailbox' = Tail(mailbox) /\ mailbox # <<>> /\ j = k - 1
               \/ /\ \/ mailbox' = mailbox
                     \/ \E m \in Message : mailbox' = Append(mailbox, m)
                  /\ j = k
        PROVE  Told(q)' \/ \E i \in 1 .. (j - 1) : mailbox'[i] = Tell(data'[q])
    <3>1. CASE Told(q)
      BY <2>2, <3>1, ToldStays
    <3>2. ASSUME NEW i \in 1 .. (k - 1), mailbox[i] = Tell(data[q])
          PROVE  Told(q)' \/ \E n \in 1 .. (j - 1) : mailbox'[n] = Tell(data'[q])
      <4>1. i \in DOMAIN mailbox /\ i <= k - 1  BY <2>3
      <4>2. CASE mailbox' = Tail(mailbox) /\ mailbox # <<>> /\ j = k - 1
        <5>1. Len(mailbox') = Len(mailbox) - 1
          BY <4>2, TailFacts
        <5>2. \/ Told(q)'
              \/ i - 1 \in DOMAIN mailbox' /\ mailbox'[i - 1] = Tell(data[q])
          <6>1. /\ mailbox' # mailbox
                /\ \A m \in Message : mailbox' # Append(mailbox, m)
            <7>1. \A m \in Message : Len(Append(mailbox, m)) = Len(mailbox) + 1
              BY DEF TypeOK
            <7>2. Len(mailbox) \in Nat  BY DEF TypeOK
            <7>3. QED  BY <5>1, <7>1, <7>2
          <6>2. QED  BY <2>2, <3>2, <4>1, <6>1, MailMoves
        <5>3. QED
          BY <2>2, <4>1, <4>2, <5>2, TailFacts
      <4>3. CASE /\ \/ mailbox' = mailbox
                    \/ \E m \in Message : mailbox' = Append(mailbox, m)
                 /\ j = k
        <5>1. mailbox'[i] = mailbox[i]  BY <4>1, <4>3, AppendFacts
        <5>2. QED  BY <2>2, <3>2, <4>1, <4>3, <5>1
      <4>4. QED  BY <2>3, <4>2, <4>3
    <3>3. QED  BY <2>1, <2>3, <3>1, <3>2 DEF Ordered
  <2>4. CASE mailbox' = mailbox
    BY <2>3, <2>4, TailFacts DEF TypeOK
  <2>5. ASSUME NEW m \in Message, mailbox' = Append(mailbox, m), m # Ask(r)
        PROVE  Told(q)' \/ \E i \in 1 .. (j - 1) : mailbox'[i] = Tell(data'[q])
    BY <2>3, <2>5, AppendFacts
  <2>6. CASE mailbox' = Tail(mailbox) /\ mailbox # <<>>
    <3>1. j + 1 \in DOMAIN mailbox /\ mailbox[j + 1] = Ask(r)
      BY <2>6, TailFacts
    <3>2. \A i \in 1 .. j : i \in DOMAIN mailbox  BY <3>1, TailFacts, <2>6
    <3>3. (j + 1) - 1 = j  BY <3>1, TailFacts, <2>6
    <3>4. QED  BY <2>3, <2>6, <3>1, <3>2, <3>3
  <2>7. ASSUME NEW p \in Request, Send(p)
        PROVE  \E m \in Message : mailbox' = Append(mailbox, m) /\ m # Ask(r)
    BY <1>2, <2>7, MessageFacts DEF Send, Ask
  <2>8. ASSUME NEW p \in Request, PostCache(p)
        PROVE  \E m \in Message : mailbox' = Append(mailbox, m) /\ m # Ask(r)
    BY <2>8, MessageFacts DEF PostCache, Tell, Stages
  <2>9. QED
    BY <2>4, <2>5, <2>6, <2>7, <2>8 DEF Next, Tick, DailySvcCacheMsg, Actor,
        Refuse, AnswerFromCache, StartFetch, Handles, Goroutine, Login, Fetch,
        Finish, LoginOK, LoginFails, FetchOK, FetchFails, Reply, vars
<1>3. QED  BY <1>1, <1>2

-----------------------------------------------------------------------------
\* The theorem

LEMMA SparesStep == Inv /\ [Next]_vars => SparesTheApi'
<1> SUFFICES ASSUME Inv, [Next]_vars, NEW r \in Request, NEW q \in known'[r],
                    started'[r] # Never
             PROVE  started'[r] - data'[q].at >= TTL
  BY DEF SparesTheApi
<1> USE DEF Inv
<1>1. CASE StartFetch(r)
  <2>1. q \in known[r] /\ started'[r] = now /\ data' = data /\ ~HasDailySvcCache
        /\ Handles(r)
    BY <1>1 DEF StartFetch, TypeOK
  <2>2. q \in Request /\ data[q] # NoData /\ data[q] \in Data
    BY <2>1 DEF Known, TypeOK
  <2>3. 1 \in DOMAIN mailbox /\ mailbox[1] = Ask(r)
    BY <2>1, TailFacts DEF Handles, Ask
  <2>4. Told(q)  BY <2>1, <2>3 DEF Ordered
  <2>5. QED
    BY <2>1, <2>2, <2>4 DEF Told, HasDailySvcCache, TypeOK, Time, Data
<1>2. CASE Send(r)
  BY <1>2 DEF Send, Stages
<1>3. CASE ~StartFetch(r) /\ ~Send(r)
  <2>1. q \in known[r] /\ started'[r] = started[r]
    <3>1. ASSUME NEW p \in Request, p # r, Send(p) \/ StartFetch(p)
          PROVE  q \in known[r] /\ started'[r] = started[r]
      BY <3>1 DEF Send, StartFetch, TypeOK
    <3>2. CASE UNCHANGED <<known, started>>
      BY <3>2
    <3>3. QED
      BY <1>3, <3>1, <3>2 DEF Next, Tick, DailySvcCacheMsg, Actor, Refuse,
         AnswerFromCache, Goroutine, Login, Fetch, Finish, LoginOK, LoginFails,
         FetchOK, FetchFails, PostCache, Reply, vars
  <2>2. data'[q] = data[q]  BY <2>1, DoneStays DEF Known, TypeOK
  <2>3. QED  BY <2>1, <2>2 DEF SparesTheApi
<1>4. QED  BY <1>1, <1>2, <1>3

LEMMA InvInit == Init => Inv
BY DEF Init, Inv, TypeOK, Time, Never, Stages, Queued, Clock, Known, Posted,
   Ordered, SparesTheApi

THEOREM Invariance == Spec => []Inv
<1>1. Init => Inv  BY InvInit
<1>2. Inv /\ [Next]_vars => Inv'
  BY TypeStep, StagesStep, QueuedStep, ClockStep, KnownStep, PostedStep,
     OrderedStep, SparesStep DEF Inv
<1>3. QED  BY <1>1, <1>2, PTL DEF Spec

\* Every reachable state of the cache is well typed.
THEOREM TypeCorrect == Spec => []TypeOK
<1>1. Inv => TypeOK  BY DEF Inv
<1>2. QED  BY <1>1, Invariance, PTL

\* Whoever asks after having been told that a fetch succeeded causes no other
\* fetch within the time to live of the cache.
THEOREM ApiIsSpared == Spec => []SparesTheApi
<1>1. Inv => SparesTheApi  BY DEF Inv
<1>2. QED  BY <1>1, Invariance, PTL
-----------------------------------------------------------------------------
\* Answers, and where the cached data come from

\* Data on their way to the cache were posted by a goroutine that fetched them.
Origin ==
    \A i \in DOMAIN mailbox : \A d \in Data :
        mailbox[i] = Tell(d) =>
            \E q \in Request : stage[q] \in {"posted", "done"} /\ data[q] = d

\* What has been posted stays posted.
LEMMA PostedStays ==
    ASSUME TypeOK, [Next]_vars, Queued, NEW q \in Request,
           stage[q] \in {"posted", "done"}
    PROVE  stage'[q] \in {"posted", "done"} /\ data'[q] = data[q]
<1>1. ASSUME NEW r \in Request, Actor(r) PROVE r # q
  BY <1>1, HandlesFacts DEF Actor, Refuse, AnswerFromCache, StartFetch
<1>2. QED
  BY <1>1 DEF Next, Tick, DailySvcCacheMsg, Send, Actor, Refuse,
      AnswerFromCache, StartFetch, Goroutine, Login, Fetch, Finish, LoginOK,
      LoginFails, FetchOK, FetchFails, PostCache, Reply, Answer, vars, TypeOK

LEMMA OriginStep == Inv /\ Origin /\ [Next]_vars => Origin'
<1> SUFFICES ASSUME Inv, Origin, [Next]_vars,
                    NEW i \in DOMAIN mailbox', NEW d \in Data,
                    mailbox'[i] = Tell(d)
             PROVE  \E q \in Request : stage'[q] \in {"posted", "done"} /\ data'[q] = d
  BY DEF Origin
<1> USE DEF Inv
<1>1. ASSUME NEW j \in DOMAIN mailbox, mailbox[j] = Tell(d)
      PROVE  \E q \in Request : stage'[q] \in {"posted", "done"} /\ data'[q] = d
  BY <1>1, PostedStays DEF Origin
<1>2. CASE mailbox' = mailbox
  BY <1>1, <1>2
<1>3. CASE mailbox' = Tail(mailbox) /\ mailbox # <<>>
  <2>1. i + 1 \in DOMAIN mailbox /\ mailbox[i + 1] = Tell(d)
    BY <1>3, TailFacts
  <2>2. QED  BY <1>1, <2>1
<1>4. ASSUME NEW r \in Request, Send(r)
      PROVE  \E j \in DOMAIN mailbox : mailbox[j] = Tell(d)
  <2>1. mailbox' = Append(mailbox, Ask(r)) /\ Ask(r) \in Message
    BY <1>4, MessageFacts DEF Send, Ask
  <2>2. QED  BY <2>1, AppendFacts, MessageFacts
<1>5. ASSUME NEW r \in Request, PostCache(r)
      PROVE  \E q \in Request : stage'[q] \in {"posted", "done"} /\ data'[q] = d
  <2>1. /\ mailbox' = Append(mailbox, Tell(data[r])) /\ Tell(data[r]) \in Message
        /\ stage'[r] = "posted" /\ data' = data
    BY <1>5, MessageFacts DEF PostCache, Tell, Stages, TypeOK
  <2>2. i \in DOMAIN mailbox \/ i = Len(mailbox) + 1
    BY <2>1, AppendFacts
  <2>3. CASE i \in DOMAIN mailbox
    BY <1>1, <2>1, <2>3, AppendFacts
  <2>4. CASE i = Len(mailbox) + 1
    BY <2>1, <2>4, AppendFacts, MessageFacts
  <2>5. QED  BY <2>2, <2>3, <2>4
<1>6. QED
  BY <1>1, <1>2, <1>3, <1>4, <1>5 DEF Next, Tick, DailySvcCacheMsg, Actor,
      Refuse, AnswerFromCache, StartFetch, Handles, Goroutine, Login, Fetch,
      Finish, LoginOK, LoginFails, FetchOK, FetchFails, Reply, vars

LEMMA FetchedStep == Inv /\ Origin /\ CacheWasFetched /\ [Next]_vars => CacheWasFetched'
<1> SUFFICES ASSUME Inv, Origin, CacheWasFetched, [Next]_vars, cache' # NoData
             PROVE  \E r \in Request : /\ data'[r] = cache'
                                       /\ stage'[r] \in {"posted", "done"}
                                       /\ data'[r].at <= cacheTime'
  BY DEF CacheWasFetched
<1> USE DEF Inv
<1>1. CASE DailySvcCacheMsg
  <2>1. /\ cache' = Head(mailbox).data /\ cache' \in Data /\ cacheTime' = now
        /\ 1 \in DOMAIN mailbox /\ mailbox[1] = Tell(cache')
    BY <1>1, TailFacts, MessageFacts DEF DailySvcCacheMsg, CacheTime
  <2>2. PICK q \in Request : stage[q] \in {"posted", "done"} /\ data[q] = cache'
    BY <2>1 DEF Origin
  <2>3. data[q] # NoData /\ data[q].at <= now
    BY <2>1, <2>2 DEF Clock
  <2>4. QED  BY <2>1, <2>2, <2>3, PostedStays
<1>2. CASE UNCHANGED <<cache, cacheTime>>
  <2>1. PICK q \in Request : /\ data[q] = cache
                             /\ stage[q] \in {"posted", "done"}
                             /\ data[q].at <= cacheTime
    BY <1>2 DEF CacheWasFetched
  <2>2. QED  BY <1>2, <2>1, PostedStays
<1>3. QED
  BY <1>1, <1>2 DEF Next, Tick, Send, Actor, Refuse, AnswerFromCache,
      StartFetch, Goroutine, Login, Fetch, Finish, LoginOK, LoginFails, FetchOK,
      FetchFails, PostCache, Reply, vars

LEMMA OnceStep == TypeOK /\ Queued /\ AnsweredOnce /\ [Next]_vars => AnsweredOnce'
<1> SUFFICES ASSUME TypeOK, Queued, AnsweredOnce, [Next]_vars, NEW q \in Request
             PROVE  Len(answers'[q]) = IF stage'[q] = "done" THEN 1 ELSE 0
  BY DEF AnsweredOnce
<1>1. ASSUME NEW r \in Request, NEW a, Answer(r, a),
             stage[r] # "done"
      PROVE  Len(answers'[q]) = IF stage'[q] = "done" THEN 1 ELSE 0
  <2>1. Len(Append(answers[r], a)) = 1
    BY <1>1 DEF AnsweredOnce, TypeOK
  <2>2. QED  BY <1>1, <2>1 DEF Answer, AnsweredOnce, TypeOK
<1>2. CASE answers' = answers /\ (stage'[q] = "done" <=> stage[q] = "done")
  BY <1>2 DEF AnsweredOnce
<1>3. ASSUME NEW r \in Request, Actor(r)
      PROVE  Len(answers'[q]) = IF stage'[q] = "done" THEN 1 ELSE 0
  <2>1. stage[r] = "queued"
    BY <1>3, HandlesFacts DEF Actor, Refuse, AnswerFromCache, StartFetch
  <2>2. CASE Refuse(r)
    BY <1>1, <2>1, <2>2 DEF Refuse
  <2>3. CASE AnswerFromCache(r)
    BY <1>1, <2>1, <2>3 DEF AnswerFromCache, HasDailySvcCache, TypeOK
  <2>4. CASE StartFetch(r)
    BY <1>2, <2>1, <2>4 DEF StartFetch, TypeOK
  <2>5. QED  BY <1>3, <2>2, <2>3, <2>4 DEF Actor
<1>4. ASSUME NEW r \in Request, FetchFails(r) \/ LoginFails(r)
      PROVE  Len(answers'[q]) = IF stage'[q] = "done" THEN 1 ELSE 0
  BY <1>1, <1>4 DEF FetchFails, LoginFails
<1>5. QED
  BY <1>1, <1>2, <1>3, <1>4
  DEF Next, Tick, DailySvcCacheMsg, Send, Goroutine, Login, Fetch, Finish,
      LoginOK, LoginFails, FetchOK, PostCache, Reply, vars, TypeOK

LEMMA AnswersInv == Spec => [](Origin /\ CacheWasFetched /\ AnsweredOnce)
<1>1. Init => Origin /\ CacheWasFetched /\ AnsweredOnce
  BY DEF Init, Origin, CacheWasFetched, AnsweredOnce
<1>2. Inv /\ (Origin /\ CacheWasFetched /\ AnsweredOnce) /\ [Next]_vars
        => (Origin /\ CacheWasFetched /\ AnsweredOnce)'
  BY OriginStep, FetchedStep, OnceStep DEF Inv
<1>3. QED  BY <1>1, <1>2, Invariance, PTL DEF Spec

\* The cache holds what a successful fetch has posted, and its age counts from
\* no earlier than the fetch.
THEOREM CacheIsFetched == Spec => []CacheWasFetched
BY AnswersInv, PTL

\* A request gets one answer, from the actor or from its goroutine.
THEOREM OneAnswer == Spec => []AnsweredOnce
BY AnswersInv, PTL

-----------------------------------------------------------------------------
\* What EveryRequestAnswered rests on

InMailbox(r) == \E i \in DOMAIN mailbox : mailbox[i] = Ask(r)

\* The converse of Queued.
Waits == \A r \in Request : stage[r] = "queued" => InMailbox(r)

\* A request keeps its place in the mailbox until it is handled.
LEMMA AskStays ==
    ASSUME TypeOK, NEW r \in Request, InMailbox(r),
           \/ mailbox' = mailbox
           \/ \E m \in Message : mailbox' = Append(mailbox, m)
           \/ /\ mailbox # <<>> /\ mailbox' = Tail(mailbox)
              /\ mailbox[1] # Ask(r)
    PROVE  InMailbox(r)'
<1>1. PICK i \in DOMAIN mailbox : mailbox[i] = Ask(r)
  BY DEF InMailbox
<1>2. CASE mailbox' = mailbox
  BY <1>1, <1>2 DEF InMailbox, Ask
<1>3. CASE \E m \in Message : mailbox' = Append(mailbox, m)
  BY <1>1, <1>3, AppendFacts DEF InMailbox, Ask
<1>4. CASE mailbox # <<>> /\ mailbox' = Tail(mailbox) /\ mailbox[1] # Ask(r)
  <2>1. i # 1 /\ i \in 1 .. Len(mailbox) /\ Len(mailbox) \in Nat
    BY <1>1, <1>4, TailFacts
  <2>2. DOMAIN Tail(mailbox) = 1 .. (Len(mailbox) - 1)
    BY <1>4, TailFacts
  <2>3. i - 1 \in DOMAIN Tail(mailbox) /\ (i - 1) + 1 = i
    BY <2>1, <2>2
  <2>4. Tail(mailbox)[i - 1] = Ask(r)
    BY <1>1, <1>4, <2>3, TailFacts
  <2>5. QED  BY <1>4, <2>3, <2>4 DEF InMailbox, Ask
<1>5. QED  BY <1>2, <1>3, <1>4

LEMMA WaitsStep ==
    TypeOK /\ Stages /\ Waits /\ [Next]_vars => Waits'
<1> SUFFICES ASSUME TypeOK, Stages, Waits, [Next]_vars,
                    NEW q \in Request, stage'[q] = "queued"
             PROVE  InMailbox(q)'
  BY DEF Waits
<1>1. CASE Tick \/ UNCHANGED vars
  BY <1>1, AskStays DEF Tick, vars, Waits
<1>2. CASE DailySvcCacheMsg
  <2>1. mailbox[1] # Ask(q)
    BY <1>2, TailFacts DEF DailySvcCacheMsg, Ask
  <2>2. QED  BY <1>2, <2>1, AskStays DEF DailySvcCacheMsg, Waits
<1>3. ASSUME NEW r \in Request, Send(r) PROVE InMailbox(q)'
  <2>1. mailbox' = Append(mailbox, Ask(r)) /\ Ask(r) \in Message
    BY <1>3, MessageFacts DEF Send, Ask
  <2>2. CASE q = r
    <3>1. Len(mailbox) + 1 \in DOMAIN mailbox'
          /\ mailbox'[Len(mailbox) + 1] = Ask(r)
      BY <2>1, AppendFacts
    <3>2. QED  BY <2>2, <3>1 DEF InMailbox, Ask
  <2>3. CASE q # r
    <3>1. stage[q] = "queued"  BY <1>3, <2>3 DEF Send, TypeOK
    <3>2. QED  BY <2>1, <3>1, AskStays DEF Waits
  <2>4. QED  BY <2>2, <2>3
<1>4. ASSUME NEW r \in Request, Actor(r) PROVE InMailbox(q)'
  <2>1. mailbox # <<>> /\ mailbox' = Tail(mailbox) /\ mailbox[1] = Ask(r)
    BY <1>4, TailFacts DEF Actor, Refuse, AnswerFromCache, StartFetch, Handles,
        Ask
  <2>2. q # r /\ stage[q] = "queued"
    BY <1>4 DEF Actor, Refuse, AnswerFromCache, StartFetch, Answer, TypeOK
  <2>3. QED  BY <2>1, <2>2, MessageFacts, AskStays DEF Waits
<1>5. ASSUME NEW r \in Request, Goroutine(r) PROVE InMailbox(q)'
  <2>1. stage[q] = "queued"
    BY <1>5 DEF Goroutine, Login, Fetch, Finish, LoginOK, LoginFails, FetchOK,
        FetchFails, PostCache, Reply, Answer, TypeOK
  <2>2. \/ mailbox' = mailbox
        \/ \E m \in Message : mailbox' = Append(mailbox, m)
    BY <1>5, MessageFacts
    DEF Goroutine, Login, Fetch, Finish, LoginOK, LoginFails, FetchOK,
        FetchFails, PostCache, Reply, Tell, Stages
  <2>3. QED  BY <2>1, <2>2, AskStays DEF Waits
<1>6. QED  BY <1>1, <1>2, <1>3, <1>4, <1>5 DEF Next

\* No request is lost: one that was sent and has no answer stands in the
\* actor's mailbox, or has a goroutine that is not through; there is no path
\* through the handler or the goroutine that ends without an answer
\* (app/actor.go:922-959).  With the fairness of the actor and of what the
\* goroutine does apart from the fetch this is why EveryRequestAnswered holds.
THEOREM NoneIsLost ==
    Spec => [](\A r \in Request : stage[r] # "new" /\ answers[r] = <<>> =>
                  \/ InMailbox(r)
                  \/ stage[r] \in {"fetching", "asking", "fetched", "posted"})
<1>1. Init => Waits
  BY DEF Init, Waits
<1>2. Inv /\ Waits /\ [Next]_vars => Waits'
  BY WaitsStep DEF Inv
<1>3. Inv /\ Waits /\ AnsweredOnce =>
        \A r \in Request : stage[r] # "new" /\ answers[r] = <<>> =>
            \/ InMailbox(r)
            \/ stage[r] \in {"fetching", "asking", "fetched", "posted"}
  <2> SUFFICES ASSUME Inv, Waits, AnsweredOnce, NEW r \in Request,
                      stage[r] # "new", answers[r] = <<>>
               PROVE  \/ InMailbox(r)
                      \/ stage[r] \in {"fetching", "asking", "fetched", "posted"}
    OBVIOUS
  <2>1. stage[r] # "done"
    BY DEF AnsweredOnce
  <2>2. stage[r] \in {"new", "queued", "fetching", "asking", "fetched", "posted",
                       "done"}
    BY DEF Inv, TypeOK
  <2>3. QED  BY <2>1, <2>2 DEF Waits
<1>4. QED  BY <1>1, <1>2, <1>3, Invariance, AnswersInv, PTL DEF Spec
=============================================================================
