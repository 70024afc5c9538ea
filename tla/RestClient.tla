------------------------------ MODULE RestClient ------------------------------
(***************************************************************************)
(* The rest client actor of internal/_restclient.  It is asked for three   *)
(* kinds of service data by three handlers that are copies of one another: *)
(* each reads and writes a timestamp of its own, and all share the token   *)
(* source and the client.  A handler drops a request of a kind it answered *)
(* less than thirty seconds ago, logs in when the source hands out no      *)
(* token, and GETs the data with three tries.  Whatever fails is logged    *)
(* and not answered.                                                       *)
(*                                                                         *)
(* The actor blocks while it tries, so that tokens expire, sessions end    *)
(* and the network comes and goes between two tries.  A try may never end: *)
(* oauth2.NewClient (keycloak.go:31) makes a client with the transport of  *)
(* the one it is given and without its Timeout, and the transport waits    *)
(* for a response as long as the connection lasts.  The server, the API    *)
(* and who asks are external; `tick' is started by nobody.                 *)
(***************************************************************************)
EXTENDS TokenSource, Integers, Sequences

CONSTANTS
    Kind,       \* the kinds that are asked for
    Recent,     \* the thirty seconds, in ticks of the clock
    MaxInbox,   \* bound: requests in the mailbox
    MaxFaults   \* bound: losses of the network, refusals of the API

ASSUME RestBounds == Recent \in Nat \ {0} /\ MaxInbox \in Nat /\ MaxFaults \in Nat
ASSUME KindAssumption == Kind \subseteq {"service", "schedule", "live"}

\* The timestamp that the handler of a kind reads, and the one it writes.
Timestamp == {"lastGetService", "lastGetSchedule", "lastGetLive"}
Reads  == [service |-> "lastGetService", schedule |-> "lastGetSchedule",
           live |-> "lastGetLive"]
\* mutant: the schedule handler, a copy, writes the first one's timestamp
WritesCopied == [service |-> "lastGetService", schedule |-> "lastGetService",
                 live |-> "lastGetLive"]
Writes == [service |-> "lastGetService", schedule |-> "lastGetSchedule",
           live |-> "lastGetLive"]

VARIABLES
    inbox,       \* kinds asked for, oldest first
    serving,     \* the kind whose handler is trying, or "none"
    tries,       \* tries of utils.Get that failed
    stalled,     \* the try waits for the rest of a response, with no limit
    age,         \* per timestamp: how old it is, at most Recent
    tks,         \* a.tks
    client,      \* a.httpClient is not nil
    online,      \* the network is there
    faults,
    failed,      \* history: a GET failed over the client of the last login
    told         \* history: per kind, how long ago it was told, at most Recent

env   == <<online, faults>>
http  == <<serving, tries, stalled>>
ages  == <<age, told>>
vars  == <<inbox, http, ages, tks, client, env, failed>>

MaxTries == 3
MayRetry(n) == n < MaxTries          \* n tries have failed

Age == 0 .. Recent

TypeOK ==
    /\ inbox \in Seq(Kind)
    /\ serving \in Kind \cup {"none"}
    /\ tries \in 0 .. MaxTries - 1
    /\ stalled \in BOOLEAN
    /\ age \in [Timestamp -> Age]
    /\ tks \in Source
    /\ client \in BOOLEAN
    /\ online \in BOOLEAN
    /\ faults \in 0 .. MaxFaults
    /\ failed \in BOOLEAN
    /\ told \in [Kind -> Age]

Init ==
    /\ inbox = <<>>
    /\ serving = "none"
    /\ tries = 0
    /\ stalled = FALSE
    /\ age = [t \in Timestamp |-> Recent]
    /\ tks = NoSource
    /\ client = FALSE
    /\ online \in BOOLEAN
    /\ faults = 0
    /\ failed = FALSE
    /\ told = [k \in Kind |-> Recent]

(***************************************************************************)
(* The environment                                                         *)
(***************************************************************************)

\* Somebody asks.
Ask(k) ==
    /\ Len(inbox) < MaxInbox
    /\ inbox' = Append(inbox, k)
    /\ UNCHANGED <<http, ages, tks, client, env, failed>>

Older(a) == IF a < Recent THEN a + 1 ELSE a

Tick ==
    /\ \E t \in Timestamp : age[t] < Recent
    /\ age' = [t \in Timestamp |-> Older(age[t])]
    /\ told' = [k \in Kind |-> Older(told[k])]
    /\ UNCHANGED <<inbox, http, tks, client, env, failed>>

TokenExpires ==
    /\ tks.fresh
    /\ tks' = [tks EXCEPT !.fresh = FALSE]
    /\ UNCHANGED <<inbox, http, ages, client, env, failed>>

\* The server forgets the session: no token is refreshed any more.
SessionEnds ==
    /\ tks.session
    /\ tks' = [tks EXCEPT !.session = FALSE]
    /\ UNCHANGED <<inbox, http, ages, client, env, failed>>

NetworkLost ==
    /\ online
    /\ faults < MaxFaults
    /\ online' = FALSE
    /\ faults' = faults + 1
    /\ UNCHANGED <<inbox, http, ages, tks, client, failed>>

NetworkBack ==
    /\ ~online
    /\ online' = TRUE
    /\ UNCHANGED <<inbox, http, ages, tks, client, faults, failed>>

(***************************************************************************)
(* The handlers                                                            *)
(***************************************************************************)

Gets(k) == serving = "none" /\ inbox # <<>> /\ Head(inbox) = k

IsRecent(k) == age[Reads[k]] < Recent

\* "last GetSchedule was before 30 seconds"
Throttled(k) ==
    /\ Gets(k)
    /\ IsRecent(k)
    /\ inbox' = Tail(inbox)
    /\ UNCHANGED <<http, ages, tks, client, env, failed>>

\* The source hands out no token and logging in fails.
LoginFails(k) ==
    /\ Gets(k)
    /\ ~IsRecent(k)
    /\ ~Usable(tks, online)
    /\ \/ ~online /\ UNCHANGED faults
       \/ faults < MaxFaults /\ faults' = faults + 1
    /\ inbox' = Tail(inbox)
    /\ UNCHANGED <<http, ages, tks, client, online, failed>>

\* GetData refuses to work without a client, and the request is over.
GetData(k) == serving' = IF client' THEN k ELSE "none"

\* The source hands out a token: what client there is stays.
Begin(k) ==
    /\ Gets(k)
    /\ ~IsRecent(k)
    /\ Usable(tks, online)
    /\ tks' = Refreshed(tks)
    /\ inbox' = Tail(inbox)
    /\ UNCHANGED <<tries, stalled, ages, client, env, failed>>
    /\ GetData(k)

OldClient == client' = client                   \* mutant: only the source is new
NewClient == client' = TRUE

\* The source hands out none: a login brings a new source and a new client.
Login(k) ==
    /\ Gets(k)
    /\ ~IsRecent(k)
    /\ ~Usable(tks, online) /\ online
    /\ tks' = NewSource
    /\ NewClient
    /\ failed' = FALSE
    /\ inbox' = Tail(inbox)
    /\ GetData(k)
    /\ UNCHANGED <<tries, stalled, ages, env>>

\* After an error the client is given up, the source is kept.
KeepsIt == client' = client                     \* mutant: the client stays
GiveUp  == client' = FALSE

\* Each try asks the source for a token, and then sends the request.
Reaches    == ~stalled /\ online /\ Usable(tks, online)
TakesToken == tks' = IF stalled THEN tks ELSE Refreshed(tks)

\* The request is sent, and the response or the rest of it does not come.
Stall ==
    /\ serving # "none"
    /\ Reaches
    /\ TakesToken
    /\ stalled' = TRUE
    /\ UNCHANGED <<inbox, serving, tries, ages, client, env, failed>>

\* utils.Get: a try that fails is repeated after two seconds, twice.  One that
\* waits fails when the network is lost for so long that the probes of the
\* connection find out.
TryFails ==
    /\ serving # "none"
    /\ \/ ~online /\ UNCHANGED faults
       \/ ~stalled /\ ~Usable(tks, online) /\ UNCHANGED faults
       \/ faults < MaxFaults /\ faults' = faults + 1
    /\ stalled' = FALSE
    /\ IF MayRetry(tries + 1)
       THEN /\ tries' = tries + 1
            /\ UNCHANGED <<serving, client, failed>>
       ELSE /\ tries' = 0
            /\ serving' = "none"
            /\ GiveUp
            /\ failed' = TRUE
    /\ UNCHANGED <<inbox, ages, tks, online>>

\* The API answers, but not with 200: that is not tried again.
Refused ==
    /\ serving # "none"
    /\ Reaches \/ stalled
    /\ faults < MaxFaults /\ faults' = faults + 1
    /\ TakesToken
    /\ serving' = "none"
    /\ tries' = 0
    /\ stalled' = FALSE
    /\ GiveUp
    /\ failed' = TRUE
    /\ UNCHANGED <<inbox, ages, online>>

\* The API answers with 200: whoever asked is told, what was read of the body
\* before the connection broke is taken for the whole, and the handler writes
\* its timestamp.
Answer ==
    /\ serving # "none"
    /\ Reaches \/ stalled
    /\ TakesToken
    /\ age' = [age EXCEPT ![Writes[serving]] = 0]
    /\ told' = [told EXCEPT ![serving] = 0]
    /\ serving' = "none"
    /\ tries' = 0
    /\ stalled' = FALSE
    /\ UNCHANGED <<inbox, client, env, failed>>

Handle(k) == Throttled(k) \/ LoginFails(k) \/ Begin(k) \/ Login(k)
Try       == Stall \/ TryFails \/ Refused \/ Answer

Next ==
    \/ \E k \in Kind : Ask(k) \/ Handle(k)
    \/ Tick
    \/ Try
    \/ TokenExpires \/ SessionEnds
    \/ NetworkLost \/ NetworkBack

Spec == Init /\ [][Next]_vars

\* The actor serves its mailbox, time passes for timestamps, tokens and
\* sessions, the network comes back, each kind is asked for again, and an API
\* that is asked for a kind again and again answers one day.  A try goes on
\* until it waits; then nothing is assumed of it, nor that it does not wait.
Fairness ==
    /\ \A k \in Kind : WF_vars(Handle(k)) /\ SF_vars(Ask(k))
                       /\ SF_vars(serving = k /\ ~stalled /\ Answer)
    /\ WF_vars(Tick) /\ WF_vars(~stalled /\ Try) /\ WF_vars(NetworkBack)
    /\ SF_vars(SessionEnds) /\ SF_vars(TokenExpires)

FairSpec == Spec /\ Fairness

-----------------------------------------------------------------------------
(***************************************************************************)
(* Properties                                                              *)
(***************************************************************************)

\* A client over which a request failed is not used for another: after an
\* error (_restclient/actor.go:89) every request fails until a login has made
\* a new client, however many tokens the source hands out meanwhile.
FailedClientNotReused == serving # "none" => client /\ ~failed

ToldLately(k) == told[k] < Recent

\* What becomes of a request taken from the mailbox has a cause of its own.
\* It is tried only if its kind was not told in the last thirty seconds
\* (_restclient/actor.go:66, 112, 154); it is dropped only if it was, or if
\* neither the source nor a login yields a token, or if a GET, of whatever
\* kind, has failed since the last login: never for another kind's answer, and
\* never because a source came without its client.
TakenForACause ==
    [][\A k \in Kind : Gets(k) /\ inbox' = Tail(inbox) =>
          IF serving' = k
          THEN ~ToldLately(k)
          ELSE ToldLately(k) \/ ~Usable(tks, online) \/ failed]_vars

\* Each kind is told again and again, whatever failed before: the actor gets
\* out of having a token source but no client when the session ends.  The one
\* way out of this is a GET that waits for its response for ever, on a client
\* without a timeout (_restclient/keycloak.go:31): it blocks every kind.
ToldAgain == (\A k \in Kind : []<>ToldLately(k)) \/ <>[]stalled
=============================================================================
