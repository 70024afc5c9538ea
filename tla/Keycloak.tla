------------------------------- MODULE Keycloak -------------------------------
(***************************************************************************)
(* The keycloak actor of internal/keyc_.  It hands out an HTTP client that *)
(* is logged in, logs in again when its token source hands out no token,   *)
(* and remembers who asked while it could not.  On a tick everybody it     *)
(* remembers is sent the client, and nobody is forgotten.                  *)
(*                                                                         *)
(* The server, the network, who asks and who ticks are external: `tick' is *)
(* started by nobody.                                                      *)
(***************************************************************************)
EXTENDS TokenSource, Integers, Sequences

CONSTANTS
    Asker,          \* actors that ask for a client
    MaxLogins,      \* bound: logins that succeed, which number the clients
    MaxAsks         \* bound: messages in the mailbox

VARIABLES
    asks,           \* the mailbox: askers, or Tick
    source,         \* a.tks
    httpClient,     \* a.httpClient: the login it comes from, 0 for nil
    logins,
    pidRequest,     \* a.pidRequest
    holds,          \* per asker, the last client it was sent; Nothing before
    reachable       \* the server answers

keycVars == <<asks, source, httpClient, logins, pidRequest, holds, reachable>>

Tick    == "tick"
Nothing == -1

ASSUME KeycAssumption == Tick \notin Asker /\ MaxLogins \in Nat /\ MaxAsks \in Nat

KeycTypeOK ==
    /\ asks \in Seq(Asker \cup {Tick})
    /\ source \in Source
    /\ httpClient \in 0 .. logins
    /\ logins \in 0 .. MaxLogins
    /\ pidRequest \subseteq Asker
    /\ holds \in [Asker -> Nothing .. logins]
    /\ reachable \in BOOLEAN

KeycInit ==
    /\ asks = <<>>
    /\ source = NoSource
    /\ httpClient = 0
    /\ logins = 0
    /\ pidRequest = {}
    /\ holds = [p \in Asker |-> Nothing]
    /\ reachable = TRUE

KeycSends(m) ==
    /\ Len(asks) < MaxAsks
    /\ asks' = Append(asks, m)
    /\ UNCHANGED <<source, httpClient, logins, pidRequest, holds, reachable>>

TokenRunsOut ==
    /\ source.fresh
    /\ source' = [source EXCEPT !.fresh = FALSE]
    /\ UNCHANGED <<asks, httpClient, logins, pidRequest, holds, reachable>>

SessionRunsOut ==
    /\ source.session
    /\ source' = [source EXCEPT !.session = FALSE]
    /\ UNCHANGED <<asks, httpClient, logins, pidRequest, holds, reachable>>

Reachability ==
    /\ reachable' = ~reachable
    /\ UNCHANGED <<asks, source, httpClient, logins, pidRequest, holds>>

KeycGets(p) == asks # <<>> /\ Head(asks) = p /\ asks' = Tail(asks)

\* There is a client, and its source hands out a token.
HasClient == httpClient # 0 /\ Usable(source, reachable)

\* MsgGetClient: the client there is.
GetClient(p) ==
    /\ KeycGets(p)
    /\ HasClient
    /\ source' = Refreshed(source)
    /\ holds' = [holds EXCEPT ![p] = httpClient]
    /\ UNCHANGED <<httpClient, logins, pidRequest, reachable>>

OldNumber == httpClient' = IF httpClient = 0 THEN 1 ELSE httpClient
                                    \* mutant: the new client is not kept
NewNumber == httpClient' = logins'

\* MsgGetClient: a login brings a new source and a new client.
LogsIn(p) ==
    /\ KeycGets(p)
    /\ ~HasClient /\ reachable
    /\ logins < MaxLogins
    /\ logins' = logins + 1
    /\ source' = NewSource
    /\ NewNumber
    /\ holds' = [holds EXCEPT ![p] = httpClient']
    /\ UNCHANGED <<pidRequest, reachable>>

Remembers(p) == pidRequest' = pidRequest \cup {p}

\* MsgGetClient: the login fails.  Who asked is remembered and sent nil, what
\* client there was stays.
LoginRefused(p) ==
    /\ KeycGets(p)
    /\ ~HasClient /\ ~reachable
    /\ Remembers(p)
    /\ holds' = [holds EXCEPT ![p] = 0]
    /\ UNCHANGED <<source, httpClient, logins, reachable>>

\* MsgTick: the client goes to everybody remembered, with a token or without.
MsgTick ==
    /\ KeycGets(Tick)
    /\ holds' = [p \in Asker |->
                   IF p \in pidRequest /\ httpClient # 0 THEN httpClient ELSE holds[p]]
    /\ UNCHANGED <<source, httpClient, logins, pidRequest, reachable>>

KeycHandle(p) == GetClient(p) \/ LogsIn(p) \/ LoginRefused(p)

KeycNext ==
    \/ \E m \in Asker \cup {Tick} : KeycSends(m)
    \/ \E p \in Asker : KeycHandle(p)
    \/ MsgTick
    \/ TokenRunsOut \/ SessionRunsOut \/ Reachability

KeycSpec == KeycInit /\ [][KeycNext]_keycVars

-----------------------------------------------------------------------------

\* The client kept is that of the last login, as the source is: a client of an
\* earlier login is never handed out beside a new source, and a source that may
\* still hand out tokens has its client.
ClientOfItsSource ==
    /\ httpClient = logins
    /\ source.fresh \/ source.session => httpClient # 0
=============================================================================
