------------------------------ MODULE NatsLink ------------------------------
(***************************************************************************)
(* The link that internal/nats/actor.go keeps with the gwiot gateway: it   *)
(* discovers the gateway's address over MQTT, spawns a client actor there  *)
(* under a fixed name, watches it for termination, asks it to watch the    *)
(* key/value bucket of programmed services, and reports to its parent      *)
(* whether the gateway is connected.                                       *)
(*                                                                         *)
(* The gateway and the remote layer are external: they are modelled from   *)
(* what the actor sends them and from the messages it handles.  A client   *)
(* that dies is respawned under the same name, so its incarnations are     *)
(* numbered here although the actor cannot tell them apart.                *)
(***************************************************************************)
EXTENDS Integers, Sequences, FiniteSets

CONSTANTS
    Addr,            \* the addresses a gateway may listen on
    NoAddr,          \* the empty remoteAddress
    MaxFaults,       \* bound: deaths, lost endpoints, lost messages, failed spawns
    MaxFlaps,        \* bound: times a client loses its NATS connection
    MaxAppRestarts,  \* bound: times the parent restarts this actor
    MaxInbox         \* bound: no tick or answer enters a longer mailbox

ASSUME AddrAssumption   == NoAddr \notin Addr
ASSUME BoundsAssumption == /\ MaxFaults \in Nat
                           /\ MaxFlaps \in Nat
                           /\ MaxAppRestarts \in Nat
                           /\ MaxInbox \in Nat \ {0}

Client == 1 .. (MaxFaults + MaxAppRestarts + 1)  \* incarnations of the client
NoPid  == 0

VARIABLES
    phase,          \* life cycle of the actor
    remoteAddress,  \* a.remoteAddress
    pidNats,        \* a.pidNats
    connected,      \* a.connected
    told,           \* the last MsgStatus sent to the parent
    inbox,          \* user messages of the actor, oldest first
    term,           \* clients whose Terminated is on its way (system message)
    toClient,       \* requests on their way to a client
    asking,         \* a Discovery request is on the MQTT bus
    answers,        \* discovery answers on the bus
    hostAddr,       \* where the gateway listens now
    client,         \* state of every incarnation
    watching,       \* clients that watch the bucket for this actor
    deathwatch,     \* clients that will announce their death to this actor
    deadLetters,    \* clients whose Terminated found no actor
    faults, flaps, restarts

own     == <<phase, remoteAddress, pidNats, connected, told>>
bus     == <<asking, answers>>
gateway == <<hostAddr, client, watching, deathwatch, deadLetters>>
bounds  == <<faults, flaps, restarts>>
vars    == <<own, inbox, term, toClient, bus, gateway, bounds>>

Alive(c) == client[c] \in {"down", "up"}
Tick     == [type |-> "tickmsg"]
Watch    == [type |-> "WatchKeyValue"]
Message  == [type : {"tickmsg", "WatchKeyValue", "Connected", "Disconnected"}]
              \cup [type : {"DiscoveryResponse"}, addr : Addr]
Has(t)   == \E i \in DOMAIN inbox : inbox[i].type = t

TypeOK ==
    /\ phase \in {"running", "stopping", "stopped"}
    /\ remoteAddress \in Addr \cup {NoAddr}
    /\ pidNats \in Client \cup {NoPid}
    /\ connected \in BOOLEAN
    /\ told \in {"unknown", "up", "down"}
    /\ inbox \in Seq(Message)
    /\ term \subseteq Client
    /\ toClient \subseteq ({"watch", "status"} \X Client)
    /\ asking \in BOOLEAN
    /\ answers \subseteq Addr
    /\ hostAddr \in Addr \cup {NoAddr}
    /\ client \in [Client -> {"unborn", "down", "up", "dead"}]
    /\ watching \subseteq Client
    /\ deathwatch \subseteq Client
    /\ deadLetters \subseteq Client
    /\ faults \in 0 .. MaxFaults
    /\ flaps \in 0 .. MaxFlaps
    /\ restarts \in 0 .. MaxAppRestarts

Init ==
    /\ phase = "running"
    /\ remoteAddress = NoAddr
    /\ pidNats = NoPid
    /\ connected = FALSE
    /\ told = "unknown"
    /\ inbox = <<>>
    /\ term = {}
    /\ toClient = {}
    /\ asking = FALSE
    /\ answers = {}
    /\ hostAddr = NoAddr
    /\ client = [c \in Client |-> "unborn"]
    /\ watching = {}
    /\ deathwatch = {}
    /\ deadLetters = {}
    /\ faults = 0 /\ flaps = 0 /\ restarts = 0

(***************************************************************************)
(* The actor.  Each handler takes the oldest user message; messages are    *)
(* still handled while the actor is stopping.                              *)
(***************************************************************************)

Fault == faults < MaxFaults /\ faults' = faults + 1

\* The handler of the oldest message, which leaves the messages `more` in
\* the actor's own mailbox.
Handle(type, more) ==
    /\ phase # "stopped"
    /\ inbox # <<>>
    /\ Head(inbox).type = type
    /\ inbox' = Tail(inbox) \o more

\* The goroutine started by Started: a first tick, then one every 60 s.
TickFires ==
    /\ phase = "running"
    /\ Len(inbox) < MaxInbox
    /\ ~Has("tickmsg")
    /\ inbox' = Append(inbox, Tick)
    /\ UNCHANGED <<own, term, toClient, bus, gateway, bounds>>

\* No address: ask the discovery actor, which publishes the question.
Discover ==
    /\ Handle("tickmsg", <<>>)
    /\ remoteAddress = NoAddr
    /\ asking' = TRUE
    /\ UNCHANGED <<own, term, toClient, answers, gateway, bounds>>

\* The incarnation a SpawnNamed at the gateway yields: the one that already
\* has the name, or the next one.
Spawned(c) == \/ Alive(c)
              \/ /\ \A d \in Client : ~Alive(d)
                 /\ client[c] = "unborn"
                 /\ \A d \in Client : d < c => client[d] # "unborn"

\* An incarnation that is born has yet to connect to NATS.
Born(c) == [client EXCEPT ![c] = IF @ = "unborn" THEN "down" ELSE @]

\* What a spawn leaves in the own mailbox: the request to watch the bucket.
NothingAfterSpawn == <<>>                   \* mutant: the self-send is dropped
AfterSpawn == <<Watch>>

\* ctx.Watch: the client will announce its death.
WithoutWatch(c) == deathwatch               \* mutant: the client is not watched
WithWatch(c)    == deathwatch \cup {c}

\* SpawnNamed answers in time: watch the client and keep it.
SpawnOK ==
    /\ Handle("tickmsg", AfterSpawn)
    /\ remoteAddress # NoAddr
    /\ remoteAddress = hostAddr
    /\ pidNats = NoPid
    /\ \E c \in Client :
          /\ Spawned(c)
          /\ client' = Born(c)
          /\ pidNats' = c
          /\ deathwatch' = WithWatch(c)
    /\ UNCHANGED <<phase, remoteAddress, connected, told, term, toClient, bus,
                   hostAddr, watching, deadLetters, bounds>>

\* The address after a failed spawn: none, so that the next tick asks anew.
KeptAddress      == remoteAddress           \* mutant: the address is kept
AddressOnFailure == NoAddr

\* SpawnNamed fails: nobody at that address, or no answer within 3 s (and
\* then the client may be born after all).
SpawnFails ==
    /\ Handle("tickmsg", <<>>)
    /\ remoteAddress # NoAddr
    /\ pidNats = NoPid
    /\ remoteAddress' = AddressOnFailure
    /\ \/ /\ remoteAddress # hostAddr
          /\ UNCHANGED <<client, faults>>
       \/ /\ remoteAddress = hostAddr
          /\ Fault
          /\ \/ UNCHANGED client
             \/ \E c \in Client : Spawned(c) /\ client' = Born(c)
    /\ UNCHANGED <<phase, pidNats, connected, told, term, toClient, bus,
                   hostAddr, watching, deathwatch, deadLetters, flaps, restarts>>

\* A client but no connection: ask it for its status.
Poll ==
    /\ Handle("tickmsg", <<>>)
    /\ remoteAddress # NoAddr
    /\ pidNats # NoPid
    /\ ~connected
    /\ toClient' = toClient \cup {<<"status", pidNats>>}
    /\ UNCHANGED <<own, term, bus, gateway, bounds>>

\* A client and a connection: nothing to do.
Idle ==
    /\ Handle("tickmsg", <<>>)
    /\ remoteAddress # NoAddr
    /\ pidNats # NoPid
    /\ connected
    /\ UNCHANGED <<own, term, toClient, bus, gateway, bounds>>

\* The request to watch the bucket goes to whatever client is held now.
WatchKeyValue ==
    /\ Handle("WatchKeyValue", <<>>)
    /\ toClient' = IF pidNats = NoPid THEN toClient
                   ELSE toClient \cup {<<"watch", pidNats>>}
    /\ UNCHANGED <<own, term, bus, gateway, bounds>>

\* Connected is believed whatever client it came from.
Connected ==
    /\ Handle("Connected", IF pidNats = NoPid THEN <<>> ELSE <<Watch>>)
    /\ connected' = TRUE
    /\ told' = "up"
    /\ UNCHANGED <<phase, remoteAddress, pidNats, term, toClient, bus, gateway,
                   bounds>>

Disconnected ==
    /\ Handle("Disconnected", <<>>)
    /\ connected' = FALSE
    /\ told' = "down"
    /\ UNCHANGED <<phase, remoteAddress, pidNats, term, toClient, bus, gateway,
                   bounds>>

\* A discovery answer replaces the address and triggers a tick at once.
TickToSelf    == <<Tick>>
DiscoveryResponse ==
    /\ Handle("DiscoveryResponse", TickToSelf)
    /\ remoteAddress' = Head(inbox).addr
    /\ UNCHANGED <<phase, pidNats, connected, told, term, toClient, bus,
                   gateway, bounds>>

\* The held client is let go and its loss is reported.
LetGoSilently == pidNats' = NoPid /\ connected' = FALSE /\ UNCHANGED told  \* mutant
LetGo         == pidNats' = NoPid /\ connected' = FALSE /\ told' = "down"

\* A Terminated overtakes the user messages.  All incarnations have the same
\* Id, so any of them drops the client that is held.
Terminated(c) ==
    /\ phase # "stopped"
    /\ c \in term
    /\ term' = term \ {c}
    /\ IF pidNats = NoPid
       THEN UNCHANGED <<pidNats, connected, told>>
       ELSE LetGo
    /\ UNCHANGED <<phase, remoteAddress, inbox, toClient, bus, gateway, bounds>>

(***************************************************************************)
(* Deaths.  A client that this actor watches announces its death.          *)
(***************************************************************************)

\* The clients in `dying` die; what was sent to them is lost.
Die(dying) ==
    /\ client' = [c \in Client |-> IF c \in dying THEN "dead" ELSE client[c]]
    /\ term' = term \cup (dying \cap deathwatch)
    /\ deathwatch' = deathwatch \ dying
    /\ watching' = watching \ dying
    /\ toClient' = {m \in toClient : m[2] \notin dying}

\* Stopping cancels the ticks and poisons the client, which may not hear it.
Stopping ==
    /\ phase = "running"
    /\ restarts < MaxAppRestarts
    /\ phase' = "stopping"
    /\ restarts' = restarts + 1
    /\ \/ Die({c \in Client : c = pidNats /\ Alive(c)}) /\ UNCHANGED faults
       \/ /\ pidNats # NoPid
          /\ Fault
          /\ UNCHANGED <<client, term, deathwatch, watching, toClient>>
    /\ UNCHANGED <<remoteAddress, pidNats, connected, told, inbox, bus,
                   hostAddr, deadLetters, flaps>>

\* The mailbox, and the discovery child's, die with the actor; its Go object,
\* and so its fields, do not.
Stopped ==
    /\ phase = "stopping"
    /\ phase' = "stopped"
    /\ inbox' = <<>>
    /\ answers' = {}
    /\ UNCHANGED <<remoteAddress, pidNats, connected, told, term, toClient,
                   asking, gateway, bounds>>

\* A Terminated that finds no actor under this name is a dead letter.
TerminatedLost(c) ==
    /\ phase = "stopped"
    /\ c \in term
    /\ term' = term \ {c}
    /\ deadLetters' = deadLetters \cup {c}
    /\ UNCHANGED <<own, inbox, toClient, bus, hostAddr, client, watching,
                   deathwatch, bounds>>

\* The parent starts the same object again under the same name.
StartedAgain ==
    /\ phase = "stopped"
    /\ phase' = "running"
    /\ UNCHANGED <<remoteAddress, pidNats, connected, told, inbox, term,
                   toClient, bus, gateway, bounds>>

(***************************************************************************)
(* The discovery actor and the gateway.                                    *)
(***************************************************************************)

\* The gateway answers the question; with no gateway the question is lost.
GatewayAnswers ==
    /\ asking
    /\ asking' = FALSE
    /\ answers' = IF hostAddr = NoAddr THEN answers ELSE answers \cup {hostAddr}
    /\ UNCHANGED <<own, inbox, term, toClient, gateway, bounds>>

\* The discovery actor forwards an answer to its parent.
AnswerArrives(a) ==
    /\ a \in answers
    /\ phase # "stopped"
    /\ Len(inbox) < MaxInbox
    /\ answers' = answers \ {a}
    /\ inbox' = Append(inbox, [type |-> "DiscoveryResponse", addr |-> a])
    /\ UNCHANGED <<own, term, toClient, asking, gateway, bounds>>

\* MQTT loses the question or an answer.
BusLoses ==
    /\ Fault
    /\ \/ asking /\ asking' = FALSE /\ UNCHANGED answers
       \/ \E a \in answers : answers' = answers \ {a} /\ UNCHANGED asking
    /\ UNCHANGED <<own, inbox, term, toClient, gateway, flaps, restarts>>

HostStarts ==
    /\ hostAddr = NoAddr
    /\ hostAddr' \in Addr
    /\ UNCHANGED <<own, inbox, term, toClient, bus, client, watching,
                   deathwatch, deadLetters, bounds>>

HostDies ==
    /\ hostAddr # NoAddr
    /\ hostAddr' = NoAddr
    /\ Fault
    /\ Die({c \in Client : Alive(c)})
    /\ UNCHANGED <<own, inbox, bus, deadLetters, flaps, restarts>>

ClientDies(c) ==
    /\ Alive(c)
    /\ Fault
    /\ Die({c})
    /\ UNCHANGED <<own, inbox, bus, hostAddr, deadLetters, flaps, restarts>>

\* The remote layer gives the endpoint up although the client lives: the
\* watcher is told Terminated and what was sent to the client is lost.
EndpointLost(c) ==
    /\ Alive(c)
    /\ c \in deathwatch
    /\ Fault
    /\ term' = term \cup {c}
    /\ deathwatch' = deathwatch \ {c}
    /\ toClient' = {m \in toClient : m[2] # c}
    /\ UNCHANGED <<own, inbox, bus, hostAddr, client, watching, deadLetters,
                   flaps, restarts>>

\* What a client sends reaches the mailbox, if there is one.
Sends(msgs) == inbox' = IF phase = "stopped" THEN inbox ELSE inbox \o msgs

\* A client tells whoever watches through it that its connection changed.
ClientUp(c) ==
    /\ client[c] = "down"
    /\ client' = [client EXCEPT ![c] = "up"]
    /\ Sends(IF c \in watching THEN <<[type |-> "Connected"]>> ELSE <<>>)
    /\ UNCHANGED <<own, term, toClient, bus, hostAddr, watching, deathwatch,
                   deadLetters, bounds>>

ClientDown(c) ==
    /\ client[c] = "up"
    /\ flaps < MaxFlaps
    /\ flaps' = flaps + 1
    /\ client' = [client EXCEPT ![c] = "down"]
    /\ Sends(IF c \in watching THEN <<[type |-> "Disconnected"]>> ELSE <<>>)
    /\ UNCHANGED <<own, term, toClient, bus, hostAddr, watching, deathwatch,
                   deadLetters, faults, restarts>>

ClientReceives(c) ==
    /\ Alive(c)
    /\ \/ /\ <<"watch", c>> \in toClient
          /\ toClient' = toClient \ {<<"watch", c>>}
          /\ watching' = watching \cup {c}
          /\ UNCHANGED inbox
       \/ /\ <<"status", c>> \in toClient
          /\ toClient' = toClient \ {<<"status", c>>}
          /\ Sends(<<[type |-> IF client[c] = "up" THEN "Connected"
                                                  ELSE "Disconnected"]>>)
          /\ UNCHANGED watching
    /\ UNCHANGED <<own, term, bus, hostAddr, client, deathwatch, deadLetters,
                   bounds>>

-----------------------------------------------------------------------------

Receive == \/ Discover \/ SpawnOK \/ SpawnFails \/ Poll \/ Idle
           \/ WatchKeyValue \/ Connected \/ Disconnected \/ DiscoveryResponse

Environment ==
    \/ GatewayAnswers \/ BusLoses \/ HostStarts \/ HostDies
    \/ \E a \in Addr : AnswerArrives(a)
    \/ \E c \in Client : \/ ClientDies(c) \/ EndpointLost(c) \/ ClientUp(c)
                         \/ ClientDown(c) \/ ClientReceives(c)

Next == \/ TickFires \/ Receive
        \/ Stopping \/ Stopped \/ StartedAgain
        \/ \E c \in Client : Terminated(c) \/ TerminatedLost(c)
        \/ Environment

Spec == Init /\ [][Next]_vars

\* The tick goroutine runs, the mailbox is served, messages that are not lost
\* arrive, and the gateway and its client come up in the end.
Fairness ==
    /\ WF_vars(TickFires)
    /\ WF_vars(Receive)
    /\ \A c \in Client : /\ WF_vars(Terminated(c))
                         /\ WF_vars(ClientUp(c))
                         /\ WF_vars(ClientReceives(c))
    /\ WF_vars(GatewayAnswers)
    /\ \A a \in Addr : WF_vars(AnswerArrives(a))
    /\ WF_vars(HostStarts)

FairSpec == Spec /\ Fairness

-----------------------------------------------------------------------------
(***************************************************************************)
(* Properties                                                              *)
(***************************************************************************)

\* The actor never holds a dead client without a Terminated on its way that
\* will make it let go (nats/actor.go:103-107 is the only place that does),
\* unless that Terminated came while the parent was restarting it: its field
\* outlives the mailbox, and nothing looks at the client again.
HeldClientWatched ==
    pidNats # NoPid
        => \/ Alive(pidNats) /\ pidNats \in deathwatch
           \/ pidNats \in term
           \/ pidNats \in deadLetters

\* A client that is held watches the bucket, or the request is on its way, or
\* the client is about to be let go: no interleaving of spawns, terminations
\* and re-connections leaves the actor with a client that feeds it nothing.
WatchNeverForgotten ==
    restarts = 0 /\ pidNats # NoPid
        => \/ pidNats \in watching
           \/ <<"watch", pidNats>> \in toClient
           \/ Has("WatchKeyValue")
           \/ pidNats \in term

\* The actor never changes from one client to another directly: it lets go of
\* the first, reports the loss and starts afresh (nats/actor.go:105-115).
LossIsReported ==
    [][pidNats # NoPid /\ pidNats' # pidNats
         => pidNats' = NoPid /\ ~connected' /\ told' = "down"]_vars

\* After finitely many faults the link comes back for good: the actor holds a
\* live client that watches the bucket, and the parent was told so.
LinkRecovers ==
    <>[](/\ phase = "running"
         /\ pidNats # NoPid /\ Alive(pidNats) /\ pidNats \in watching
         /\ connected /\ told = "up")
=============================================================================
