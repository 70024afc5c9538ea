------------------------------- MODULE PubSub -------------------------------
(***************************************************************************)
(* The process's one MQTT client, internal/pubsub/pubsub.go.  An actor     *)
(* creates the client, connects it and then subscribes what the map of     *)
(* subscriptions holds; when it cannot connect it panics and is started    *)
(* again.  Meanwhile other goroutines call Subscribe, which writes the map *)
(* and, when the client is connected, subscribes by itself.  Publications, *)
(* which are handed to the client whatever becomes of them, are left out.  *)
(*                                                                         *)
(* The MQTT library is external.  With the options client() sets it        *)
(* reconnects by itself, counts as connected while it does, and starts a   *)
(* clean session each time.                                                *)
(*                                                                         *)
(* The map is written with no lock.  A write that meets the actor's range  *)
(* over it may be seen by the range, or not, or abort the process.         *)
(***************************************************************************)
EXTENDS Integers

CONSTANTS
    Topic,      \* one subscriber each
    MaxFails,   \* bound: attempts to connect that fail
    MaxDrops,   \* bound: connections lost
    MaxCalls    \* bound: calls of Subscribe per topic

ASSUME PubSubBounds == MaxFails \in Nat /\ MaxDrops \in Nat /\ MaxCalls \in Nat

VARIABLES
    actor,          \* how far the actor's Started has come
    client,         \* the client it holds
    subscriptions,  \* the topics in the map
    left,           \* topics the range has yet to come to
    caller,         \* how far the current call of Subscribe has come
    calls,          \* calls made
    subscribed,     \* topics the broker has for this client
    missed,         \* topics that were lost with a connection, and not renewed
    fails, drops

map     == <<subscriptions, left>>
callers == <<caller, calls>>
broker  == <<subscribed, missed>>
bounds  == <<fails, drops>>
mqttVars    == <<actor, client, map, callers, broker, bounds>>

Aborted == actor = "aborted"
Calling == {"stored", "subscribing"}

MqttTypeOK ==
    /\ actor \in {"new", "connecting", "connected", "ranging", "running",
                  "failed", "aborted"}
    /\ client \in {"nil", "off", "on", "reconnecting"}
    /\ subscriptions \subseteq Topic
    /\ left \subseteq subscriptions
    /\ caller \in [Topic -> {"idle", "ok", "error"} \cup Calling]
    /\ calls \in [Topic -> 0 .. MaxCalls]
    /\ subscribed \subseteq subscriptions
    /\ missed \subseteq subscriptions
    /\ fails \in 0 .. MaxFails
    /\ drops \in 0 .. MaxDrops

\* getInstance has just spawned the actor.
MqttInit ==
    /\ actor = "new" /\ client = "nil"
    /\ subscriptions = {} /\ left = {}
    /\ caller = [t \in Topic |-> "idle"]
    /\ calls = [t \in Topic |-> 0]
    /\ subscribed = {} /\ missed = {}
    /\ fails = 0 /\ drops = 0

\* A SUBSCRIBE succeeds only over an open connection; its error is dropped.
Subscribing(t) ==
    IF client = "on"
    THEN subscribed' = subscribed \cup {t} /\ missed' = missed \ {t}
    ELSE missed' = missed \cup {t} /\ UNCHANGED subscribed

\* A step that moves the actor from one stage of Started to the next.
Moves(from, to) == actor \in from /\ actor' = to

\* Started, also after a panic: a new client, which starts to connect.
Started ==
    /\ Moves({"new", "failed"}, "connecting")
    /\ client' = "off"
    /\ subscribed' = {} /\ missed' = {}
    /\ UNCHANGED <<map, callers, bounds>>

ConnectOK ==
    /\ Moves({"connecting"}, "connected")
    /\ client' = "on"
    /\ UNCHANGED <<map, callers, broker, bounds>>

\* An error, or no answer within 10 s: the actor sleeps and panics.
ConnectFails ==
    /\ Moves({"connecting"}, "failed")
    /\ fails < MaxFails /\ fails' = fails + 1
    /\ UNCHANGED <<client, map, callers, broker, drops>>

\* A client whose answer came too late is connected until it is replaced.
ConnectsLate ==
    /\ actor = "failed"
    /\ client = "off" /\ client' = "on"
    /\ UNCHANGED <<actor, map, callers, broker, bounds>>

\* The range over the map begins ...
ToNothing   == {}      \* mutant: what was stored before is not subscribed
ToSubscribe == subscriptions
RangeBegins ==
    /\ Moves({"connected"}, "ranging")
    /\ left' = ToSubscribe
    /\ UNCHANGED <<client, subscriptions, callers, broker, bounds>>

\* ... subscribes one topic after the other ...
RangeNext(t) ==
    /\ actor = "ranging"
    /\ t \in left /\ left' = left \ {t}
    /\ Subscribing(t)
    /\ UNCHANGED <<actor, client, subscriptions, callers, bounds>>

\* ... and ends.
RangeEnds ==
    /\ Moves({"ranging"}, "running")
    /\ left = {}
    /\ UNCHANGED <<client, map, callers, broker, bounds>>

(***************************************************************************)
(* The callers                                                             *)
(***************************************************************************)

Calls(t) ==
    /\ ~Aborted
    /\ caller[t] \notin Calling
    /\ calls[t] < MaxCalls
    /\ calls' = [calls EXCEPT ![t] = @ + 1]
    /\ caller' = [caller EXCEPT ![t] = "stored"]
    /\ UNCHANGED <<client, broker, bounds>>

\* Subscribe: first the map is written ...
Subscribe(t) ==
    /\ Calls(t)
    /\ subscriptions' = subscriptions \cup {t}
    /\ \/ UNCHANGED <<actor, left>>
       \/ actor = "ranging" /\ left' = left \cup {t} /\ UNCHANGED actor
       \/ actor = "ranging" /\ actor' = "aborted" /\ UNCHANGED left

\* ... then the connection is looked at ...
IsConnected == client \in {"on", "reconnecting"}
CheckConnected(t) ==
    /\ ~Aborted
    /\ caller[t] = "stored"
    /\ caller' = [caller EXCEPT ![t] = IF IsConnected THEN "subscribing"
                                                      ELSE "error"]
    /\ UNCHANGED <<actor, client, map, calls, broker, bounds>>

\* ... then the topic is subscribed.
SubscribeTopic(t) ==
    /\ ~Aborted
    /\ caller[t] = "subscribing"
    /\ caller' = [caller EXCEPT ![t] = "ok"]
    /\ Subscribing(t)
    /\ UNCHANGED <<actor, client, map, calls, bounds>>

(***************************************************************************)
(* The connection                                                          *)
(***************************************************************************)

Drop ==
    /\ client = "on" /\ client' = "reconnecting"
    /\ drops < MaxDrops /\ drops' = drops + 1
    /\ subscribed' = {}
    /\ missed' = missed \cup subscribed
    /\ UNCHANGED <<actor, map, callers, fails>>

\* A clean session, and no handler that would renew the subscriptions.
Reconnect ==
    /\ client = "reconnecting" /\ client' = "on"
    /\ UNCHANGED <<actor, map, callers, broker, bounds>>

-----------------------------------------------------------------------------

Receive == \/ Started \/ ConnectOK \/ ConnectFails \/ RangeBegins \/ RangeEnds
           \/ \E t \in Topic : RangeNext(t)

MqttNext == \/ Receive \/ ConnectsLate \/ Drop \/ Reconnect
        \/ \E t \in Topic : Subscribe(t) \/ CheckConnected(t) \/ SubscribeTopic(t)

MqttSpec == MqttInit /\ [][MqttNext]_mqttVars

\* The actor is scheduled, a connection is established in the end, a call of
\* Subscribe ends.
MqttFairness == /\ WF_mqttVars(Receive)
            /\ \A t \in Topic : WF_mqttVars(CheckConnected(t) \/ SubscribeTopic(t))

MqttFairSpec == MqttSpec /\ MqttFairness

-----------------------------------------------------------------------------
(***************************************************************************)
(* Properties                                                              *)
(***************************************************************************)

\* Once the actor runs, a topic whose Subscribe has returned, with nil or with
\* an error, is subscribed, or was lost with a connection: the map is written
\* before the connection is looked at, and Started reads the map after it has
\* connected, so that one of the two sees the other.
NoneFallsBetween ==
    actor = "running" =>
        \A t \in subscriptions :
            caller[t] \notin Calling => t \in subscribed \cup missed

\* The error "pubsub is not connected" (pubsub.go:78) is no loss: the topic is
\* subscribed in the end all the same, if the connection lasts.
ErrorIsRepaired ==
    \A t \in Topic :
        caller[t] = "error" ~> t \in subscribed \/ drops > 0 \/ Aborted
=============================================================================
