----------------------------- MODULE Subscribers -----------------------------
(***************************************************************************)
(* Who is told about the link.  The nats actor publishes every change of   *)
(* its status on an event stream and sends it to its parent, the app       *)
(* actor, which sends it on to its own parent, the consumer.  Others       *)
(* subscribe to the event stream (MsgSubscribe) or ask (MsgRequeststatus). *)
(*                                                                         *)
(* MsgSubscribe forgets the subscription a subscriber had, but does not    *)
(* end it.  A restart makes a new event stream, of which only those hear   *)
(* who subscribe again.                                                    *)
(*                                                                         *)
(* NatsLink says when the link changes: here it changes at any time.       *)
(***************************************************************************)
EXTENDS Naturals, Sequences

CONSTANTS
    Listener,       \* actors that subscribe
    MaxStatus       \* bound: changes of the link, and subscriptions

ASSUME StatusBound == MaxStatus \in Nat

VARIABLES
    linkHeld,       \* a.pidNats is not nil
    linkUp,         \* a.connected
    evs,            \* a.evs: per listener, its subscriptions
    subscriptors,   \* a.subscriptors: who is remembered
    told,           \* statuses on their way to the app actor
    consumer,       \* the last StatusSch the consumer was sent, or "unknown"
    asked,          \* per listener, the last answer to MsgRequeststatus
    changes,        \* history: changes of status published
    published,      \* history: the last of them, or "unknown"
    heardOf,        \* history: per listener, copies of the last change it got
    askedFor        \* history: per listener, subscriptions to this stream

subsVars == <<linkHeld, linkUp, evs, subscriptors, told, consumer, asked,
              changes, published, heardOf, askedFor>>

Status == {"up", "down"}
StatusOrNot == Status \cup {"unknown"}

SubsTypeOK ==
    /\ linkHeld \in BOOLEAN /\ linkUp \in BOOLEAN
    /\ evs \in [Listener -> 0 .. MaxStatus]
    /\ subscriptors \subseteq Listener
    /\ told \in Seq(Status)
    /\ consumer \in StatusOrNot
    /\ asked \in [Listener -> StatusOrNot]
    /\ changes \in 0 .. MaxStatus
    /\ published \in StatusOrNot
    /\ heardOf \in [Listener -> 0 .. MaxStatus]
    /\ askedFor \in [Listener -> 0 .. MaxStatus]

SubsInit ==
    /\ linkHeld = FALSE /\ linkUp = FALSE
    /\ evs = [w \in Listener |-> 0]
    /\ subscriptors = {}
    /\ told = <<>>
    /\ consumer = "unknown"
    /\ asked = [w \in Listener |-> "unknown"]
    /\ changes = 0
    /\ published = "unknown"
    /\ heardOf = [w \in Listener |-> 0]
    /\ askedFor = [w \in Listener |-> 0]

\* evs.Publish calls every subscription, then the parent is sent the same.
Publishes(s) ==
    /\ changes < MaxStatus
    /\ changes' = changes + 1
    /\ published' = s
    /\ heardOf' = evs
    /\ told' = Append(told, s)
    /\ UNCHANGED <<evs, subscriptors, consumer, asked, askedFor>>

\* A tick spawns a client.
LinkSpawned ==
    /\ ~linkHeld
    /\ linkHeld' = TRUE
    /\ UNCHANGED <<linkUp, evs, subscriptors, told, consumer, asked, changes,
                   published, heardOf, askedFor>>

\* Connected may come from a client that was let go meanwhile.
LinkConnected ==
    /\ linkUp' = TRUE
    /\ Publishes("up")
    /\ UNCHANGED linkHeld

LinkDisconnected ==
    /\ linkUp' = FALSE
    /\ Publishes("down")
    /\ UNCHANGED linkHeld

StaysUp == linkUp' = linkUp                     \* mutant: only the pid is cleared
GoesDown == linkUp' = FALSE

LinkTerminated ==
    /\ linkHeld
    /\ linkHeld' = FALSE
    /\ GoesDown
    /\ Publishes("down")

\* Stopping and Started: what is in a field stays, the stream is a new one.
NewStream  == evs' = [w \in Listener |-> 0]

LinkRestarts ==
    /\ NewStream
    /\ subscriptors' = {}
    /\ askedFor' = [w \in Listener |-> 0]
    /\ heardOf' = [w \in Listener |-> 0]
    /\ UNCHANGED <<linkHeld, linkUp, told, consumer, asked, changes, published>>

\* A second subscription is made beside the first.
MsgSubscribe(w) ==
    /\ askedFor[w] < MaxStatus /\ evs[w] < MaxStatus
    /\ evs' = [evs EXCEPT ![w] = @ + 1]
    /\ subscriptors' = subscriptors \cup {w}
    /\ askedFor' = [askedFor EXCEPT ![w] = @ + 1]
    /\ heardOf' = [heardOf EXCEPT ![w] = 0]
    /\ UNCHANGED <<linkHeld, linkUp, told, consumer, asked, changes, published>>

MsgRequeststatus(w) ==
    /\ asked' = [asked EXCEPT ![w] = IF linkUp /\ linkHeld THEN "up" ELSE "down"]
    /\ UNCHANGED <<linkHeld, linkUp, evs, subscriptors, told, consumer, changes,
                   published, heardOf, askedFor>>

\* The app actor: nats.MsgStatus becomes services.StatusSch.
OnlyUp(s) == IF s = "up" THEN s ELSE consumer   \* mutant: a loss is not told
StatusSch(s) == s

MsgStatus ==
    /\ told # <<>>
    /\ told' = Tail(told)
    /\ consumer' = StatusSch(Head(told))
    /\ UNCHANGED <<linkHeld, linkUp, evs, subscriptors, asked, changes, published,
                   heardOf, askedFor>>

SubsNext ==
    \/ LinkSpawned \/ LinkConnected \/ LinkDisconnected \/ LinkTerminated
    \/ LinkRestarts
    \/ \E w \in Listener : MsgSubscribe(w) \/ MsgRequeststatus(w)
    \/ MsgStatus

SubsSpec == SubsInit /\ [][SubsNext]_subsVars

-----------------------------------------------------------------------------

\* When every status has been sent on, the consumer has the last published one,
\* and nobody who asks is told that the link is up while the consumer was told
\* that it is down.  A listener hears each event of its stream as often as it
\* has asked for that stream: its earlier subscriptions are forgotten but not
\* ended (nats/actor.go:393), and those of before a restart are silent.
StatusReaches ==
    /\ told = <<>> /\ published # "unknown" =>
          /\ consumer = published
          /\ linkUp /\ linkHeld => consumer = "up"
    /\ \A w \in Listener :
          /\ heardOf[w] \in {0, askedFor[w]}
          /\ w \in subscriptors <=> evs[w] > 0
=============================================================================
