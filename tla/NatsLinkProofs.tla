--------------------------- MODULE NatsLinkProofs ---------------------------
(***************************************************************************)
(* Proofs of NatsLink's safety properties for any set of addresses and any *)
(* bounds.  Type correctness comes first; HeldClientWatched is inductive   *)
(* relative to it; WatchNeverForgotten needs both, and that no Terminated  *)
(* is a dead letter before the actor has been stopped once.                *)
(***************************************************************************)
EXTENDS NatsLink, TLAPS

USE AddrAssumption, BoundsAssumption

-----------------------------------------------------------------------------
\* Mailboxes

LEMMA ClientFacts == Client \subseteq Nat /\ NoPid \notin Client
BY DEF Client, NoPid

\* What a handler or a sender posts is a mailbox of messages.
LEMMA MessageFacts ==
    /\ <<>> \in Seq(Message)
    /\ <<Tick>> \in Seq(Message) /\ <<Watch>> \in Seq(Message)
    /\ Tick \in Message
    /\ \A a \in Addr : [type |-> "DiscoveryResponse", addr |-> a] \in Message
    /\ [type |-> "Connected"] \in Message
    /\ [type |-> "Disconnected"] \in Message
BY DEF Tick, Watch, Message

\* A handler leaves a mailbox behind.
LEMMA HandleType ==
    ASSUME TypeOK, NEW type, NEW more \in Seq(Message), Handle(type, more)
    PROVE  inbox' \in Seq(Message)
<1>1. inbox \in Seq(Message) /\ inbox # <<>>  BY DEF TypeOK, Handle
<1>2. Tail(inbox) \in Seq(Message)  BY <1>1
<1>3. QED  BY <1>2 DEF Handle

\* A message outlives the handling of a message of another type.
LEMMA HandleKeeps ==
    ASSUME TypeOK, NEW type, NEW more \in Seq(Message), Handle(type, more),
           NEW t, t # type, Has(t)
    PROVE  Has(t)'
<1>1. inbox \in Seq(Message) /\ inbox # <<>> /\ inbox' = Tail(inbox) \o more
  BY DEF TypeOK, Handle
<1>2. PICK i \in DOMAIN inbox : inbox[i].type = t  BY DEF Has
<1>3. i # 1 /\ i \in 2 .. Len(inbox)  BY <1>1, <1>2 DEF Handle
<1>4. Tail(inbox) \in Seq(Message) /\ Len(Tail(inbox)) = Len(inbox) - 1
      /\ Tail(inbox)[i - 1] = inbox[i]
  BY <1>1, <1>3
<1>5. i - 1 \in DOMAIN inbox' /\ inbox'[i - 1] = inbox[i]
  BY <1>1, <1>3, <1>4
<1>6. QED  BY <1>2, <1>5 DEF Has

\* A message outlives a message that is appended.
LEMMA AppendKeeps ==
    ASSUME TypeOK, NEW m \in Message, inbox' = Append(inbox, m), NEW t, Has(t)
    PROVE  Has(t)'
<1>1. PICK i \in DOMAIN inbox : inbox[i].type = t  BY DEF Has
<1>2. i \in DOMAIN inbox' /\ inbox'[i] = inbox[i]  BY <1>1 DEF TypeOK
<1>3. QED  BY <1>1, <1>2 DEF Has

\* What a client sends joins the mailbox and drops nothing from it.
LEMMA SendsFacts ==
    ASSUME TypeOK, NEW msgs \in Seq(Message), Sends(msgs)
    PROVE  /\ inbox' \in Seq(Message)
           /\ \A t : Has(t) => Has(t)'
<1>1. inbox \in Seq(Message)  BY DEF TypeOK
<1>2. inbox' \in Seq(Message)  BY <1>1 DEF Sends
<1>3. ASSUME NEW t, Has(t)  PROVE Has(t)'
  <2>1. PICK i \in DOMAIN inbox : inbox[i].type = t  BY <1>3 DEF Has
  <2>2. i \in DOMAIN inbox' /\ inbox'[i] = inbox[i]  BY <1>1, <2>1 DEF Sends
  <2>3. QED  BY <2>1, <2>2 DEF Has
<1>4. QED  BY <1>2, <1>3

-----------------------------------------------------------------------------
\* Type correctness

\* A death changes only what is sent to the dying and who watches whom.
LEMMA DieType ==
    ASSUME TypeOK, NEW dying \in SUBSET Client, Die(dying)
    PROVE  /\ client' \in [Client -> {"unborn", "down", "up", "dead"}]
           /\ term' \subseteq Client /\ deathwatch' \subseteq Client
           /\ watching' \subseteq Client
           /\ toClient' \subseteq ({"watch", "status"} \X Client)
BY DEF TypeOK, Die

LEMMA TypeInit == Init => TypeOK
<1>1. 0 \in 0 .. MaxFaults /\ 0 \in 0 .. MaxFlaps /\ 0 \in 0 .. MaxAppRestarts
  OBVIOUS
<1>2. QED  BY <1>1, MessageFacts DEF Init, TypeOK

LEMMA TypeStep == TypeOK /\ [Next]_vars => TypeOK'
<1> SUFFICES ASSUME TypeOK, [Next]_vars PROVE TypeOK'
  OBVIOUS
<1> USE DEF own, bus, gateway, bounds
<1>f. ASSUME Fault PROVE faults' \in 0 .. MaxFaults
  BY <1>f DEF Fault, TypeOK
<1>1. CASE TickFires
  BY <1>1, MessageFacts DEF TickFires, TypeOK
<1>2. CASE Discover
  <2>1. inbox' \in Seq(Message)  BY <1>2, HandleType, MessageFacts DEF Discover
  <2>2. QED  BY <1>2, <2>1 DEF Discover, TypeOK
<1>3. CASE SpawnOK
  <2>1. inbox' \in Seq(Message)
    BY <1>3, HandleType, MessageFacts DEF SpawnOK, AfterSpawn
  <2>2. QED  BY <1>3, <2>1 DEF SpawnOK, WithWatch, Born, TypeOK
<1>4. CASE SpawnFails
  <2>1. inbox' \in Seq(Message)  BY <1>4, HandleType, MessageFacts DEF SpawnFails
  <2>2. faults' \in 0 .. MaxFaults  BY <1>4, <1>f DEF SpawnFails, TypeOK
  <2>3. client' \in [Client -> {"unborn", "down", "up", "dead"}]
    BY <1>4 DEF SpawnFails, Born, TypeOK
  <2>4. QED
    BY <1>4, <2>1, <2>2, <2>3 DEF SpawnFails, AddressOnFailure, TypeOK
<1>5. CASE Poll
  <2>1. inbox' \in Seq(Message)  BY <1>5, HandleType, MessageFacts DEF Poll
  <2>2. QED  BY <1>5, <2>1 DEF Poll, TypeOK
<1>6. CASE Idle
  <2>1. inbox' \in Seq(Message)  BY <1>6, HandleType, MessageFacts DEF Idle
  <2>2. QED  BY <1>6, <2>1 DEF Idle, TypeOK
<1>7. CASE WatchKeyValue
  <2>1. inbox' \in Seq(Message)  BY <1>7, HandleType, MessageFacts DEF WatchKeyValue
  <2>2. QED  BY <1>7, <2>1 DEF WatchKeyValue, TypeOK
<1>8. CASE Connected
  <2>1. (IF pidNats = NoPid THEN <<>> ELSE <<Watch>>) \in Seq(Message)
    BY MessageFacts
  <2>2. inbox' \in Seq(Message)  BY <1>8, <2>1, HandleType DEF Connected
  <2>3. QED  BY <1>8, <2>2 DEF Connected, TypeOK
<1>9. CASE Disconnected
  <2>1. inbox' \in Seq(Message)  BY <1>9, HandleType, MessageFacts DEF Disconnected
  <2>2. QED  BY <1>9, <2>1 DEF Disconnected, TypeOK
<1>10. CASE DiscoveryResponse
  <2>1. inbox' \in Seq(Message)
    BY <1>10, HandleType, MessageFacts DEF DiscoveryResponse, TickToSelf
  <2>2. Head(inbox) \in Message /\ Head(inbox).type = "DiscoveryResponse"
    BY <1>10 DEF DiscoveryResponse, Handle, TypeOK
  <2>3. Head(inbox).addr \in Addr  BY <2>2 DEF Message
  <2>4. QED  BY <1>10, <2>1, <2>3 DEF DiscoveryResponse, TypeOK
<1>11. CASE Stopping
  <2>0. restarts' \in 0 .. MaxAppRestarts
    BY <1>11 DEF Stopping, TypeOK
  <2>1. CASE Die({c \in Client : c = pidNats /\ Alive(c)}) /\ UNCHANGED faults
    BY <1>11, <2>1, <2>0, DieType DEF Stopping, TypeOK
  <2>2. CASE /\ pidNats # NoPid
             /\ Fault
             /\ UNCHANGED <<client, term, deathwatch, watching, toClient>>
    BY <1>11, <2>2, <2>0, <1>f DEF Stopping, TypeOK
  <2>3. QED  BY <1>11, <2>1, <2>2 DEF Stopping
<1>12. CASE Stopped
  BY <1>12 DEF Stopped, TypeOK
<1>13. CASE StartedAgain
  BY <1>13 DEF StartedAgain, TypeOK
<1>14. ASSUME NEW c \in Client, Terminated(c) PROVE TypeOK'
  BY <1>14 DEF Terminated, LetGo, TypeOK
<1>15. ASSUME NEW c \in Client, TerminatedLost(c) PROVE TypeOK'
  BY <1>15 DEF TerminatedLost, TypeOK
<1>16. CASE GatewayAnswers
  BY <1>16 DEF GatewayAnswers, TypeOK
<1>17. CASE BusLoses
  BY <1>17, <1>f DEF BusLoses, TypeOK
<1>18. CASE HostStarts
  BY <1>18 DEF HostStarts, TypeOK
<1>19. CASE HostDies
  <2>1. Die({c \in Client : Alive(c)})  BY <1>19 DEF HostDies
  <2>2. QED  BY <1>19, <2>1, <1>f, DieType DEF HostDies, TypeOK
<1>20. ASSUME NEW a \in Addr, AnswerArrives(a) PROVE TypeOK'
  BY <1>20, MessageFacts DEF AnswerArrives, TypeOK
<1>21. ASSUME NEW c \in Client, ClientDies(c) PROVE TypeOK'
  <2>1. Die({c}) /\ {c} \in SUBSET Client  BY <1>21 DEF ClientDies
  <2>2. QED  BY <1>21, <2>1, <1>f, DieType DEF ClientDies, TypeOK
<1>22. ASSUME NEW c \in Client, EndpointLost(c) PROVE TypeOK'
  BY <1>22, <1>f DEF EndpointLost, TypeOK
<1>23. ASSUME NEW c \in Client, ClientUp(c) PROVE TypeOK'
  <2>1. (IF c \in watching THEN <<[type |-> "Connected"]>> ELSE <<>>)
          \in Seq(Message)
    BY MessageFacts
  <2>2. inbox' \in Seq(Message)  BY <1>23, <2>1, SendsFacts DEF ClientUp
  <2>3. QED  BY <1>23, <2>2 DEF ClientUp, TypeOK
<1>24. ASSUME NEW c \in Client, ClientDown(c) PROVE TypeOK'
  <2>1. (IF c \in watching THEN <<[type |-> "Disconnected"]>> ELSE <<>>)
          \in Seq(Message)
    BY MessageFacts
  <2>2. inbox' \in Seq(Message)  BY <1>24, <2>1, SendsFacts DEF ClientDown
  <2>3. flaps' \in 0 .. MaxFlaps  BY <1>24 DEF ClientDown, TypeOK
  <2>4. QED  BY <1>24, <2>2, <2>3 DEF ClientDown, TypeOK
<1>25. ASSUME NEW c \in Client, ClientReceives(c) PROVE TypeOK'
  <2>1. <<[type |-> IF client[c] = "up" THEN "Connected" ELSE "Disconnected"]>>
          \in Seq(Message)
    BY MessageFacts
  <2>2. inbox' \in Seq(Message)
    BY <1>25, <2>1, SendsFacts DEF ClientReceives, TypeOK
  <2>3. QED  BY <1>25, <2>2 DEF ClientReceives, TypeOK
<1>26. CASE UNCHANGED vars
  BY <1>26 DEF vars, TypeOK
<1>27. QED
  BY <1>1, <1>2, <1>3, <1>4, <1>5, <1>6, <1>7, <1>8, <1>9, <1>10, <1>11, <1>12,
     <1>13, <1>14, <1>15, <1>16, <1>17, <1>18, <1>19, <1>20, <1>21, <1>22,
     <1>23, <1>24, <1>25, <1>26
  DEF Next, Receive, Environment

\* Every reachable state of the link is well typed.
THEOREM TypeCorrect == Spec => []TypeOK
<1>1. Init => TypeOK  BY TypeInit
<1>2. TypeOK /\ [Next]_vars => TypeOK'  BY TypeStep
<1>3. QED  BY <1>1, <1>2, PTL DEF Spec

-----------------------------------------------------------------------------
\* Held clients

\* A death leaves the held client watched, or announced.
LEMMA DieKeepsHeld ==
    ASSUME TypeOK, HeldClientWatched, NEW dying \in SUBSET Client, Die(dying),
           UNCHANGED <<pidNats, deadLetters>>
    PROVE  HeldClientWatched'
BY ClientFacts DEF TypeOK, HeldClientWatched, Die, Alive

LEMMA HeldStep ==
    TypeOK /\ HeldClientWatched /\ [Next]_vars => HeldClientWatched'
<1> SUFFICES ASSUME TypeOK, HeldClientWatched, [Next]_vars
             PROVE  HeldClientWatched'
  OBVIOUS
<1> USE ClientFacts DEF own, bus, gateway, bounds
<1>1. CASE UNCHANGED <<pidNats, client, term, deathwatch, deadLetters>>
  BY <1>1 DEF HeldClientWatched, Alive
<1>2. CASE SpawnOK
  <2>1. PICK c \in Client : /\ Spawned(c)
                            /\ client' = Born(c)
                            /\ pidNats' = c
                            /\ deathwatch' = WithWatch(c)
    BY <1>2 DEF SpawnOK
  <2>2. Alive(c)'  BY <2>1 DEF Spawned, Born, Alive, TypeOK
  <2>3. QED  BY <2>1, <2>2 DEF HeldClientWatched, WithWatch
<1>3. CASE SpawnFails
  BY <1>3 DEF SpawnFails, HeldClientWatched
<1>4. ASSUME NEW c \in Client, Terminated(c) PROVE HeldClientWatched'
  BY <1>4 DEF Terminated, LetGo, HeldClientWatched
<1>5. ASSUME NEW c \in Client, TerminatedLost(c) PROVE HeldClientWatched'
  BY <1>5 DEF TerminatedLost, HeldClientWatched, Alive
<1>6. CASE Stopping
  <2>1. CASE Die({c \in Client : c = pidNats /\ Alive(c)})
    BY <1>6, <2>1, DieKeepsHeld DEF Stopping
  <2>2. CASE UNCHANGED <<client, term, deathwatch, watching, toClient>>
    BY <1>6, <2>2 DEF Stopping, HeldClientWatched, Alive
  <2>3. QED  BY <1>6, <2>1, <2>2 DEF Stopping
<1>7. CASE HostDies
  BY <1>7, DieKeepsHeld DEF HostDies
<1>8. ASSUME NEW c \in Client, ClientDies(c) PROVE HeldClientWatched'
  <2>1. Die({c}) /\ {c} \in SUBSET Client  BY <1>8 DEF ClientDies
  <2>2. QED  BY <1>8, <2>1, DieKeepsHeld DEF ClientDies
<1>9. ASSUME NEW c \in Client, EndpointLost(c) PROVE HeldClientWatched'
  BY <1>9 DEF EndpointLost, HeldClientWatched, Alive
<1>10. ASSUME NEW c \in Client, ClientUp(c) \/ ClientDown(c)
       PROVE HeldClientWatched'
  BY <1>10 DEF ClientUp, ClientDown, HeldClientWatched, Alive, TypeOK
<1>11. CASE \/ TickFires \/ Discover \/ Poll \/ Idle \/ WatchKeyValue
           \/ Connected \/ Disconnected \/ DiscoveryResponse
  BY <1>1, <1>11 DEF TickFires, Discover, Poll, Idle, WatchKeyValue, Connected,
     Disconnected, DiscoveryResponse
<1>12. CASE Stopped \/ StartedAgain \/ GatewayAnswers \/ BusLoses \/ HostStarts
  BY <1>1, <1>12 DEF Stopped, StartedAgain, GatewayAnswers, BusLoses, HostStarts
<1>13. ASSUME NEW a \in Addr, AnswerArrives(a) PROVE HeldClientWatched'
  BY <1>1, <1>13 DEF AnswerArrives
<1>14. ASSUME NEW c \in Client, ClientReceives(c) PROVE HeldClientWatched'
  BY <1>1, <1>14 DEF ClientReceives
<1>15. CASE UNCHANGED vars
  BY <1>1, <1>15 DEF vars
<1>16. QED
  BY <1>2, <1>3, <1>4, <1>5, <1>6, <1>7, <1>8, <1>9, <1>10, <1>11, <1>12,
     <1>13, <1>14, <1>15
  DEF Next, Receive, Environment

\* The actor never holds a dead client that nothing will make it let go of,
\* but for a Terminated lost while its parent restarted it.
THEOREM HeldClientIsWatched == Spec => []HeldClientWatched
<1>1. Init => HeldClientWatched  BY DEF Init, HeldClientWatched
<1>2. TypeOK /\ HeldClientWatched /\ [Next]_vars => HeldClientWatched'
  BY HeldStep
<1>3. QED  BY <1>1, <1>2, TypeCorrect, PTL DEF Spec

-----------------------------------------------------------------------------
\* Forgotten watches

\* No Terminated is lost before the actor has been stopped once.
DeadLettersAfterStop ==
    restarts = 0 => phase = "running" /\ deadLetters = {}

LinkInv == TypeOK /\ HeldClientWatched /\ DeadLettersAfterStop
                  /\ WatchNeverForgotten

LEMMA DeadLettersStep ==
    TypeOK /\ DeadLettersAfterStop /\ [Next]_vars => DeadLettersAfterStop'
<1> SUFFICES ASSUME TypeOK, DeadLettersAfterStop, [Next]_vars
             PROVE  DeadLettersAfterStop'
  OBVIOUS
<1> USE DEF own, bus, gateway, bounds
<1>1. CASE UNCHANGED <<phase, restarts, deadLetters>>
  BY <1>1 DEF DeadLettersAfterStop
<1>2. CASE Stopping
  BY <1>2 DEF Stopping, DeadLettersAfterStop, TypeOK
<1>3. CASE Stopped \/ StartedAgain
  BY <1>3 DEF Stopped, StartedAgain, DeadLettersAfterStop
<1>4. ASSUME NEW c \in Client, TerminatedLost(c) PROVE DeadLettersAfterStop'
  BY <1>4 DEF TerminatedLost, DeadLettersAfterStop
<1>5. CASE TickFires \/ Receive
  BY <1>1, <1>5 DEF TickFires, Receive, Discover, SpawnOK, SpawnFails, Poll,
     Idle, WatchKeyValue, Connected, Disconnected, DiscoveryResponse
<1>6. ASSUME NEW c \in Client, Terminated(c) PROVE DeadLettersAfterStop'
  BY <1>1, <1>6 DEF Terminated
<1>7. CASE Environment
  BY <1>1, <1>7 DEF Environment, GatewayAnswers, BusLoses, HostStarts,
     HostDies, AnswerArrives, ClientDies, EndpointLost, ClientUp, ClientDown,
     ClientReceives
<1>8. CASE UNCHANGED vars
  BY <1>1, <1>8 DEF vars
<1>9. QED  BY <1>2, <1>3, <1>4, <1>5, <1>6, <1>7, <1>8 DEF Next

\* A death takes the watch of the held client only if it is announced.
LEMMA DieKeepsWatch ==
    ASSUME LinkInv, NEW dying \in SUBSET Client, Die(dying), restarts = 0,
           UNCHANGED <<pidNats, inbox>>
    PROVE  WatchNeverForgotten'
<1> SUFFICES ASSUME pidNats # NoPid
             PROVE  \/ pidNats \in watching'
                    \/ <<"watch", pidNats>> \in toClient'
                    \/ Has("WatchKeyValue")
                    \/ pidNats \in term'
  BY DEF WatchNeverForgotten, Has
<1>1. \/ pidNats \in watching
      \/ <<"watch", pidNats>> \in toClient
      \/ Has("WatchKeyValue")
      \/ pidNats \in term
  BY DEF LinkInv, WatchNeverForgotten
<1>2. pidNats \in deathwatch \/ pidNats \in term
  BY DEF LinkInv, HeldClientWatched, DeadLettersAfterStop
<1>3. CASE pidNats \in dying
  BY <1>2, <1>3 DEF Die
<1>4. CASE pidNats \notin dying
  <2>1. <<"watch", pidNats>>[2] = pidNats  OBVIOUS
  <2>2. QED  BY <1>1, <1>4, <2>1 DEF Die
<1>5. QED  BY <1>3, <1>4

LEMMA WatchStep == LinkInv /\ [Next]_vars => WatchNeverForgotten'
<1> SUFFICES ASSUME LinkInv, [Next]_vars, restarts' = 0
             PROVE  WatchNeverForgotten'
  BY DEF WatchNeverForgotten
<1>0. TypeOK /\ WatchNeverForgotten  BY DEF LinkInv
<1> USE DEF own, bus, gateway, bounds
<1>same. CASE UNCHANGED <<pidNats, watching, toClient, inbox, term, restarts>>
  BY <1>0, <1>same DEF WatchNeverForgotten, Has
<1>kept. ASSUME Has("WatchKeyValue") => Has("WatchKeyValue")',
                UNCHANGED <<pidNats, watching, term, restarts>>,
                toClient \subseteq toClient'
         PROVE  WatchNeverForgotten'
  BY <1>0, <1>kept DEF WatchNeverForgotten
<1>1. CASE TickFires
  <2>1. Has("WatchKeyValue") => Has("WatchKeyValue")'
    BY <1>0, <1>1, AppendKeeps, MessageFacts DEF TickFires
  <2>2. QED  BY <1>1, <1>kept, <2>1 DEF TickFires
<1>2. ASSUME NEW type, NEW more \in Seq(Message), Handle(type, more),
             type # "WatchKeyValue"
      PROVE  Has("WatchKeyValue") => Has("WatchKeyValue")'
  BY <1>0, <1>2, HandleKeeps
<1>3. CASE Discover \/ Poll \/ Idle \/ Disconnected
  <2>1. \E type \in {"tickmsg", "Disconnected"} : Handle(type, <<>>)
    BY <1>3 DEF Discover, Poll, Idle, Disconnected
  <2>2. Has("WatchKeyValue") => Has("WatchKeyValue")'
    BY <2>1, <1>2, MessageFacts
  <2>3. QED
    BY <1>3, <1>kept, <2>2 DEF Discover, Poll, Idle, Disconnected
<1>4. CASE SpawnOK
  <2>1. /\ inbox \in Seq(Message)
        /\ inbox # <<>>
        /\ inbox' = Tail(inbox) \o <<Watch>>
    BY <1>0, <1>4 DEF SpawnOK, Handle, AfterSpawn, TypeOK
  <2>2. Tail(inbox) \in Seq(Message)  BY <2>1
  <2>3. Len(inbox') \in DOMAIN inbox' /\ inbox'[Len(inbox')] = Watch
    BY <2>1, <2>2, MessageFacts
  <2>4. Has("WatchKeyValue")'  BY <2>3 DEF Has, Watch
  <2>5. QED  BY <2>4 DEF WatchNeverForgotten
<1>5. CASE SpawnFails
  BY <1>5 DEF SpawnFails, WatchNeverForgotten
<1>6. CASE WatchKeyValue
  BY <1>0, <1>6 DEF WatchKeyValue, WatchNeverForgotten
<1>7. CASE Connected
  <2>1. (IF pidNats = NoPid THEN <<>> ELSE <<Watch>>) \in Seq(Message)
    BY MessageFacts
  <2>2. Has("WatchKeyValue") => Has("WatchKeyValue")'
    BY <1>2, <1>7, <2>1 DEF Connected
  <2>3. QED  BY <1>7, <1>kept, <2>2 DEF Connected
<1>8. CASE DiscoveryResponse
  <2>1. Has("WatchKeyValue") => Has("WatchKeyValue")'
    BY <1>2, <1>8, MessageFacts DEF DiscoveryResponse, TickToSelf
  <2>2. QED  BY <1>8, <1>kept, <2>1 DEF DiscoveryResponse
<1>9. CASE Stopping
  BY <1>9 DEF Stopping, LinkInv, TypeOK
<1>10. CASE Stopped \/ StartedAgain
  BY <1>10 DEF Stopped, StartedAgain, LinkInv, DeadLettersAfterStop
<1>11. ASSUME NEW c \in Client, Terminated(c) PROVE WatchNeverForgotten'
  <2>1. pidNats' = NoPid  BY <1>11 DEF Terminated, LetGo
  <2>2. QED  BY <2>1 DEF WatchNeverForgotten
<1>12. ASSUME NEW c \in Client, TerminatedLost(c) PROVE WatchNeverForgotten'
  BY <1>12 DEF TerminatedLost, LinkInv, DeadLettersAfterStop
<1>13. CASE GatewayAnswers \/ BusLoses \/ HostStarts
  BY <1>same, <1>13 DEF GatewayAnswers, BusLoses, HostStarts
<1>14. CASE HostDies
  BY <1>14, DieKeepsWatch DEF HostDies
<1>15. ASSUME NEW a \in Addr, AnswerArrives(a) PROVE WatchNeverForgotten'
  <2>1. Has("WatchKeyValue") => Has("WatchKeyValue")'
    BY <1>0, <1>15, AppendKeeps, MessageFacts DEF AnswerArrives
  <2>2. QED  BY <1>15, <1>kept, <2>1 DEF AnswerArrives
<1>16. ASSUME NEW c \in Client, ClientDies(c) PROVE WatchNeverForgotten'
  <2>1. Die({c}) /\ {c} \in SUBSET Client  BY <1>16 DEF ClientDies
  <2>2. QED  BY <1>16, <2>1, DieKeepsWatch DEF ClientDies
<1>17. ASSUME NEW c \in Client, EndpointLost(c) PROVE WatchNeverForgotten'
  <2>1. <<"watch", pidNats>>[2] = pidNats  OBVIOUS
  <2>2. QED
    BY <1>0, <1>17, <2>1 DEF EndpointLost, WatchNeverForgotten, Has
<1>18. ASSUME NEW c \in Client, ClientUp(c) \/ ClientDown(c)
       PROVE  WatchNeverForgotten'
  <2>0. ASSUME NEW m \in Message
        PROVE  (IF c \in watching THEN <<m>> ELSE <<>>) \in Seq(Message)
    BY MessageFacts
  <2>1. PICK msgs \in Seq(Message) : Sends(msgs)
    <3>1. CASE ClientUp(c)
      BY <2>0, <3>1, MessageFacts DEF ClientUp
    <3>2. CASE ClientDown(c)
      BY <2>0, <3>2, MessageFacts DEF ClientDown
    <3>3. QED  BY <1>18, <3>1, <3>2
  <2>2. QED
    BY <1>0, <1>18, <1>kept, <2>1, SendsFacts DEF ClientUp, ClientDown
<1>19. ASSUME NEW c \in Client, ClientReceives(c) PROVE WatchNeverForgotten'
  <2>1. CASE inbox' = inbox /\ toClient' = toClient \ {<<"watch", c>>}
             /\ watching' = watching \cup {c}
    <3>1. <<"watch", pidNats>> = <<"watch", c>> => pidNats = c  OBVIOUS
    <3>2. QED
      BY <1>0, <1>19, <2>1, <3>1
      DEF ClientReceives, WatchNeverForgotten, Has
  <2>2. ASSUME NEW msgs \in Seq(Message), Sends(msgs), UNCHANGED watching,
               toClient' = toClient \ {<<"status", c>>}
        PROVE  WatchNeverForgotten'
    <3>1. <<"watch", pidNats>> # <<"status", c>>  OBVIOUS
    <3>2. Has("WatchKeyValue") => Has("WatchKeyValue")'
      BY <1>0, <2>2, SendsFacts
    <3>3. QED
      BY <1>0, <1>19, <2>2, <3>1, <3>2 DEF ClientReceives, WatchNeverForgotten
  <2>3. <<[type |-> IF client[c] = "up" THEN "Connected" ELSE "Disconnected"]>>
          \in Seq(Message)
    BY MessageFacts
  <2>4. QED  BY <1>19, <2>1, <2>2, <2>3 DEF ClientReceives
<1>20. CASE UNCHANGED vars
  BY <1>same, <1>20 DEF vars
<1>21. QED
  BY <1>1, <1>3, <1>4, <1>5, <1>6, <1>7, <1>8, <1>9, <1>10, <1>11, <1>12,
     <1>13, <1>14, <1>15, <1>16, <1>17, <1>18, <1>19, <1>20
  DEF Next, Receive, Environment

\* Before the first restart the actor never holds a client that does not feed
\* it and is not about to be asked to, or to be let go.
THEOREM WatchIsNeverForgotten == Spec => []WatchNeverForgotten
<1>1. Init => LinkInv
  BY TypeInit DEF Init, LinkInv, HeldClientWatched, DeadLettersAfterStop,
     WatchNeverForgotten
<1>2. LinkInv /\ [Next]_vars => LinkInv'
  BY TypeStep, HeldStep, DeadLettersStep, WatchStep DEF LinkInv
<1>3. LinkInv => WatchNeverForgotten  BY DEF LinkInv
<1>4. QED  BY <1>1, <1>2, <1>3, PTL DEF Spec

-----------------------------------------------------------------------------
\* Reporting

\* Whoever held a client and no longer does has reported the loss.
THEOREM LossIsAlwaysReported == Spec => LossIsReported
<1> DEFINE A == pidNats # NoPid /\ pidNats' # pidNats
                  => pidNats' = NoPid /\ ~connected' /\ told' = "down"
<1>1. [Next]_vars => [A]_vars
  <2> SUFFICES ASSUME Next PROVE A
    BY DEF vars
  <2> USE DEF own
  <2>1. ASSUME NEW c \in Client, Terminated(c) PROVE A
    BY <2>1 DEF Terminated, LetGo
  <2>2. CASE SpawnOK
    BY <2>2 DEF SpawnOK
  <2>3. CASE UNCHANGED pidNats
    BY <2>3
  <2>4. QED
    BY <2>1, <2>2, <2>3 DEF Next, TickFires, Receive, Discover, SpawnFails,
       Poll, Idle, WatchKeyValue, Connected, Disconnected, DiscoveryResponse,
       Stopping, Stopped, StartedAgain, TerminatedLost, Environment,
       GatewayAnswers, BusLoses, HostStarts, HostDies, AnswerArrives,
       ClientDies, EndpointLost, ClientUp, ClientDown, ClientReceives
<1>2. QED  BY <1>1, PTL DEF Spec, LossIsReported
=============================================================================
