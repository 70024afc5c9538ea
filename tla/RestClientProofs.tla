-------------------------- MODULE RestClientProofs --------------------------
(***************************************************************************)
(* Proofs of RestClient's safety properties for any of the three kinds and *)
(* any bounds.  FailedClientNotReused speaks of a handler that is trying;  *)
(* inductive is what has to hold before it begins: a client over which a   *)
(* request failed has been given up.  TakenForACause rests on two things:  *)
(* each timestamp is as old as the answer to its own kind, and a source    *)
(* that may yield a token came with a client, unless that was given up.    *)
(***************************************************************************)
EXTENDS RestClient, TLAPS

USE RestBounds, KindAssumption

\* A client over which a request failed is not there any more.
FailedGivenUp == failed => ~client

\* A source that has a token, or might get one, has a client unless it failed.
SourceHasClient == tks.fresh \/ tks.session => client \/ failed

\* The timestamp of a kind is as old as its last answer.
OwnTimestamp == \A k \in Kind : age[Reads[k]] = told[k]

Trying == FailedGivenUp /\ FailedClientNotReused /\ SourceHasClient
Inv == TypeOK /\ Trying /\ OwnTimestamp

-----------------------------------------------------------------------------
\* Types: those that need arithmetic apart from those that need none.

Numbers == /\ tries \in 0 .. MaxTries - 1 /\ faults \in 0 .. MaxFaults
           /\ age \in [Timestamp -> Age] /\ told \in [Kind -> Age]

Shapes ==
    /\ inbox \in Seq(Kind)
    /\ serving \in Kind \cup {"none"}
    /\ tks \in Source
    /\ stalled \in BOOLEAN
    /\ client \in BOOLEAN /\ online \in BOOLEAN /\ failed \in BOOLEAN

LEMMA TypeParts == /\ TypeOK <=> Numbers /\ Shapes
                   /\ TypeOK' <=> Numbers' /\ Shapes'
  BY DEF TypeOK, Numbers, Shapes

LEMMA SourceFacts ==
    /\ NoSource \in Source /\ NewSource \in Source
    /\ \A s \in Source : Refreshed(s) \in Source
    /\ \A s \in Source : [s EXCEPT !.fresh = FALSE] \in Source
    /\ \A s \in Source : [s EXCEPT !.session = FALSE] \in Source
  BY DEF Source, NoSource, NewSource, Refreshed

\* Taking a request from the mailbox leaves a mailbox.
LEMMA GetsType ==
    ASSUME TypeOK, NEW k, Gets(k)
    PROVE  k \in Kind /\ Tail(inbox) \in Seq(Kind)
  BY DEF TypeOK, Gets

\* The tables: each kind has a timestamp, which no other has, and the handler
\* that reads it writes it.
LEMMA TableFacts ==
    /\ \A k \in Kind : /\ Reads[k] \in Timestamp
                       /\ Writes[k] = Reads[k]
    /\ \A k, q \in Kind : k # q => Reads[k] # Reads[q]
  BY DEF Reads, Writes, Timestamp

\* A clock's tick, and a timestamp written anew.
LEMMA AgeFacts ==
    /\ 0 \in Age /\ Recent \in Age
    /\ \A a \in Age : Older(a) \in Age
  BY DEF Age, Older

LEMMA EnvironmentType ==
    ASSUME TypeOK,
           \/ \E k \in Kind : Ask(k)
           \/ Tick \/ TokenExpires \/ SessionEnds \/ NetworkLost \/ NetworkBack
    PROVE  TypeOK'
  <1> USE DEF TypeOK, env, http, ages
  <1>1. ASSUME NEW k \in Kind, Ask(k) PROVE TypeOK'  BY <1>1 DEF Ask
  <1>2. CASE Tick  BY <1>2, AgeFacts DEF Tick
  <1>3. CASE TokenExpires  BY <1>3, SourceFacts DEF TokenExpires
  <1>4. CASE SessionEnds  BY <1>4, SourceFacts DEF SessionEnds
  <1>5. CASE NetworkLost
    <2>1. Numbers'  BY <1>5 DEF NetworkLost, Numbers
    <2>2. Shapes'  BY <1>5 DEF NetworkLost, Shapes
    <2> QED  BY <2>1, <2>2, TypeParts
  <1>6. CASE NetworkBack  BY <1>6 DEF NetworkBack
  <1> QED  BY <1>1, <1>2, <1>3, <1>4, <1>5, <1>6

LEMMA HandleType ==
    ASSUME TypeOK, NEW k \in Kind, Handle(k)
    PROVE  TypeOK'
  <1> USE DEF TypeOK, env, http, ages, GetData, NewClient
  <1>1. CASE Throttled(k)  BY <1>1, GetsType DEF Throttled
  <1>2. CASE LoginFails(k)  BY <1>2, GetsType DEF LoginFails
  <1>3. CASE Begin(k)  BY <1>3, GetsType, SourceFacts DEF Begin
  <1>4. CASE Login(k)  BY <1>4, GetsType, SourceFacts DEF Login
  <1> QED  BY <1>1, <1>2, <1>3, <1>4 DEF Handle

LEMMA TryType ==
    ASSUME TypeOK, Try
    PROVE  TypeOK'
  <1> USE DEF TypeOK, env, http, ages, GiveUp, MaxTries
  <1>1. CASE TryFails
    <2>1. Numbers'  BY <1>1 DEF TryFails, MayRetry, Numbers
    <2>2. Shapes'  BY <1>1 DEF TryFails, Shapes
    <2> QED  BY <2>1, <2>2, TypeParts
  <1>2. CASE Refused
    <2>1. Numbers'  BY <1>2 DEF Refused, Numbers
    <2>2. Shapes'  BY <1>2, SourceFacts DEF Refused, TakesToken, Shapes
    <2> QED  BY <2>1, <2>2, TypeParts
  <1>3. CASE Answer
    <2>3. age' \in [Timestamp -> Age] /\ told' \in [Kind -> Age]
      BY <1>3, AgeFacts DEF Answer
    <2>1. Numbers'  BY <1>3, <2>3 DEF Answer, Numbers
    <2>2. Shapes'  BY <1>3, SourceFacts DEF Answer, TakesToken, Shapes
    <2> QED  BY <2>1, <2>2, TypeParts
  <1>4. CASE Stall  BY <1>4, SourceFacts DEF Stall, TakesToken
  <1> QED  BY <1>1, <1>2, <1>3, <1>4 DEF Try

LEMMA StepType ==
    ASSUME TypeOK, [Next]_vars
    PROVE  TypeOK'
  <1>1. CASE Next  BY <1>1, EnvironmentType, HandleType, TryType DEF Next
  <1>2. CASE UNCHANGED vars  BY <1>2 DEF vars, env, http, ages, TypeOK
  <1> QED  BY <1>1, <1>2

LEMMA InitType == Init => TypeOK
  <1>1. Init => Numbers  BY AgeFacts DEF Init, Numbers, MaxTries
  <1>2. <<>> \in Seq(Kind)  OBVIOUS
  <1>3. Init => Shapes  BY <1>2, SourceFacts, Zenon DEF Init, Shapes
  <1> QED  BY <1>1, <1>3, TypeParts

\* Every variable keeps its type; a request is tried three times at most.
THEOREM TypeCorrect == Spec => []TypeOK
  <1>1. Init => TypeOK  BY InitType
  <1>2. TypeOK /\ [Next]_vars => TypeOK'  BY StepType
  <1> QED  BY <1>1, <1>2, PTL DEF Spec

-----------------------------------------------------------------------------
\* The client and the source

LEMMA InitTrying == Init => Trying
  BY DEF Init, Trying, FailedGivenUp, FailedClientNotReused, SourceHasClient,
         NoSource

\* A handler begins to try with a client that has not failed.
LEMMA HandleTrying ==
    ASSUME TypeOK, Trying, NEW k \in Kind, Handle(k)
    PROVE  Trying'
  <1> USE DEF Trying, FailedGivenUp, FailedClientNotReused, SourceHasClient, env,
              http, Gets, GetData, NewClient
  <1>1. CASE Throttled(k)  BY <1>1 DEF Throttled
  <1>2. CASE LoginFails(k)  BY <1>2 DEF LoginFails
  <1>3. CASE Begin(k)  BY <1>3 DEF Begin, Usable
  <1>4. CASE Login(k)  BY <1>4 DEF Login
  <1> QED  BY <1>1, <1>2, <1>3, <1>4 DEF Handle

\* A request that failed gives up the client.
LEMMA TryTrying ==
    ASSUME TypeOK, Trying, Try
    PROVE  Trying'
  <1> USE DEF Trying, FailedGivenUp, FailedClientNotReused, SourceHasClient, env,
              GiveUp
  <1>1. CASE TryFails  BY <1>1 DEF TryFails
  <1>2. CASE Refused  BY <1>2 DEF Refused
  <1>3. CASE Answer  BY <1>3 DEF Answer
  <1>4. CASE Stall  BY <1>4 DEF Stall
  <1> QED  BY <1>1, <1>2, <1>3, <1>4 DEF Try

LEMMA EnvironmentTrying ==
    ASSUME TypeOK, Trying,
           \/ \E k \in Kind : Ask(k)
           \/ Tick \/ TokenExpires \/ SessionEnds \/ NetworkLost \/ NetworkBack
    PROVE  Trying'
  <1> USE DEF Trying, FailedGivenUp, FailedClientNotReused, SourceHasClient, env,
              http
  <1>1. ASSUME NEW k \in Kind, Ask(k) PROVE Trying'  BY <1>1 DEF Ask
  <1>2. CASE Tick  BY <1>2 DEF Tick
  <1>3. CASE TokenExpires  BY <1>3 DEF TokenExpires, TypeOK, Source
  <1>4. CASE SessionEnds  BY <1>4 DEF SessionEnds, TypeOK, Source
  <1>5. CASE NetworkLost  BY <1>5 DEF NetworkLost
  <1>6. CASE NetworkBack  BY <1>6 DEF NetworkBack
  <1> QED  BY <1>1, <1>2, <1>3, <1>4, <1>5, <1>6

-----------------------------------------------------------------------------
\* The timestamps: a tick makes them as much older as the answers, and a
\* handler that answers writes the one it reads, and no other's.
LEMMA TimestampStep ==
    ASSUME TypeOK, OwnTimestamp, [Next]_vars
    PROVE  OwnTimestamp'
  <1>1. CASE Tick
    BY <1>1, TableFacts DEF Tick, OwnTimestamp, TypeOK
  <1>2. CASE Answer
    <2>1. serving \in Kind  BY <1>2 DEF Answer, TypeOK
    <2>2. /\ age' = [age EXCEPT ![Reads[serving]] = 0]
          /\ told' = [told EXCEPT ![serving] = 0]
      BY <1>2, <2>1, TableFacts DEF Answer
    <2> QED  BY <2>1, <2>2, TableFacts DEF OwnTimestamp, TypeOK
  <1>3. CASE UNCHANGED ages
    BY <1>3 DEF ages, OwnTimestamp
  <1>4. ASSUME NEW k \in Kind, Ask(k) \/ Handle(k) PROVE UNCHANGED ages
    BY <1>4 DEF Ask, Handle, Throttled, LoginFails, Begin, Login, ages
  <1>5. ASSUME TokenExpires \/ SessionEnds \/ NetworkLost \/ NetworkBack
        PROVE  UNCHANGED ages
    BY <1>5 DEF TokenExpires, SessionEnds, NetworkLost, NetworkBack, ages
  <1>6. ASSUME Stall \/ TryFails \/ Refused PROVE UNCHANGED ages
    BY <1>6 DEF Stall, TryFails, Refused, ages
  <1> QED  BY <1>1, <1>2, <1>3, <1>4, <1>5, <1>6 DEF Next, Try, vars

LEMMA InitInv == Init => Inv
  <1>1. Init => OwnTimestamp  BY TableFacts DEF Init, OwnTimestamp
  <1> QED  BY <1>1, InitType, InitTrying DEF Inv

LEMMA StepInv ==
    ASSUME Inv, [Next]_vars
    PROVE  Inv'
  <1>1. TypeOK' /\ OwnTimestamp'  BY StepType, TimestampStep DEF Inv
  <1>2. CASE Next
    BY <1>1, <1>2, HandleTrying, TryTrying, EnvironmentTrying DEF Next, Inv
  <1>3. CASE UNCHANGED vars
    BY <1>1, <1>3 DEF vars, env, http, Inv, Trying, FailedGivenUp,
                      FailedClientNotReused, SourceHasClient
  <1> QED  BY <1>2, <1>3

LEMMA Invariance == Spec => []Inv
  <1>1. Inv /\ [Next]_vars => Inv'  BY StepInv
  <1> QED  BY InitInv, <1>1, PTL DEF Spec

\* No request is sent over a client over which another failed.
THEOREM FailedIsNotReused == Spec => []FailedClientNotReused
  <1>1. Inv => FailedClientNotReused  BY DEF Inv, Trying
  <1> QED  BY Invariance, <1>1, PTL

-----------------------------------------------------------------------------
\* What TakenForACause says of one kind and one step.
CauseStep(k) ==
    Gets(k) /\ inbox' = Tail(inbox) =>
        IF serving' = k
        THEN ~ToldLately(k)
        ELSE ToldLately(k) \/ ~Usable(tks, online) \/ failed

LEMMA HandleCause ==
    ASSUME Inv, NEW k \in Kind, Handle(k)
    PROVE  CauseStep(k)
  <1>1. IsRecent(k) <=> ToldLately(k)
    BY DEF Inv, OwnTimestamp, IsRecent, ToldLately
  <1>2. k # "none"  BY KindAssumption
  <1> USE DEF CauseStep, Gets
  <1>3. CASE Throttled(k)  BY <1>1, <1>2, <1>3 DEF Throttled, http
  <1>4. CASE LoginFails(k)  BY <1>1, <1>2, <1>4 DEF LoginFails, http
  <1>5. CASE Begin(k)
    BY <1>1, <1>2, <1>5
    DEF Begin, GetData, Usable, Inv, Trying, SourceHasClient
  <1>6. CASE Login(k)
    BY <1>1, <1>2, <1>6 DEF Login, GetData
  <1> QED  BY <1>3, <1>4, <1>5, <1>6 DEF Handle

\* Who is being served has taken its request before; nobody else takes one.
LEMMA OthersTakeNone ==
    ASSUME Inv, [Next]_vars, NEW k \in Kind, ~Handle(k)
    PROVE  CauseStep(k)
  <1> SUFFICES ASSUME Gets(k), inbox' = Tail(inbox)
               PROVE  FALSE
    BY DEF CauseStep
  <1>1. inbox' # inbox /\ \A q \in Kind : inbox' # Append(inbox, q)
    <2>1. inbox \in Seq(Kind) /\ inbox # <<>>  BY DEF Inv, TypeOK, Gets
    <2>2. Len(Tail(inbox)) = Len(inbox) - 1 /\ Len(inbox) \in Nat  BY <2>1
    <2>3. \A q \in Kind : Len(Append(inbox, q)) = Len(inbox) + 1  BY <2>1
    <2>4. /\ Len(inbox') # Len(inbox)
          /\ \A q \in Kind : Len(inbox') # Len(Append(inbox, q))
      BY <2>2, <2>3
    <2> QED  BY <2>4
  <1>2. ASSUME NEW q \in Kind, Handle(q) PROVE FALSE
    BY <1>2 DEF Handle, Throttled, LoginFails, Begin, Login, Gets
  <1>3. ASSUME NEW q \in Kind, Ask(q) PROVE FALSE
    BY <1>1, <1>3 DEF Ask
  <1>4. serving = "none"  BY DEF Gets
  <1>5. ~Try  BY <1>4 DEF Try, Stall, TryFails, Refused, Answer
  <1>6. ASSUME \/ Tick \/ TokenExpires \/ SessionEnds
               \/ NetworkLost \/ NetworkBack \/ UNCHANGED vars
        PROVE  FALSE
    BY <1>1, <1>6
    DEF Tick, TokenExpires, SessionEnds, NetworkLost, NetworkBack, vars
  <1> QED  BY <1>2, <1>3, <1>5, <1>6 DEF Next

\* A request is tried only if its own kind was not told lately, and dropped
\* only for its own kind's answer, for want of a token, or after a failed GET.
THEOREM EachIsTakenForACause == Spec => TakenForACause
  <1>1. Inv /\ [Next]_vars => \A k \in Kind : CauseStep(k)
    BY HandleCause, OthersTakeNone
  <1>2. Inv /\ [Next]_vars =>
          [\A k \in Kind : Gets(k) /\ inbox' = Tail(inbox) =>
              IF serving' = k
              THEN ~ToldLately(k)
              ELSE ToldLately(k) \/ ~Usable(tks, online) \/ failed]_vars
    BY <1>1 DEF CauseStep
  <1> QED  BY <1>2, Invariance, PTL DEF Spec, TakenForACause
=============================================================================
