----------------------------- MODULE PartsProofs -----------------------------
(***************************************************************************)
(* Proofs about the parts that stand alone, for any values of their        *)
(* constants: the lists of the database, the choice of a service, the      *)
(* device's name, the tries of an HTTP request, the sequence of timeouts,  *)
(* the keycloak actor, the ticking actor, those who are told about the     *)
(* link, and the MQTT client.                                              *)
(*                                                                         *)
(* The walk over the buckets is a fold and the choice of a service sorts   *)
(* a list: both need induction.  It is had from the fact that being a      *)
(* proper part is a well-founded order of the subsets of a finite set,     *)
(* which gives the smallest counterexample.                                *)
(***************************************************************************)
EXTENDS MCParts, PubSub, FiniteSetTheorems, FunctionTheorems,
        WellFoundedInduction, TLAPS

-----------------------------------------------------------------------------
(***************************************************************************)
(* Induction                                                               *)
(***************************************************************************)

\* A set of subsets of a finite set has an element of which no other is a part.
LEMMA SmallestSet ==
    ASSUME NEW S, IsFiniteSet(S), NEW B, \A x \in B : x \subseteq S, B # {}
    PROVE  \E x \in B : \A y \in B : y \subseteq x => y = x
  <1>1. FiniteSubsetsOf(S) = SUBSET S  BY FS_FiniteSubsetsOfFinite
  <1>2. IsWellFoundedOn(StrictSubsetOrdering(S), SUBSET S)
    BY <1>1, FS_StrictSubsetOrderingWellFounded
  <1>3. B \subseteq SUBSET S  OBVIOUS
  <1>4. PICK x \in B : \A y \in B : ~ (<<y, x>> \in StrictSubsetOrdering(S))
    BY <1>2, <1>3, WFMin
  <1>5. ASSUME NEW y \in B, y \subseteq x, y # x  PROVE FALSE
    BY <1>3, <1>4, <1>5 DEF StrictSubsetOrdering
  <1> QED  BY <1>4, <1>5

\* A set of numbers up to n has a greatest, the one that has the fewest above it.
LEMMA Greatest ==
    ASSUME NEW n \in Nat, NEW s \in SUBSET (1 .. n), s # {}
    PROVE  \E m \in s : \A k \in s : k <= m
  <1> DEFINE above(k) == k .. n
             B == {above(k) : k \in s}
  <1>1. IsFiniteSet(1 .. n)  BY FS_Interval
  <1>2. (\A x \in B : x \subseteq 1 .. n) /\ B # {}
    <2>1. \A k \in s : above(k) \subseteq 1 .. n  OBVIOUS
    <2> HIDE DEF above
    <2> QED  BY <2>1
  <1>3. PICK x \in B : \A y \in B : y \subseteq x => y = x
    <2> HIDE DEF B
    <2> QED  BY <1>1, <1>2, SmallestSet
  <1>4. PICK m \in s : x = above(m)  OBVIOUS
  <1>5. ASSUME NEW k \in s, k > m  PROVE FALSE
    <2>1. above(k) \subseteq above(m) /\ m \in above(m) /\ m \notin above(k)  BY <1>5
    <2>2. above(k) \in B  OBVIOUS
    <2> QED  BY <1>3, <1>4, <2>1, <2>2
  <1> QED  BY <1>5

\* Max, a CHOOSE, chooses what it says.
LEMMA MaxIsGreatest ==
    ASSUME NEW n \in Nat, NEW s \in SUBSET (1 .. n), s # {}
    PROVE  Max(s) \in s /\ \A k \in s : k <= Max(s)
  <1>1. \E m \in s : \A k \in s : m >= k  BY Greatest
  <1> QED  BY <1>1 DEF Max

\* A set of natural numbers has a least.
LEMMA Least ==
    ASSUME NEW T \in SUBSET Nat, T # {}
    PROVE  \E m \in T : \A k \in T : m <= k
  <1> PICK t \in T : TRUE  OBVIOUS
  <1> DEFINE U == {k \in T : k <= t}
             below(k) == 1 .. k
             B == {below(k) : k \in U}
  <1>1. IsFiniteSet(1 .. t)  BY FS_Interval
  <1>2. (\A x \in B : x \subseteq 1 .. t) /\ B # {}
    <2>1. \A k \in U : below(k) \subseteq 1 .. t  OBVIOUS
    <2>2. t \in U  OBVIOUS
    <2> HIDE DEF below, U
    <2> QED  BY <2>1, <2>2
  <1>3. PICK x \in B : \A y \in B : y \subseteq x => y = x
    <2> HIDE DEF B
    <2> QED  BY <1>1, <1>2, SmallestSet
  <1>4. PICK m \in U : x = below(m)  OBVIOUS
  <1>5. ASSUME NEW k \in T, k < m  PROVE FALSE
    <2>1. k \in U  BY <1>5
    <2>2. below(k) \subseteq below(m) /\ m \in below(m) /\ m \notin below(k)
      BY <1>5, <2>1
    <2>3. below(k) \in B  BY <2>1
    <2> HIDE DEF below, B, U
    <2> QED  BY <1>3, <1>4, <2>2, <2>3
  <1> QED  BY <1>5

\* FirstOf, a CHOOSE, likewise: the indices of a list have a first.
LEMMA FirstOfIsLeast ==
    ASSUME NEW S \in SUBSET Nat, S # {}
    PROVE  FirstOf(S) \in S /\ \A j \in S : FirstOf(S) <= j
  BY Least DEF FirstOf

-----------------------------------------------------------------------------
(***************************************************************************)
(* DbLists: the walk over all buckets                                      *)
(***************************************************************************)

\* The buckets by their index.
Ix == DOMAIN Buckets

\* Collections by its recursion equation.
Turn(g, s) == IF s = {} THEN <<>> ELSE Collected(g[s \ {Max(s)}], Buckets[Max(s)])
TurnsOf(g) == [s \in SUBSET Ix |-> Turn(g, s)]
Turns      == CHOOSE g : g = TurnsOf(g)

\* The fold of the community module, written out for these buckets.
LEMMA CollectionsIsFold == Collections = Turns[Ix]
  BY Zenon DEF Collections, FoldLeft, MapThenFoldSet, Turns, TurnsOf, Turn, Ix

\* What the walk has collected when it has been through some buckets: every key
\* they have, with the last of them that has it.
Having(s, k) == {i \in s : k \in stored[Buckets[i]]}
Keys(s)      == UNION {stored[Buckets[i]] : i \in s}
LastOf(s)    == [k \in Keys(s) |-> Buckets[Max(Having(s, k))]]
AllLast      == [s \in SUBSET Ix |-> LastOf(s)]

LEMMA IxFacts == Ix = 1 .. Len(Buckets) /\ Len(Buckets) \in Nat /\ IsFiniteSet(Ix)
  BY BucketsAssumption, FS_Interval DEF Ix

\* The last bucket that has a key is one of those that have it.
LEMMA HavingFacts ==
    ASSUME NEW s \in SUBSET Ix, NEW k \in Keys(s)
    PROVE  /\ Max(Having(s, k)) \in s /\ k \in stored[Buckets[Max(Having(s, k))]]
           /\ \A i \in Having(s, k) : i <= Max(Having(s, k))
  <1>1. Having(s, k) \in SUBSET (1 .. Len(Buckets)) /\ Having(s, k) # {}
    BY IxFacts DEF Having, Keys
  <1> QED  BY <1>1, IxFacts, MaxIsGreatest DEF Having

\* One turn: the last bucket of a set overrides what the others have.
LEMMA OneTurn ==
    ASSUME NEW s \in SUBSET Ix, s # {}
    PROVE  Collected(LastOf(s \ {Max(s)}), Buckets[Max(s)]) = LastOf(s)
  <1> DEFINE m == Max(s)
             r == s \ {m}
  <1>1. m \in s /\ m \in Int /\ \A k \in s : k \in Int /\ k <= m
    <2>1. s \in SUBSET (1 .. Len(Buckets)) /\ Len(Buckets) \in Nat  BY IxFacts
    <2>2. m \in s /\ \A k \in s : k <= m  BY <2>1, MaxIsGreatest
    <2>3. \A k \in s : k \in Int  BY <2>1
    <2> HIDE DEF m
    <2> QED  BY <2>2, <2>3
  <1>2. Keys(s) = Keys(r) \cup stored[Buckets[m]]
    BY <1>1 DEF Keys
  <1>3. ASSUME NEW k \in stored[Buckets[m]] PROVE Max(Having(s, k)) = m
    <2>1. m \in Having(s, k) /\ k \in Keys(s)  BY <1>1 DEF Having, Keys
    <2> DEFINE h == Max(Having(s, k))
    <2>2. m <= h /\ h \in s  BY <2>1, HavingFacts
    <2> HIDE DEF m, h
    <2>3. h = m  BY <2>2, <1>1
    <2> QED  BY <2>3 DEF h
  <1>4. ASSUME NEW k \in Keys(s), k \notin stored[Buckets[m]]
        PROVE  k \in Keys(r) /\ Having(s, k) = Having(r, k)
    BY <1>4, <1>2 DEF Having
  <1>5. /\ DOMAIN LastOf(r) = Keys(r)
        /\ \A k \in Keys(r) : LastOf(r)[k] = Buckets[Max(Having(r, k))]
    BY DEF LastOf
  <1> HIDE DEF m, r
  <1>6. Collected(LastOf(r), Buckets[m])
          = [k \in Keys(s) |->
                IF k \in stored[Buckets[m]] THEN Buckets[m] ELSE LastOf(r)[k]]
    BY <1>2, <1>5 DEF Collected
  <1>7. ASSUME NEW k \in Keys(s)
        PROVE  (IF k \in stored[Buckets[m]] THEN Buckets[m] ELSE LastOf(r)[k])
                 = Buckets[Max(Having(s, k))]
    BY <1>3, <1>4, <1>5, <1>7
  <1>8. Collected(LastOf(r), Buckets[m]) = LastOf(s)
    BY <1>6, <1>7 DEF LastOf
  <1> QED  BY <1>8 DEF m, r

\* No bucket, no key.
LEMMA NoTurn == LastOf({}) = <<>>
  BY DEF LastOf, Keys

\* The equation has a solution ...
LEMMA LastSolves == AllLast = TurnsOf(AllLast)
  <1>1. ASSUME NEW s \in SUBSET Ix PROVE LastOf(s) = Turn(AllLast, s)
    <2>1. CASE s = {}  BY <2>1, NoTurn DEF Turn
    <2>2. CASE s # {}
      <3>1. s \ {Max(s)} \in SUBSET Ix  OBVIOUS
      <3>2. AllLast[s \ {Max(s)}] = LastOf(s \ {Max(s)})  BY <3>1, Zenon DEF AllLast
      <3> QED  BY <2>2, <3>2, OneTurn DEF Turn
    <2> QED  BY <2>1, <2>2
  <1> QED  BY <1>1, Zenon DEF AllLast, TurnsOf

\* ... and no other: at a smallest set of buckets where the two differed, the
\* equation would make them agree.
LEMMA TurnsIsLast == \A s \in SUBSET Ix : Turns[s] = LastOf(s)
  <1>1. Turns = TurnsOf(Turns)
    BY LastSolves, Zenon DEF Turns
  <1> DEFINE Bad == {s \in SUBSET Ix : Turns[s] # LastOf(s)}
  <1> SUFFICES ASSUME Bad # {} PROVE FALSE  OBVIOUS
  <1>2. \A y \in Bad : y \subseteq Ix  OBVIOUS
  <1>3. PICK s \in Bad : \A y \in Bad : y \subseteq s => y = s
    <2> HIDE DEF Bad
    <2> QED  BY <1>2, IxFacts, SmallestSet
  <1>4. Turns[s] = Turn(Turns, s)
    BY <1>1, Zenon DEF TurnsOf
  <1>5. CASE s = {}
    BY <1>3, <1>4, <1>5, NoTurn DEF Turn
  <1>6. CASE s # {}
    <2>1. Max(s) \in s  BY <1>6, IxFacts, MaxIsGreatest
    <2>2. s \ {Max(s)} \in SUBSET Ix /\ s \ {Max(s)} \subseteq s /\ s \ {Max(s)} # s
      BY <2>1
    <2>3. s \ {Max(s)} \notin Bad  BY <1>3, <2>2
    <2>4. Turns[s \ {Max(s)}] = LastOf(s \ {Max(s)})  BY <2>2, <2>3
    <2> QED  BY <1>3, <1>4, <1>6, <2>4, OneTurn DEF Turn
  <1> QED  BY <1>5, <1>6

\* List answers every key of every topmost bucket, each with the last bucket
\* that has it, however many buckets there are.
THEOREM LastBucketWins == Collections = LastOf(Ix)
  BY CollectionsIsFold, TurnsIsLast

\* What List found is a snapshot: every key, and no bucket but the last.
LEMMA CollectionsAreSnapshot ==
    /\ DOMAIN Collections = UNION {stored[b] : b \in BucketSet}
    /\ \A i, j \in DOMAIN Buckets, k \in Item :
          k \in stored[Buckets[i]] /\ k \in stored[Buckets[j]] /\ i < j
          => Collections[k] # Buckets[i]
  <1>1. /\ DOMAIN Collections = Keys(Ix)
        /\ \A k \in Keys(Ix) : Collections[k] = Buckets[Max(Having(Ix, k))]
    BY LastBucketWins DEF LastOf
  <1>2. Keys(Ix) = UNION {stored[b] : b \in BucketSet}
    BY DEF Keys, Ix, BucketSet
  <1>3. ASSUME NEW i \in Ix, NEW j \in Ix, NEW k \in Item,
               k \in stored[Buckets[i]], k \in stored[Buckets[j]], i < j
        PROVE  Collections[k] # Buckets[i]
    <2> DEFINE m == Max(Having(Ix, k))
    <2>1. k \in Keys(Ix) /\ j \in Having(Ix, k)  BY <1>3 DEF Keys, Having
    <2>2. m \in Ix /\ j <= m  BY <2>1, HavingFacts
    <2>3. Collections[k] = Buckets[m]  BY <1>1, <2>1
    <2> HIDE DEF m
    <2>4. m # i  BY <1>3, <2>2, IxFacts
    <2> QED  BY <1>3, <2>2, <2>3, <2>4, BucketsAssumption DEF IsInjective, Ix
  <1> QED  BY <1>1, <1>2, <1>3 DEF Ix

\* The answer's bytes are its own as long as nothing was written, and for ever
\* where they were copied.
ListInv == /\ ListTypeOK /\ ListsAreSnapshots
           /\ answer.type = "keys" => path \in BucketSet

\* An answer to a list is what the walk has collected.
LEMMA AnsweredStep ==
    ASSUME ListInv, NEW a, Answered(a),
           a.type \in {"nothing", "list", "keys", "error", "expired"},
           a.type = "list" => a.data = Collections,
           a.type = "keys" => path \in BucketSet /\ a.data = stored[path]
    PROVE  ListInv'
  <1>1. ListTypeOK' /\ (answer'.type = "keys" => path' \in BucketSet)
    BY DEF ListInv, ListTypeOK, Answered
  <1>2. ListsAreSnapshots'
    BY CollectionsAreSnapshot DEF ListsAreSnapshots, Answered
  <1> QED  BY <1>1, <1>2 DEF ListInv

\* What a write or a close does to the answer.
LEMMA TouchedStep ==
    ASSUME ListInv, stored' \in [BucketSet -> SUBSET Item], opened' \in BOOLEAN,
           UNCHANGED <<pending, path, answer, asOf>>, touched' = TRUE,
           intact' = intact \/ (answer.type = "keys" /\ intact' = FALSE)
    PROVE  ListInv'
  <1>1. ListTypeOK'  BY DEF ListInv, ListTypeOK
  <1>2. ListsAreSnapshots'
    BY DEF ListInv, ListsAreSnapshots
  <1> QED  BY <1>1, <1>2 DEF ListInv

LEMMA ListStep == ListInv /\ [ListNext]_listVars => ListInv'
  <1> SUFFICES ASSUME ListInv, [ListNext]_listVars PROVE ListInv'  OBVIOUS
  <1>1. ASSUME NEW p \in Paths, CallList("List", p) \/ CallList("ListKeys", p)
        PROVE  ListInv'
    BY <1>1 DEF CallList, Answer, ListInv, ListTypeOK, ListsAreSnapshots
  <1>2. CASE MsgList
    BY <1>2, AnsweredStep DEF MsgList, Answer
  <1>3. CASE MsgListKeys
    BY <1>3, AnsweredStep DEF MsgListKeys, Walked, Answer
  <1>4. CASE MsgNoAckListKeys
    BY <1>4, AnsweredStep DEF MsgNoAckListKeys, Answer
  <1>5. CASE ListExpires
    BY <1>5 DEF ListExpires, Answer, ListInv, ListTypeOK, ListsAreSnapshots
  <1>6. ASSUME NEW b \in BucketSet, NEW k \in Item, StoreChanges(b, k) PROVE ListInv'
    <2>1. stored' \in [BucketSet -> SUBSET Item]
      BY <1>6 DEF StoreChanges, ListInv, ListTypeOK
    <2>2. /\ UNCHANGED <<pending, path, answer, asOf>> /\ opened' \in BOOLEAN
          /\ touched' = TRUE
          /\ intact' = intact \/ (answer.type = "keys" /\ intact' = FALSE)
      BY <1>6 DEF StoreChanges, Touch, Shared, ListInv, ListTypeOK
    <2> QED  BY <2>1, <2>2, TouchedStep
  <1>7. CASE CloseDB
    BY <1>7, TouchedStep DEF CloseDB, Touch, Shared, ListInv, ListTypeOK
  <1>8. CASE UNCHANGED listVars
    BY <1>8 DEF listVars, ListInv, ListTypeOK, ListsAreSnapshots
  <1>9. "unnamed" \in Paths  BY DEF Paths, NoBucket
  <1> QED  BY <1>1, <1>2, <1>3, <1>4, <1>5, <1>6, <1>7, <1>8, <1>9 DEF ListNext

LEMMA ListInvHolds == ListSpec => []ListInv
  <1>1. ListInit => ListInv
    <2>1. ListInit => ListTypeOK
      <3> SUFFICES ASSUME ListInit PROVE ListTypeOK  OBVIOUS
      <3>1. stored \in [BucketSet -> SUBSET Item] /\ asOf = stored  BY DEF ListInit
      <3>2. answer.type = "nothing" /\ "unnamed" \in Paths
        BY DEF ListInit, Answer, Paths, NoBucket
      <3> QED  BY <3>1, <3>2 DEF ListInit, ListTypeOK
    <2>2. ListInit => ListsAreSnapshots /\ answer.type # "keys"
      BY DEF ListInit, Answer, ListsAreSnapshots
    <2> QED  BY <2>1, <2>2 DEF ListInv
  <1> QED  BY <1>1, ListStep, PTL DEF ListSpec

\* For any buckets, List's answer says for ever what the file held when it was
\* answered, ListKeys' until the next write (repo.go:206-268, actor.go:303-319).
THEOREM Snapshots == ListSpec => []ListsAreSnapshots
  BY ListInvHolds, PTL DEF ListInv

-----------------------------------------------------------------------------
(***************************************************************************)
(* Entity: the next service and the newest one                             *)
(***************************************************************************)

\* A list of services is a finite sequence of times.
LEMMA ListFacts ==
    ASSUME EntityTypeOK
    PROVE  /\ ss \in Seq(Int) /\ Len(ss) \in Nat /\ DOMAIN ss = 1 .. Len(ss)
           /\ \A i \in DOMAIN ss : ss[i] \in Int
           /\ IsFiniteSet(DOMAIN ss)
           /\ ss = <<>> <=> DOMAIN ss = {}
  <1>1. PICK n \in 0 .. MaxLen : ss \in [1 .. n -> Times]
    BY DEF EntityTypeOK, Lists
  <1>2. n \in Nat  BY EntityAssumption
  <1>3. ss \in [1 .. n -> Int] /\ DOMAIN ss = 1 .. n  BY <1>1, EntityAssumption
  <1>4. ss \in Seq(Int) /\ Len(ss) = n
    BY <1>2, <1>3
  <1>5. IsFiniteSet(1 .. n)  BY <1>2, FS_Interval
  <1> QED  BY <1>2, <1>3, <1>4, <1>5

\* Every list can be sorted: a service goes to the place that counts those not
\* behind it.
NotBehind(i) == {j \in DOMAIN ss : ss[j] < ss[i] \/ (ss[j] = ss[i] /\ j <= i)}
Place        == [i \in DOMAIN ss |-> Cardinality(NotBehind(i))]

\* Who is behind another has a place behind the other's.
LEMMA PlaceGrows ==
    ASSUME EntityTypeOK, NEW i \in DOMAIN ss, NEW j \in NotBehind(i), j # i
    PROVE  Place[j] < Place[i]
  <1>1. /\ NotBehind(j) \subseteq NotBehind(i) /\ j \in DOMAIN ss
        /\ i \in NotBehind(i) /\ i \notin NotBehind(j)
    BY ListFacts DEF NotBehind
  <1>2. IsFiniteSet(NotBehind(i)) /\ IsFiniteSet(NotBehind(j))
    BY ListFacts, FS_Subset DEF NotBehind
  <1>3. /\ Cardinality(NotBehind(j)) <= Cardinality(NotBehind(i))
        /\ Cardinality(NotBehind(j)) # Cardinality(NotBehind(i))
    BY <1>1, <1>2, FS_Subset
  <1>4. Cardinality(NotBehind(j)) \in Nat /\ Cardinality(NotBehind(i)) \in Nat
    BY <1>2, FS_CardinalityType
  <1> QED  BY <1>1, <1>3, <1>4 DEF Place

\* No two share a place and none is left free: an injection of a finite set into
\* itself is onto.
LEMMA PlaceIsBijection ==
    ASSUME EntityTypeOK
    PROVE  /\ Place \in [DOMAIN ss -> DOMAIN ss]
           /\ \A i, j \in DOMAIN ss : Place[i] = Place[j] => i = j
           /\ \A k \in DOMAIN ss : \E i \in DOMAIN ss : Place[i] = k
  <1>1. ASSUME NEW i \in DOMAIN ss PROVE Place[i] \in DOMAIN ss
    <2>1. NotBehind(i) \in SUBSET DOMAIN ss /\ i \in NotBehind(i)
      BY ListFacts DEF NotBehind
    <2>2. /\ IsFiniteSet(NotBehind(i))
          /\ Cardinality(NotBehind(i)) <= Cardinality(DOMAIN ss)
          /\ Cardinality(NotBehind(i)) # 0 /\ Cardinality(NotBehind(i)) \in Nat
      BY <2>1, ListFacts, FS_Subset, FS_EmptySet, FS_CardinalityType
    <2>3. Cardinality(DOMAIN ss) = Len(ss)
      <3>1. Cardinality(1 .. Len(ss)) = IF 1 > Len(ss) THEN 0 ELSE Len(ss) - 1 + 1
        BY ListFacts, FS_Interval
      <3> QED  BY <3>1, ListFacts
    <2> QED  BY <2>2, <2>3, ListFacts DEF Place
  <1>2. ASSUME NEW i \in DOMAIN ss, NEW j \in DOMAIN ss, i # j PROVE Place[i] # Place[j]
    <2>1. i \in NotBehind(j) \/ j \in NotBehind(i)
      BY <1>2, ListFacts DEF NotBehind
    <2>2. Place[i] \in Int /\ Place[j] \in Int  BY <1>1, ListFacts
    <2> QED  BY <1>2, <2>1, <2>2, PlaceGrows
  <1>3. Place \in [DOMAIN ss -> DOMAIN ss]  BY <1>1 DEF Place
  <1>4. Place \in Injection(DOMAIN ss, DOMAIN ss)  BY <1>2, <1>3, Fun_IsInj
  <1>5. Place \in Surjection(DOMAIN ss, DOMAIN ss)  BY <1>4, ListFacts, FS_Injection
  <1> QED  BY <1>2, <1>3, <1>5, Fun_SurjectionProperties

\* Sorted is a list of the same services, in order of time.
LEMMA SortedFacts ==
    ASSUME EntityTypeOK
    PROVE  /\ Sorted \in [DOMAIN ss -> Int]
           /\ \A i, j \in DOMAIN ss : i <= j => Sorted[i] <= Sorted[j]
           /\ \A i \in DOMAIN ss : \E k \in DOMAIN ss : Sorted[i] = ss[k]
           /\ \A k \in DOMAIN ss : \E i \in DOMAIN ss : Sorted[i] = ss[k]
  <1> DEFINE D == DOMAIN ss
             q == [k \in D |-> CHOOSE i \in D : Place[i] = k]
  <1>1. \A k \in D : q[k] \in D /\ Place[q[k]] = k
    BY PlaceIsBijection
  <1>2. q \in [D -> D] /\ Sorts(q)
    <2>1. q \in [D -> D]  BY <1>1
    <2>2. ASSUME NEW i \in D, NEW j \in D, i # j PROVE q[i] # q[j]
      BY <1>1, <2>2
    <2> HIDE DEF q
    <2>3. ASSUME NEW i \in D, NEW j \in D, i < j PROVE ss[q[i]] <= ss[q[j]]
      <3>1. i \in Int /\ j \in Int /\ ss[q[i]] \in Int /\ ss[q[j]] \in Int
        BY <1>1, ListFacts
      <3>2. ASSUME ss[q[i]] > ss[q[j]] PROVE FALSE
        <4>1. q[j] \in NotBehind(q[i])  BY <1>1, <3>1, <3>2 DEF NotBehind
        <4>2. q[j] # q[i]  BY <2>2, <2>3, <3>1
        <4>3. j < i  BY <1>1, <4>1, <4>2, PlaceGrows
        <4> QED  BY <2>3, <3>1, <4>3
      <3> QED  BY <3>1, <3>2
    <2> QED  BY <2>1, <2>2, <2>3 DEF Sorts
  <1> DEFINE p == CHOOSE p \in [D -> D] : Sorts(p)
  <1>3. p \in [D -> D] /\ Sorts(p)
    <2> HIDE DEF q
    <2> QED  BY <1>2
  <1>4. Sorted = [i \in D |-> ss[p[i]]]  BY DEF Sorted
  <1> HIDE DEF p, q
  <1>5. p \in Injection(D, D)  BY <1>3, Fun_IsInj DEF Sorts
  <1>6. p \in Surjection(D, D)  BY <1>5, ListFacts, FS_Injection
  <1>7. \A k \in D : \E i \in D : p[i] = k  BY <1>6, Fun_SurjectionProperties
  <1>8. Sorted \in [D -> Int]  BY <1>3, <1>4, ListFacts
  <1>9. ASSUME NEW i \in D, NEW j \in D, i <= j PROVE Sorted[i] <= Sorted[j]
    <2>1. CASE i = j  BY <2>1, <1>8
    <2>2. CASE i < j  BY <2>2, <1>3, <1>4 DEF Sorts
    <2> QED  BY <1>9, <2>1, <2>2, ListFacts
  <1> QED  BY <1>3, <1>4, <1>7, <1>8, <1>9

\* A distance is a difference, taken one way or the other.
LEMMA DistanceFacts ==
    ASSUME NEW t \in Int
    PROVE  Distance(t) \in Nat /\ (Distance(t) = t - Now \/ Distance(t) = Now - t)
  BY EntityAssumption DEF Distance

\* There is a nearest service in every list but the empty one, and Next takes it.
LEMMA NextFacts ==
    ASSUME EntityTypeOK
    PROVE  LET i == NextService.service IN
           /\ ss = <<>> => i = 0
           /\ ss # <<>> => i \in DOMAIN ss /\ Nearest(i)
           /\ NextService.ok <=> from < (IF i = 0 THEN 0 ELSE ss[i])
                                 /\ (IF i = 0 THEN 0 ELSE ss[i]) < to
  <1> DEFINE N == {k \in DOMAIN ss : Nearest(k)}
             i == NextService.service
  <1>1. i = (IF N = {} THEN 0 ELSE FirstOf(N))
        /\ (NextService.ok <=> from < (IF i = 0 THEN 0 ELSE ss[i])
                                 /\ (IF i = 0 THEN 0 ELSE ss[i]) < to)
    BY DEF NextService
  <1>2. ss = <<>> => N = {}  BY ListFacts
  <1>3. ASSUME ss # <<>> PROVE N # {}
    <2> DEFINE T == {Distance(ss[k]) : k \in DOMAIN ss}
    <2>1. T \in SUBSET Nat /\ T # {}
      BY <1>3, ListFacts, DistanceFacts
    <2>2. PICK m \in T : \A d \in T : m <= d
      <3> HIDE DEF T
      <3> QED  BY <2>1, Least
    <2>3. PICK k \in DOMAIN ss : m = Distance(ss[k])  OBVIOUS
    <2>4. Nearest(k)  BY <2>2, <2>3 DEF Nearest
    <2> QED  BY <2>4
  <1>4. ASSUME N # {} PROVE FirstOf(N) \in N
    <2>1. N \in SUBSET Nat  BY ListFacts
    <2> HIDE DEF N
    <2> QED  BY <1>4, <2>1, FirstOfIsLeast
  <1>5. ss # <<>> => i = FirstOf(N) /\ i \in N  BY <1>1, <1>3, <1>4
  <1>6. ss = <<>> => i = 0  BY <1>1, <1>2
  <1> QED  BY <1>1, <1>5, <1>6

\* What Next takes is inside the window, or nothing is if the window lies around now.
LEMMA NextRight == EntityTypeOK => NextIsNearest
  <1> SUFFICES ASSUME EntityTypeOK PROVE NextIsNearest  OBVIOUS
  <1> DEFINE i == NextService.service
  <1>1. \A j \in DOMAIN ss : ss[j] \in Int /\ Distance(ss[j]) \in Nat
    BY ListFacts, DistanceFacts
  <1>2. from \in Int /\ to \in Int  BY DEF EntityTypeOK
  <1>3. i = 0 => ss = <<>>
    BY NextFacts, ListFacts
  <1>4. ASSUME i # 0
        PROVE  /\ i \in DOMAIN ss
               /\ \A j \in DOMAIN ss : Distance(ss[i]) <= Distance(ss[j])
               /\ NextService.ok <=> from < ss[i] /\ ss[i] < to
    BY <1>4, NextFacts DEF Nearest
  <1> HIDE DEF i
  <1>5. ASSUME i # 0
        PROVE  ~\E j \in DOMAIN ss : Distance(ss[j]) < Distance(ss[i])
    BY <1>1, <1>4, <1>5
  <1>6. ASSUME i # 0, NextService.ok
        PROVE  ss[i] \in from + 1 .. to - 1
    BY <1>1, <1>2, <1>4, <1>6
  <1>7. ASSUME ss # <<>>, ~NextService.ok, Now - from = to - Now,
               NEW j \in DOMAIN ss, from < ss[j], ss[j] < to
        PROVE  FALSE
    <2>1. i # 0  BY <1>3, <1>7
    <2>2. /\ i \in DOMAIN ss /\ ~(from < ss[i] /\ ss[i] < to)
          /\ Distance(ss[i]) <= Distance(ss[j])
      BY <1>4, <1>7, <2>1
    <2>3. ss[i] \in Int /\ ss[j] \in Int  BY <1>1, <2>2
    <2> QED  BY <1>2, <1>7, <2>2, <2>3, EntityAssumption DEF Distance
  <1> QED  BY <1>3, <1>5, <1>6, <1>7 DEF NextIsNearest, i

\* Newest: past the first late service all are late, before it none is.
LEMMA NewestRight == EntityTypeOK => NewestIsDue
  <1> SUFFICES ASSUME EntityTypeOK PROVE NewestIsDue  OBVIOUS
  <1> DEFINE n   == Len(ss)
             L   == {i \in 1 .. n : i > 1 /\ Late(Sorted[i])}
             due == {i \in DOMAIN ss : ~Late(ss[i])}
  <1>1. n \in Nat /\ DOMAIN ss = 1 .. n  BY ListFacts
  <1>2. Sorted \in [1 .. n -> Int] /\ Len(Sorted) = n
    <2>1. Sorted \in [1 .. n -> Int]  BY <1>1, SortedFacts
    <2> QED  BY <1>1, <2>1
  <1>3. Newest = IF L # {} /\ FirstOf(L) > 1
                 THEN [time |-> Sorted[FirstOf(L) - 1], ok |-> TRUE]
                 ELSE IF n > 0 /\ ~Late(Sorted[n])
                      THEN [time |-> Sorted[n], ok |-> TRUE]
                      ELSE [time |-> 0, ok |-> FALSE]
    <2>1. DOMAIN Sorted = 1 .. n  BY <1>2
    <2> QED  BY <1>2, <2>1 DEF Newest, LaterTurn
  <1>4. ASSUME NEW k \in 1 .. n, ~Late(Sorted[k]),
               \A j \in 1 .. n : j > k => Late(Sorted[j])
        PROVE  \E i \in due : Sorted[k] = ss[i] /\ \A j \in due : ss[j] <= ss[i]
    <2>1. PICK i \in DOMAIN ss : Sorted[k] = ss[i]  BY <1>1, SortedFacts
    <2>2. ASSUME NEW j \in due PROVE ss[j] <= ss[i]
      <3>1. PICK q \in 1 .. n : Sorted[q] = ss[j]  BY <1>1, SortedFacts
      <3>2. q <= k  BY <1>1, <1>4, <3>1
      <3> QED  BY <1>1, <2>1, <3>1, <3>2, SortedFacts
    <2> QED  BY <1>4, <2>1, <2>2
  <1>5. ASSUME NEW k \in 1 .. n, Late(Sorted[k]), NEW j \in 1 .. n, k <= j
        PROVE  Late(Sorted[j])
    <2>1. Sorted[k] <= Sorted[j] /\ Sorted[k] \in Int /\ Sorted[j] \in Int
      BY <1>1, <1>2, <1>5, SortedFacts
    <2> QED  BY <1>5, <2>1, EntityAssumption DEF Late
  <1>6. ASSUME \A k \in 1 .. n : Late(Sorted[k]) PROVE due = {}
    BY <1>1, <1>6, SortedFacts
  <1>7. CASE L # {}
    <2> DEFINE f == FirstOf(L)
    <2>1. f \in L /\ \A j \in L : f <= j
      <3>1. L \in SUBSET Nat  OBVIOUS
      <3> HIDE DEF L
      <3> QED  BY <1>7, <3>1, FirstOfIsLeast
    <2>2. f \in 2 .. n /\ Late(Sorted[f]) /\ f - 1 \in 1 .. n
      BY <1>1, <2>1
    <2> HIDE DEF f
    <2>3. Newest = [time |-> Sorted[f - 1], ok |-> TRUE]
      BY <1>3, <1>7, <2>2 DEF f
    <2>4. CASE ~Late(Sorted[f - 1])
      <3>1. \A j \in 1 .. n : j > f - 1 => Late(Sorted[j])
        BY <1>1, <1>5, <2>2
      <3>2. \E i \in due : Sorted[f - 1] = ss[i] /\ \A j \in due : ss[j] <= ss[i]
        BY <1>4, <2>2, <2>4, <3>1
      <3> HIDE DEF due
      <3> QED  BY <2>3, <3>2 DEF NewestIsDue, due
    <2>5. CASE Late(Sorted[f - 1])
      <3>1. f = 2  BY <1>1, <2>1, <2>2, <2>5
      <3>2. \A k \in 1 .. n : Late(Sorted[k])
        BY <1>1, <1>5, <2>2, <2>5, <3>1
      <3>3. due = {} /\ n >= 2  BY <1>1, <1>6, <2>2, <3>2
      <3> QED  BY <2>3, <3>3 DEF NewestIsDue
    <2> QED  BY <2>4, <2>5
  <1>8. CASE L = {}
    <2>1. CASE n > 0 /\ ~Late(Sorted[n])
      <3>1. Newest = [time |-> Sorted[n], ok |-> TRUE]  BY <1>3, <1>8, <2>1
      <3>2. \E i \in due : Sorted[n] = ss[i] /\ \A j \in due : ss[j] <= ss[i]
        BY <1>1, <1>4, <2>1
      <3> HIDE DEF due
      <3> QED  BY <3>1, <3>2 DEF NewestIsDue, due
    <2>2. CASE ~(n > 0 /\ ~Late(Sorted[n]))
      <3>1. Newest = [time |-> 0, ok |-> FALSE]  BY <1>3, <1>8, <2>2
      <3>2. n = 0 \/ n = 1  BY <1>1, <1>8, <2>2
      <3>3. due = {}  BY <1>1, <1>6, <2>2, <3>2
      <3> QED  BY <1>1, <3>1, <3>2, <3>3 DEF NewestIsDue
    <2> QED  BY <2>1, <2>2
  <1> QED  BY <1>7, <1>8

LEMMA EntityTypeHolds == EntitySpec => []EntityTypeOK
  <1>1. EntityInit => EntityTypeOK
    <2>1. 0 \in 0 .. MaxLen /\ 0 \in Int /\ FALSE \in BOOLEAN  BY EntityAssumption
    <2>2. <<>> \in [1 .. 0 -> Times]  OBVIOUS
    <2>3. <<>> \in Lists  BY <2>1, <2>2 DEF Lists
    <2> QED  BY <2>1, <2>3 DEF EntityInit, EntityTypeOK
  <1>2. EntityTypeOK /\ [EntityNext]_entityVars => EntityTypeOK'
    BY EntityAssumption DEF EntityTypeOK, EntityNext, Look, entityVars, Lists
  <1> QED  BY <1>1, <1>2, PTL DEF EntitySpec

\* For every list of services, every window and every moment, Next finds a nearest
\* service and Newest the last that is not late, but for what RightService names
\* (entity.go:48-89).
THEOREM ServiceIsRight == EntitySpec => []RightService
  <1>1. EntityTypeOK => RightService
    BY NextRight, NewestRight DEF RightService
  <1> QED  BY <1>1, EntityTypeHolds, PTL

-----------------------------------------------------------------------------
(***************************************************************************)
(* Hostname                                                                *)
(***************************************************************************)

\* The variable is filled by whoever found it empty; while it lacks the serial
\* number somebody is about to write that.
Filling ==
    given = "no" =>
       /\ hostname \in {"", "os", "serial"}
       /\ hostname = "" => \A c \in Caller : call[c] \in {"none", "empty"}
       /\ serial /\ hostname = "os" => \E c \in Caller : call[c] = "named"
       /\ ~serial => hostname # "serial" /\ \A c \in Caller : call[c] # "named"

\* Callers that are inside together have met.
HaveMet ==
    \A c, d \in Inside : c # d => c \in overlapped

\* A name that was given first is all there is.
GivenFirst ==
    given = "first" =>
       /\ hostname = "given"
       /\ \A c \in Caller : call[c] \in {"none", "done"}

HostInv == HostTypeOK /\ Filling /\ HaveMet /\ GivenFirst /\ RightName

\* When nobody has to write, the variable is the device's name.
LEMMA FilledIsName ==
    ASSUME HostInv, given = "no", hostname # "", \A c \in Caller : call[c] # "named"
    PROVE  hostname = DeviceName
  BY DEF HostInv, HostTypeOK, Filling, DeviceName

\* Who has met nobody is alone inside and reads what there is.
LEMMA AloneReads ==
    ASSUME HostInv, NEW c \in Caller, Inside \ {c} = {}
    PROVE  Reads(c) = {hostname} /\ \A d \in Caller : call[d] = "named" => d = c
  BY DEF Reads, Writes, Inside, HostInv, HostTypeOK

\* A read yields a name, be it a torn one.
LEMMA ReadsType ==
    ASSUME HostInv, NEW c \in Caller, NEW n \in Reads(c)
    PROVE  n \in Names
  BY DEF HostInv, HostTypeOK, Reads, Names, Torn

LEMMA HostCallStep ==
    ASSUME HostInv, NEW c \in Caller,
           Found(c) \/ NotFound(c) \/ OsName(c) \/ SerialName(c) \/ Return(c)
    PROVE  HostInv'
  <1> USE DEF HostInv
  <1>1. CASE Found(c)
    <2>1. HostTypeOK'
      BY <1>1, ReadsType DEF Found, Meets, Inside, HostTypeOK
    <2>2. Filling' /\ HaveMet' /\ GivenFirst'
      BY <1>1 DEF Found, Meets, Inside, HostTypeOK, Filling, HaveMet, GivenFirst
    <2>3. name'[c] \in Reads(c) /\ call'[c] = "done" /\ call[c] = "none"
          /\ \A d \in Caller \ {c} : name'[d] = name[d] /\ call'[d] = call[d]
      BY <1>1 DEF Found, HostTypeOK
    <2>4. given = "no" /\ c \notin overlapped' => name'[c] = DeviceName
      <3> SUFFICES ASSUME given = "no", c \notin overlapped' PROVE name'[c] = DeviceName
        OBVIOUS
      <3>1. Inside \ {c} = {}  BY <1>1 DEF Found, Meets
      <3>2. Inside = {}  BY <3>1, <2>3 DEF Inside
      <3> QED  BY <3>1, <3>2, <2>3, <1>1, AloneReads DEF RightName, Found
    <2>5. given = "first" => name'[c] = "given"
      BY <2>3, AloneReads DEF GivenFirst, Inside
    <2>6. /\ overlapped \subseteq overlapped' /\ Inside' = Inside
          /\ UNCHANGED <<hostname, serial, given>>
      BY <1>1, <2>3 DEF Found, Meets, Inside
    <2> QED  BY <2>1, <2>2, <2>3, <2>4, <2>5, <2>6 DEF RightName, DeviceName
  <1>2. CASE NotFound(c)
    BY <1>2 DEF NotFound, Meets, Inside, HostTypeOK, Filling, HaveMet, GivenFirst,
                RightName, DeviceName
  <1>3. CASE OsName(c)
    <2>1. HostTypeOK'  BY <1>3 DEF OsName, HostTypeOK, Names, Torn
    <2>2. Inside' = Inside  BY <1>3 DEF OsName, Inside, HostTypeOK
    <2>3. Filling' /\ GivenFirst'  BY <1>3 DEF OsName, HostTypeOK, Filling, GivenFirst
    <2>4. c \in Inside BY <1>3 DEF OsName, Inside
    <2> QED
      BY <1>3, <2>1, <2>2, <2>3, <2>4
      DEF OsName, HostTypeOK, HaveMet, RightName, DeviceName
  <1>4. CASE SerialName(c)
    <2>1. HostTypeOK'  BY <1>4 DEF SerialName, Override, HostTypeOK, Names, Torn
    <2>2. Inside' = Inside  BY <1>4 DEF SerialName, Inside, HostTypeOK
    <2>3. Filling' /\ GivenFirst'
      BY <1>4 DEF SerialName, Override, HostTypeOK, Filling, GivenFirst
    <2>4. c \in Inside BY <1>4 DEF SerialName, Inside
    <2> QED
      BY <1>4, <2>1, <2>2, <2>3, <2>4
      DEF SerialName, Override, HostTypeOK, HaveMet, RightName, DeviceName
  <1>5. CASE Return(c)
    <2>1. HostTypeOK'  BY <1>5, ReadsType DEF Return, HostTypeOK
    <2>2. name'[c] \in Reads(c) /\ call'[c] = "done" /\ call[c] = "filled"
          /\ \A d \in Caller \ {c} : name'[d] = name[d] /\ call'[d] = call[d]
      BY <1>5 DEF Return, HostTypeOK
    <2>3. Filling' /\ GivenFirst' /\ HaveMet'
      BY <1>5, <2>2 DEF Return, HostTypeOK, Filling, GivenFirst, HaveMet, Inside
    <2>4. given = "no" => hostname # ""
      BY <2>2 DEF Filling
    <2>5. given = "no" /\ c \notin overlapped => name'[c] = DeviceName
      <3> SUFFICES ASSUME given = "no", c \notin overlapped PROVE name'[c] = DeviceName
        OBVIOUS
      <3>1. Inside \ {c} = {}  BY <2>2 DEF HaveMet, Inside
      <3> QED  BY <3>1, <2>2, <2>4, AloneReads, FilledIsName
    <2>6. given # "first"  BY <2>2 DEF GivenFirst
    <2>7. given = "no" /\ Inside' = {} => hostname = DeviceName
      <3> SUFFICES ASSUME given = "no", Inside' = {} PROVE hostname = DeviceName
        OBVIOUS
      <3>1. \A d \in Caller : call[d] # "named"
        BY <2>2 DEF Inside, HostTypeOK
      <3> QED  BY <3>1, <2>4, FilledIsName
    <2>8. UNCHANGED <<hostname, serial, overlapped, given>>  BY <1>5 DEF Return
    <2> QED  BY <2>1, <2>2, <2>3, <2>5, <2>6, <2>7, <2>8 DEF RightName, DeviceName
  <1> QED  BY <1>1, <1>2, <1>3, <1>4, <1>5

LEMMA HostStep == HostInv /\ [HostNext]_hostVars => HostInv'
  <1> SUFFICES ASSUME HostInv, [HostNext]_hostVars PROVE HostInv'  OBVIOUS
  <1>1. CASE SetHostname
    BY <1>1 DEF SetHostname, HostInv, HostTypeOK, Names, Torn, Filling, HaveMet,
                GivenFirst,
                RightName, Inside
  <1>2. CASE UNCHANGED hostVars
    BY <1>2 DEF hostVars, HostInv, HostTypeOK, Filling, HaveMet, GivenFirst,
                RightName, DeviceName, Inside
  <1> QED  BY <1>1, <1>2, HostCallStep DEF HostNext

LEMMA HostInvHolds == HostSpec => []HostInv
  <1>1. HostInit => HostInv
    BY DEF HostInit, HostInv, HostTypeOK, Names, Torn, Filling, HaveMet, GivenFirst,
           RightName, Inside
  <1> QED  BY <1>1, HostStep, PTL DEF HostSpec

\* For any number of callers, who met no other gets the device's name, a name given
\* first is everybody's, and the variable has the device's name once nobody is
\* inside (hostname.go:38-64).
THEOREM NameIsRight == HostSpec => []RightName
  BY HostInvHolds, PTL DEF HostInv

-----------------------------------------------------------------------------
(***************************************************************************)
(* HttpTries                                                               *)
(***************************************************************************)

\* What the server has done and what was replayed tell how much of the body can
\* be left, and where an idle connection can come from.
BodyTells ==
    /\ body = "none" => done = 0
    /\ body = "whole" => done = 0 /\ replays = 0
    /\ body = "read" => done <= 1 + replays
    /\ body # "none" /\ (idle \/ replays > 0) => httpc = "given" \/ outlived

\* Each try that may have been served counts as one.
TriesCount ==
    /\ triesMade <= TriesAllowed /\ done <= triesMade /\ replays <= triesMade
    /\ Trying => triesMade < TriesAllowed
    /\ httpc = "nil" => triesMade = 0 /\ outcome \in {"trying", "exited"}

HttpInv == HttpTypeOK /\ TriesCount /\ BodyTells

LEMMA HttpStep == HttpInv /\ [HttpNext]_httpVars => HttpInv'
  <1> SUFFICES ASSUME HttpInv, [HttpNext]_httpVars PROVE HttpInv'  OBVIOUS
  <1> USE DEF HttpInv, HttpTypeOK, TriesCount, BodyTells, TriesAllowed, Trying
  <1>1. CASE LoadLocalCert  BY <1>1 DEF LoadLocalCert
  <1>2. CASE Unsent  BY <1>2 DEF Unsent, NextTry
  <1>3. ASSUME Written, NEW n \in Serves, done' = done + n
        PROVE  /\ BodyTells' /\ triesMade' = triesMade + 1
               /\ body' \in {"none", "whole", "read"}
               /\ done' \in 0 .. triesMade' /\ replays' \in 0 .. triesMade'
               /\ UNCHANGED <<httpc, outlived>> /\ idle' = FALSE
               /\ httpc # "nil" /\ triesMade' \in 0 .. TriesAllowed
    <2>1. /\ n \in {0, 1} /\ (body = "none" => n = 0)  BY <1>3 DEF Serves
    <2>2. /\ UNCHANGED <<httpc, outlived>> /\ idle' = FALSE
          /\ triesMade' = triesMade + 1 /\ httpc # "nil"
          /\ triesMade' \in 0 .. TriesAllowed
          /\ body' = Sent(body) /\ (body = "read" => idle)
          /\ replays' = IF body = "read" THEN replays + 1 ELSE replays
      BY <1>3 DEF Written
    <2>3. body' = IF body = "whole" THEN "read" ELSE body  BY <2>2 DEF Sent
    <2>4. /\ done' \in 0 .. triesMade' /\ replays' \in 0 .. triesMade'
          /\ body' \in {"none", "whole", "read"}
      BY <1>3, <2>1, <2>2, <2>3
    <2>5. CASE body = "none"  BY <1>3, <2>1, <2>2, <2>3, <2>5
    <2>6. CASE body = "whole"  BY <1>3, <2>1, <2>2, <2>3, <2>6
    <2>7. CASE body = "read"  BY <1>3, <2>1, <2>2, <2>3, <2>7
    <2>8. BodyTells'  BY <2>5, <2>6, <2>7
    <2> QED  BY <2>2, <2>4, <2>8
  <1>4. CASE AnswerLost
    <2>1. PICK n \in Serves : done' = done + n  BY <1>4 DEF AnswerLost
    <2>2. outcome' = IF triesMade + 1 = 3 THEN "error" ELSE "trying"
      BY <1>4 DEF AnswerLost, NextTry
    <2>3. Written  BY <1>4 DEF AnswerLost
    <2>4. /\ BodyTells' /\ triesMade' = triesMade + 1
          /\ body' \in {"none", "whole", "read"}
          /\ done' \in 0 .. triesMade' /\ replays' \in 0 .. triesMade'
          /\ UNCHANGED httpc /\ httpc # "nil" /\ triesMade' \in 0 .. 3
      BY <1>3, <2>1, <2>3
    <2>5. idle' = FALSE /\ UNCHANGED outlived  BY <1>3, <2>1, <2>3
    <2>6. httpc \in {"given", "made"} /\ triesMade \in 0 .. 2  BY <2>3 DEF Written
    <2>7. outlived \in BOOLEAN  OBVIOUS
    <2> HIDE DEF HttpInv, BodyTells
    <2>8. /\ outcome' \in {"trying", "ok", "refused", "error", "exited"}
          /\ triesMade' \in 0 .. TriesAllowed
          /\ done' \in 0 .. TriesAllowed /\ replays' \in 0 .. TriesAllowed
      <3> HIDE DEF HttpTypeOK
      <3> QED  BY <2>2, <2>4
    <2>9. HttpTypeOK'
      <3>1. idle' \in BOOLEAN /\ outlived' \in BOOLEAN  BY <2>5, <2>7
      <3>2. httpc' \in {"given", "nil", "made"}  BY <2>4, <2>6
      <3> QED  BY ONLY <3>1, <3>2, <2>8, <2>4, Zenon DEF HttpTypeOK
    <2>10. TriesCount'
      <3> HIDE DEF HttpTypeOK
      <3> QED  BY <2>2, <2>4, <2>6
    <2> QED  BY ONLY <2>4, <2>9, <2>10 DEF HttpInv
  <1>5. CASE Responded
    <2>1. PICK n \in Serves : done' = done + n  BY <1>5 DEF Responded, Serves
    <2>2. outcome' \in {"ok", "refused"}
      BY <1>5 DEF Responded
    <2>3. Written  BY <1>5 DEF Responded
    <2>4. /\ BodyTells' /\ triesMade' = triesMade + 1
          /\ body' \in {"none", "whole", "read"}
          /\ done' \in 0 .. triesMade' /\ replays' \in 0 .. triesMade'
          /\ UNCHANGED httpc /\ httpc # "nil" /\ triesMade' \in 0 .. 3
      BY <1>3, <2>1, <2>3
    <2>5. idle' = FALSE /\ UNCHANGED outlived  BY <1>3, <2>1, <2>3
    <2>6. httpc \in {"given", "made"} /\ triesMade \in 0 .. 2  BY <2>3 DEF Written
    <2>7. outlived \in BOOLEAN  OBVIOUS
    <2> HIDE DEF HttpInv, BodyTells
    <2>8. /\ outcome' \in {"trying", "ok", "refused", "error", "exited"}
          /\ triesMade' \in 0 .. TriesAllowed
          /\ done' \in 0 .. TriesAllowed /\ replays' \in 0 .. TriesAllowed
      <3> HIDE DEF HttpTypeOK
      <3> QED  BY <2>2, <2>4
    <2>9. HttpTypeOK'
      <3>1. idle' \in BOOLEAN /\ outlived' \in BOOLEAN  BY <2>5, <2>7
      <3>2. httpc' \in {"given", "nil", "made"}  BY <2>4, <2>6
      <3> QED  BY ONLY <3>1, <3>2, <2>8, <2>4, Zenon DEF HttpTypeOK
    <2>10. TriesCount'
      <3> HIDE DEF HttpTypeOK
      <3> QED  BY <2>2, <2>4, <2>6
    <2> QED  BY ONLY <2>4, <2>9, <2>10 DEF HttpInv
  <1>6. CASE IdleChanges  BY <1>6 DEF IdleChanges
  <1>7. CASE UNCHANGED httpVars  BY <1>7 DEF httpVars
  <1> QED  BY <1>1, <1>2, <1>4, <1>5, <1>6, <1>7 DEF HttpNext

LEMMA HttpInvHolds == HttpSpec => []HttpInv
  <1>1. HttpInit => HttpInv
    <2> SUFFICES ASSUME HttpInit PROVE HttpInv  OBVIOUS
    <2>1. HttpTypeOK
      <3>1. /\ triesMade \in 0 .. TriesAllowed /\ done \in 0 .. TriesAllowed
            /\ replays \in 0 .. TriesAllowed
        <4>1. triesMade = 0 /\ done = 0 /\ replays = 0  BY DEF HttpInit
        <4> QED  BY ONLY <4>1 DEF TriesAllowed
      <3>2. /\ body \in {"none", "whole", "read"}
            /\ httpc \in {"given", "nil", "made"}
            /\ outcome \in {"trying", "ok", "refused", "error", "exited"}
        BY DEF HttpInit
      <3>3. idle \in BOOLEAN /\ outlived \in BOOLEAN  BY DEF HttpInit
      <3> QED  BY ONLY <3>1, <3>2, <3>3, Zenon DEF HttpTypeOK
    <2>2. TriesCount  BY DEF HttpInit, TriesCount, TriesAllowed, Trying
    <2>3. BodyTells  BY DEF HttpInit, BodyTells
    <2> QED  BY <2>1, <2>2, <2>3 DEF HttpInv
  <1> QED  BY <1>1, HttpStep, PTL DEF HttpSpec

\* However many answers are lost, a POST is done a second time only by a replay of
\* the Transport, and never more often than once and once for each replay; a client
\* of its own replays nothing unless a dial has outlived its try.
THEOREM DoneOnce == HttpSpec => []PostDoneOnce
  <1>1. HttpInv => PostDoneOnce
    BY DEF HttpInv, HttpTypeOK, BodyTells, PostDoneOnce
  <1> QED  BY <1>1, HttpInvHolds, PTL

-----------------------------------------------------------------------------
(***************************************************************************)
(* TimeoutSeq                                                              *)
(***************************************************************************)

\* The turn whose timeout the n-th call is given.
TurnOf(n) == IF n <= Len(Seqm) THEN n ELSE Len(Seqm)

\* What the closure remembers: the moment of the last call and its turn.
TurnInv ==
    /\ mem = IF called = <<>> THEN 0 ELSE called[Len(called)].at
    /\ idx = TurnOf(Len(called))

TimeoutInv == TimeoutTypeOK /\ TurnInv /\ ComparesWithPrevious

\* There is always a timeout to compare with, and a turn's is that of the comment.
LEMMA SeqmFacts ==
    ASSUME given_seq \in Timeouts
    PROVE  /\ Seqm \in Seq(Int) /\ Len(Seqm) \in Nat \ {0}
           /\ \A n \in Nat \ {0} : /\ TurnOf(n) \in 1 .. Len(Seqm) /\ TurnOf(n) <= n
                                   /\ Seqm[TurnOf(n)] \in Int
                                   /\ TimeoutOfTurn(n) = Seqm[TurnOf(n)]
  <1>1. given_seq \in Seq(Int)  BY TimeoutAssumption
  <1>2. Seqm \in Seq(Int) /\ Len(Seqm) \in Nat \ {0}
    BY <1>1 DEF Seqm
  <1>3. ASSUME NEW n \in Nat \ {0}
        PROVE  /\ TurnOf(n) \in 1 .. Len(Seqm) /\ TurnOf(n) <= n
               /\ Seqm[TurnOf(n)] \in Int
    BY <1>2 DEF TurnOf
  <1>4. ASSUME NEW n \in Nat \ {0} PROVE TimeoutOfTurn(n) = Seqm[TurnOf(n)]
    BY <1>1 DEF Seqm, TurnOf, TimeoutOfTurn
  <1> QED  BY <1>2, <1>3, <1>4

LEMMA TimeoutStep == TimeoutInv /\ [TimeoutNext]_timeoutVars => TimeoutInv'
  <1> SUFFICES ASSUME TimeoutInv, [TimeoutNext]_timeoutVars PROVE TimeoutInv'  OBVIOUS
  <1> USE DEF TimeoutInv, TimeoutTypeOK
  <1>1. CASE Call
    <2> DEFINE n == Len(called) + 1
               entry == [at |-> clock, result |-> mem + Seqm[Clamped + 1] < clock]
    <2>1. n \in Nat \ {0} /\ n <= MaxTurns /\ given_seq' = given_seq /\ clock' = clock
      BY <1>1, TimeoutAssumption DEF Call
    <2>2. Clamped + 1 = TurnOf(n) /\ idx' = TurnOf(n) /\ idx' \in 0 .. MaxTurns
      BY <1>1, <2>1, SeqmFacts, TimeoutAssumption DEF Call, Clamped, TurnInv, TurnOf
    <2>3. entry \in [at : 0 .. MaxTime, result : BOOLEAN]  OBVIOUS
    <2>4. /\ called' \in Seq([at : 0 .. MaxTime, result : BOOLEAN])
          /\ Len(called') = n /\ called'[n] = entry
          /\ \A i \in 1 .. Len(called) : called'[i] = called[i]
      BY <1>1, <2>3 DEF Call
    <2>5. TurnInv'
      BY <1>1, <2>1, <2>2, <2>4 DEF Call, TurnInv, TurnOf, Seqm
    <2>6. mem = IF n = 1 THEN 0 ELSE called[n - 1].at
      BY <2>1 DEF TurnInv
    <2>7. entry.result <=> clock - mem > TimeoutOfTurn(n)
      <3>1. /\ Seqm[TurnOf(n)] \in Int /\ TimeoutOfTurn(n) = Seqm[TurnOf(n)]
            /\ mem \in Int /\ clock \in Int
        BY <2>1, SeqmFacts, TimeoutAssumption
      <3>2. entry.result = (mem + TimeoutOfTurn(n) < clock)  BY <3>1, <2>2
      <3>3. mem + TimeoutOfTurn(n) < clock <=> clock - mem > TimeoutOfTurn(n)  BY <3>1
      <3> QED  BY <3>2, <3>3
    <2>8. ASSUME NEW i \in 1 .. Len(called')
          PROVE  called'[i].result <=>
                    called'[i].at - (IF i = 1 THEN 0 ELSE called'[i - 1].at)
                      > TimeoutOfTurn(i)
      <3>1. CASE i = n
        <4>1. called'[n].result = entry.result /\ called'[n].at = clock  BY <2>4
        <4>2. n # 1 => called'[n - 1] = called[n - 1]
          <5> SUFFICES ASSUME n # 1 PROVE called'[n - 1] = called[n - 1]  OBVIOUS
          <5>1. Len(called) \in 1 .. Len(called) /\ n - 1 = Len(called)  BY <2>1
          <5> QED  BY <5>1, <2>4
        <4> HIDE DEF entry
        <4> QED  BY <3>1, <4>1, <4>2, <2>6, <2>7
      <3>2. CASE i # n
        <4>1. i \in 1 .. Len(called) /\ (i = 1 \/ i - 1 \in 1 .. Len(called))
          BY <3>2, <2>4
        <4> QED  BY <4>1, <2>4 DEF ComparesWithPrevious
      <3> QED  BY <3>1, <3>2
    <2>9. ComparesWithPrevious'
      BY <2>8, <2>1 DEF ComparesWithPrevious, TimeoutOfTurn
    <2> QED  BY <1>1, <2>1, <2>2, <2>4, <2>5, <2>9 DEF Call
  <1>2. CASE Pass
    BY <1>2, TimeoutAssumption
    DEF Pass, TurnInv, TurnOf, Seqm, ComparesWithPrevious, TimeoutOfTurn
  <1>3. CASE UNCHANGED timeoutVars
    BY <1>3
    DEF timeoutVars, TurnInv, TurnOf, Seqm, ComparesWithPrevious, TimeoutOfTurn
  <1> QED  BY <1>1, <1>2, <1>3 DEF TimeoutNext

LEMMA TimeoutInvHolds == TimeoutSpec => []TimeoutInv
  <1>1. TimeoutInit => TimeoutInv
    <2> SUFFICES ASSUME TimeoutInit PROVE TimeoutInv  OBVIOUS
    <2>1. TimeoutTypeOK /\ Len(called) = 0
      BY TimeoutAssumption DEF TimeoutInit, TimeoutTypeOK
    <2>2. TurnInv
      BY <2>1, SeqmFacts DEF TimeoutInit, TimeoutTypeOK, TurnInv, TurnOf
    <2> QED  BY <2>1, <2>2 DEF TimeoutInv, ComparesWithPrevious
  <1> QED  BY <1>1, TimeoutStep, PTL DEF TimeoutSpec

\* Each call of the function answers whether more time has gone by since the call
\* before than the timeout of its turn, the last timeout from the end of the
\* sequence on, for any sequence, the empty one included (timeout.go:9-28).
THEOREM ComparedWithPrevious == TimeoutSpec => []ComparesWithPrevious
  BY TimeoutInvHolds, PTL DEF TimeoutInv

-----------------------------------------------------------------------------
(***************************************************************************)
(* Keycloak                                                                *)
(***************************************************************************)

\* What is in the mailbox stays typed when its head is taken.
LEMMA KeycGetsType ==
    ASSUME asks \in Seq(Asker \cup {Tick}), NEW m, KeycGets(m)
    PROVE  asks' \in Seq(Asker \cup {Tick})
  BY DEF KeycGets

\* A refresh keeps the session; a login makes one.
LEMMA SourceIsRefreshed ==
    ASSUME source \in Source
    PROVE  /\ Refreshed(source) \in Source /\ NewSource \in Source
           /\ Refreshed(source).session = source.session /\ NewSource.session
           /\ source.fresh \in BOOLEAN /\ source.session \in BOOLEAN
           /\ [source EXCEPT !.fresh = FALSE] \in Source
           /\ [source EXCEPT !.session = FALSE] \in Source
           /\ [source EXCEPT !.fresh = FALSE].session = source.session
           /\ [source EXCEPT !.session = FALSE].fresh = source.fresh
  BY DEF Source, Refreshed, NewSource

KeycInv == KeycTypeOK /\ ClientOfItsSource

LEMMA KeycHandleStep ==
    ASSUME KeycInv, NEW p \in Asker, KeycHandle(p)
    PROVE  KeycInv'
  <1> USE DEF KeycInv, KeycTypeOK, ClientOfItsSource, Nothing
  <1>1. CASE GetClient(p)
    BY <1>1, KeycGetsType, SourceIsRefreshed DEF GetClient, HasClient
  <1>2. CASE LogsIn(p)
    BY <1>2, KeycGetsType, SourceIsRefreshed, KeycAssumption DEF LogsIn, NewNumber
  <1>3. CASE LoginRefused(p)
    BY <1>3, KeycGetsType DEF LoginRefused, Remembers
  <1> QED  BY <1>1, <1>2, <1>3 DEF KeycHandle

LEMMA KeycStep == KeycInv /\ [KeycNext]_keycVars => KeycInv'
  <1> SUFFICES ASSUME KeycInv, [KeycNext]_keycVars PROVE KeycInv'  OBVIOUS
  <1> USE DEF KeycInv, KeycTypeOK, ClientOfItsSource, Nothing
  <1>1. ASSUME NEW m \in Asker \cup {Tick}, KeycSends(m) PROVE KeycInv'
    BY <1>1 DEF KeycSends
  <1>2. ASSUME NEW p \in Asker, KeycHandle(p) PROVE KeycInv'
    BY <1>2, KeycHandleStep
  <1>3. CASE MsgTick
    BY <1>3, KeycGetsType DEF MsgTick
  <1>4. CASE TokenRunsOut \/ SessionRunsOut \/ Reachability
    BY <1>4, SourceIsRefreshed DEF TokenRunsOut, SessionRunsOut, Reachability
  <1>5. CASE UNCHANGED keycVars
    BY <1>5 DEF keycVars
  <1> QED  BY <1>1, <1>2, <1>3, <1>4, <1>5 DEF KeycNext

LEMMA KeycInvHolds == KeycSpec => []KeycInv
  <1>1. KeycInit => KeycInv
    BY KeycAssumption DEF KeycInit, KeycInv, KeycTypeOK, ClientOfItsSource, NoSource,
                          Source, Nothing
  <1> QED  BY <1>1, KeycStep, PTL DEF KeycSpec

\* The client is the one made at the last login, and there is one as soon as a
\* token can be had (keyc_/actor.go:57-104).
THEOREM ClientOfSource == KeycSpec => []ClientOfItsSource
  BY KeycInvHolds, PTL DEF KeycInv

-----------------------------------------------------------------------------
(***************************************************************************)
(* TickActor                                                               *)
(***************************************************************************)

\* The goroutine is there.
Lives(g) == turn[g] \in {"loops", "selects"}

\* The goroutine of a start runs from that start on; it waits for a channel
\* there is; the handler sleeps between two starts.
StartsCount ==
    /\ \A g \in Ticker : turn[g] = "unborn" <=> g > quit
    /\ starting # "no" => 0 < quit /\ quit < Starts

\* The field's channel is open while the handler is at rest, closed before it
\* sleeps.
QuitOpen ==
    /\ \A c \in quitClosed : c <= quit
    /\ starting = "no" => quit \notin quitClosed
    /\ starting # "no" => quit \in quitClosed

\* As long as no sleep was too short, the last goroutine alone may live, and
\* waits for the channel of the field; when the handler awakes none does.
LastAlone ==
    ~overslept =>
       /\ \A g \in Ticker : Lives(g) => g = quit
       /\ \A g \in Ticker : turn[g] = "selects" => selected[g] = quit
       /\ starting = "awake" => \A g \in Ticker : ~Lives(g)

TickInv == TickTypeOK /\ StartsCount /\ QuitOpen /\ LastAlone

LEMMA TickStep == TickInv /\ [TickNext]_tickVars => TickInv'
  <1> SUFFICES ASSUME TickInv, [TickNext]_tickVars PROVE TickInv'  OBVIOUS
  <1> USE StartsAssumption
      DEF TickInv, TickTypeOK, StartsCount, QuitOpen, LastAlone, Lives, Ticker
  <1>1. CASE StartedAgain  BY <1>1 DEF StartedAgain, ClosesQuit
  <1>2. CASE Slept  BY <1>2 DEF Slept, Behind
  <1>3. CASE NewQuit  BY <1>3 DEF NewQuit
  <1>4. ASSUME NEW g \in Ticker, Selects(g) PROVE TickInv'
    BY <1>4 DEF Selects
  <1>5. ASSUME NEW g \in Ticker, Ticks(g) PROVE TickInv'
    BY <1>5 DEF Ticks
  <1>6. ASSUME NEW g \in Ticker, Quits(g) PROVE TickInv'
    BY <1>6 DEF Quits
  <1>7. CASE UNCHANGED tickVars  BY <1>7 DEF tickVars
  <1> QED  BY <1>1, <1>2, <1>3, <1>4, <1>5, <1>6, <1>7 DEF TickNext

LEMMA TickInvHolds == TickSpec => []TickInv
  <1>1. TickInit => TickInv
    <2> SUFFICES ASSUME TickInit PROVE TickInv  OBVIOUS
    <2> USE StartsAssumption DEF TickInit, Ticker
    <2>1. 0 \in 0 .. Starts /\ FALSE \in BOOLEAN  OBVIOUS
    <2>2. TickTypeOK  BY <2>1, Zenon DEF TickTypeOK
    <2>3. StartsCount /\ QuitOpen  BY DEF StartsCount, QuitOpen
    <2>4. LastAlone  BY DEF LastAlone, Lives
    <2> QED  BY <2>2, <2>3, <2>4 DEF TickInv
  <1> QED  BY <1>1, TickStep, PTL DEF TickSpec

\* However often the actor is started, the last goroutine alone ticks, as long as
\* the sleep after the channel is closed was not too short (actor30seg.go:19-50).
THEOREM OneTicks == TickSpec => []OneTicker
  <1>1. TickInv => OneTicker  BY DEF TickInv, LastAlone, Lives, OneTicker
  <1> QED  BY <1>1, TickInvHolds, PTL

-----------------------------------------------------------------------------
(***************************************************************************)
(* Subscribers                                                             *)
(***************************************************************************)

\* The last published status is the last on its way, or has arrived.
LastIsTold ==
    /\ told # <<>> => published = told[Len(told)]
    /\ told = <<>> => consumer = published

\* The link's own state and what is said of it do not part.
LinkAsPublished == linkUp <=> published = "up"

\* A stream's subscriptions are those asked for.
StreamAsAsked ==
    /\ evs = askedFor
    /\ \A w \in Listener : heardOf[w] \in {0, askedFor[w]}
    /\ \A w \in Listener : w \in subscriptors <=> evs[w] > 0

SubsInv == SubsTypeOK /\ LastIsTold /\ LinkAsPublished /\ StreamAsAsked

\* A status that is published is the last on its way.
LEMMA PublishesStep ==
    ASSUME SubsInv, NEW s \in Status, Publishes(s), linkUp' = (s = "up"),
           linkHeld' \in BOOLEAN
    PROVE  SubsInv'
  <1> USE DEF SubsInv, SubsTypeOK, Publishes, Status, StatusOrNot
  <1>1. told' \in Seq(Status) /\ told' # <<>> /\ told'[Len(told')] = s
    OBVIOUS
  <1>2. LastIsTold'  BY <1>1 DEF LastIsTold
  <1>3. LinkAsPublished'  BY DEF LinkAsPublished
  <1>4. StreamAsAsked'  BY DEF StreamAsAsked
  <1> QED  BY <1>1, <1>2, <1>3, <1>4, StatusBound

LEMMA SubsStep == SubsInv /\ [SubsNext]_subsVars => SubsInv'
  <1> SUFFICES ASSUME SubsInv, [SubsNext]_subsVars PROVE SubsInv'  OBVIOUS
  <1> USE DEF SubsInv
  <1>1. CASE LinkConnected \/ LinkDisconnected \/ LinkTerminated
    BY <1>1, PublishesStep DEF LinkConnected, LinkDisconnected, LinkTerminated, GoesDown,
       SubsTypeOK, Status
  <1>2. CASE LinkSpawned
    BY <1>2 DEF LinkSpawned, SubsTypeOK, LastIsTold, LinkAsPublished, StreamAsAsked
  <1>3. CASE LinkRestarts
    BY <1>3, StatusBound
    DEF LinkRestarts, NewStream, SubsTypeOK, LastIsTold, LinkAsPublished, StreamAsAsked
  <1>4. ASSUME NEW w \in Listener, MsgSubscribe(w) PROVE SubsInv'
    BY <1>4, StatusBound
    DEF MsgSubscribe, SubsTypeOK, LastIsTold, LinkAsPublished, StreamAsAsked
  <1>5. ASSUME NEW w \in Listener, MsgRequeststatus(w) PROVE SubsInv'
    BY <1>5
    DEF MsgRequeststatus, SubsTypeOK, LastIsTold, LinkAsPublished, StreamAsAsked, Status,
        StatusOrNot
  <1>6. CASE MsgStatus
    <2>1. /\ told' \in Seq(Status)
          /\ told' # <<>> => told'[Len(told')] = told[Len(told)]
          /\ told' = <<>> => Head(told) = told[Len(told)]
          /\ Head(told) \in Status
      <3>1. told \in Seq(Status) /\ told # <<>> /\ told' = Tail(told)
        BY <1>6 DEF MsgStatus, SubsTypeOK
      <3>2. /\ Len(told) \in Nat \ {0}
            /\ Len(told') = Len(told) - 1 /\ told' \in Seq(Status)
            /\ \A i \in 1 .. Len(told') : told'[i] = told[i + 1]
            /\ Head(told) = told[1] /\ Head(told) \in Status
        BY <3>1
      <3>3. CASE told' = <<>>
        <4>1. Len(told') = 0  BY <3>3
        <4>2. Len(told) = 1  BY <3>2, <4>1
        <4>3. Head(told) = told[Len(told)]  BY <3>2, <4>2
        <4> QED  BY <3>2, <3>3, <4>3
      <3>4. CASE told' # <<>>
        <4>1. Len(told') \in 1 .. Len(told')  BY <3>2, <3>4
        <4> QED  BY <3>2, <3>4, <4>1
      <3> QED  BY <3>2, <3>3, <3>4
    <2> QED
      BY <1>6, <2>1
      DEF MsgStatus, StatusSch, SubsTypeOK, LastIsTold, LinkAsPublished, StreamAsAsked,
          StatusOrNot
  <1>7. CASE UNCHANGED subsVars
    BY <1>7 DEF subsVars, SubsTypeOK, LastIsTold, LinkAsPublished, StreamAsAsked
  <1> QED  BY <1>1, <1>2, <1>3, <1>4, <1>5, <1>6, <1>7 DEF SubsNext

LEMMA SubsInvHolds == SubsSpec => []SubsInv
  <1>1. SubsInit => SubsInv
    <2> SUFFICES ASSUME SubsInit PROVE SubsInv  OBVIOUS
    <2>1. SubsTypeOK
      <3>1. 0 \in 0 .. MaxStatus /\ <<>> \in Seq(Status) /\ FALSE \in BOOLEAN
        BY StatusBound
      <3> QED  BY <3>1, Zenon DEF SubsInit, SubsTypeOK, StatusOrNot
    <2>2. LastIsTold /\ LinkAsPublished /\ StreamAsAsked
      BY DEF SubsInit, LastIsTold, LinkAsPublished, StreamAsAsked
    <2> QED  BY <2>1, <2>2 DEF SubsInv
  <1> QED  BY <1>1, SubsStep, PTL DEF SubsSpec

\* When every status has arrived, the consumer knows the last one published, and
\* a listener hears an event as often as it has asked for its stream, for any number
\* of listeners, connections and restarts (nats/actor.go:54-64, 388-398).
THEOREM EveryStatusReaches == SubsSpec => []StatusReaches
  <1>1. SubsInv => StatusReaches
    BY DEF SubsInv, SubsTypeOK, LastIsTold, LinkAsPublished, StreamAsAsked, StatusReaches
  <1> QED  BY <1>1, SubsInvHolds, PTL

-----------------------------------------------------------------------------
(***************************************************************************)
(* PubSub.  NoneFallsBetween speaks of the running actor only.  Inductive is *)
(* what holds from the moment the range over the map begins: a stored topic *)
(* is still to be ranged over, or dealt with, or its caller is about to see *)
(* that there is a connection.                                             *)
(***************************************************************************)

USE PubSubBounds

\* Whoever is between the write of the map and the end of its call is stored.
CallersStored == \A t \in Topic : caller[t] \in Calling => t \in subscriptions

\* From the connection on there is one, be it interrupted.
HasConnection == actor \in {"connected", "ranging", "running"} => IsConnected

\* Between the beginning of the range and its end.
RangeCovers ==
    actor = "ranging" =>
        \A t \in subscriptions :
            caller[t] \notin Calling => t \in left \cup subscribed \cup missed

PubSubInv == /\ MqttTypeOK /\ CallersStored /\ HasConnection
             /\ RangeCovers /\ NoneFallsBetween

LEMMA MqttInitInv == MqttInit => PubSubInv
  BY DEF MqttInit, PubSubInv, MqttTypeOK, CallersStored, HasConnection, RangeCovers,
         NoneFallsBetween, Calling

\* A SUBSCRIBE deals with its topic and with no other.
LEMMA SubscribingDeals ==
    ASSUME NEW t \in subscriptions, Subscribing(t),
           subscribed \subseteq subscriptions, missed \subseteq subscriptions
    PROVE  /\ subscribed' \subseteq subscriptions /\ missed' \subseteq subscriptions
           /\ subscribed' \cup missed' = subscribed \cup missed \cup {t}
  BY DEF Subscribing

LEMMA MqttActorStep == PubSubInv /\ Receive => PubSubInv'
  <1> SUFFICES ASSUME PubSubInv, Receive PROVE PubSubInv'  OBVIOUS
  <1> USE DEF PubSubInv, MqttTypeOK, Moves, map, callers, broker, bounds
  <1>1. CASE Started
    BY <1>1 DEF Started, CallersStored, HasConnection, RangeCovers, NoneFallsBetween
  <1>2. CASE ConnectOK
    BY <1>2 DEF ConnectOK, CallersStored, HasConnection, IsConnected, RangeCovers,
                NoneFallsBetween
  <1>3. CASE ConnectFails
    BY <1>3 DEF ConnectFails, CallersStored, HasConnection, RangeCovers,
                NoneFallsBetween
  <1>4. CASE RangeBegins
    BY <1>4 DEF RangeBegins, ToSubscribe, CallersStored, HasConnection, IsConnected,
                RangeCovers, NoneFallsBetween
  <1>5. CASE RangeEnds
    BY <1>5 DEF RangeEnds, CallersStored, HasConnection, IsConnected, RangeCovers,
                NoneFallsBetween
  <1>6. ASSUME NEW t \in Topic, RangeNext(t) PROVE PubSubInv'
    <2>1. /\ subscribed' \subseteq subscriptions /\ missed' \subseteq subscriptions
          /\ subscribed' \cup missed' = subscribed \cup missed \cup {t}
      BY <1>6, SubscribingDeals DEF RangeNext
    <2> QED
      BY <1>6, <2>1 DEF RangeNext, CallersStored, HasConnection, IsConnected,
                        RangeCovers, NoneFallsBetween
  <1> QED  BY <1>1, <1>2, <1>3, <1>4, <1>5, <1>6 DEF Receive

LEMMA MqttCallerStep ==
    ASSUME PubSubInv, NEW t \in Topic,
           Subscribe(t) \/ CheckConnected(t) \/ SubscribeTopic(t)
    PROVE  PubSubInv'
  <1> USE DEF PubSubInv, MqttTypeOK, Calling, map, callers, broker, bounds
  <1>1. CASE Subscribe(t)
    BY <1>1 DEF Subscribe, Calls, CallersStored, HasConnection, IsConnected, RangeCovers,
                NoneFallsBetween
  <1>2. CASE CheckConnected(t)
    BY <1>2 DEF CheckConnected, CallersStored, HasConnection, IsConnected,
                RangeCovers, NoneFallsBetween
  <1>3. CASE SubscribeTopic(t)
    <2>1. /\ subscribed' \subseteq subscriptions /\ missed' \subseteq subscriptions
          /\ subscribed' \cup missed' = subscribed \cup missed \cup {t}
      BY <1>3, SubscribingDeals DEF SubscribeTopic, CallersStored
    <2> QED
      BY <1>3, <2>1 DEF SubscribeTopic, CallersStored, HasConnection, IsConnected,
                        RangeCovers, NoneFallsBetween
  <1> QED  BY <1>1, <1>2, <1>3

LEMMA MqttOtherStep ==
    ASSUME PubSubInv,
           ConnectsLate \/ Drop \/ Reconnect \/ UNCHANGED mqttVars
    PROVE  PubSubInv'
  <1> USE DEF PubSubInv, MqttTypeOK, Moves, map, callers, broker, bounds
  <1>1. CASE ConnectsLate \/ Reconnect
    BY <1>1 DEF ConnectsLate, Reconnect, CallersStored, HasConnection, IsConnected,
                RangeCovers, NoneFallsBetween
  <1>2. CASE Drop
    BY <1>2 DEF Drop, CallersStored, HasConnection, IsConnected, RangeCovers,
                NoneFallsBetween
  <1>3. CASE UNCHANGED mqttVars
    BY <1>3 DEF mqttVars, CallersStored, HasConnection, IsConnected, RangeCovers,
                NoneFallsBetween
  <1> QED  BY <1>1, <1>2, <1>3

LEMMA MqttInvHolds == MqttSpec => []PubSubInv
  <1>1. PubSubInv /\ [MqttNext]_mqttVars => PubSubInv'
    BY MqttActorStep, MqttCallerStep, MqttOtherStep DEF MqttNext
  <1> QED  BY MqttInitInv, <1>1, PTL DEF MqttSpec

\* Every variable keeps its type; in particular nothing is subscribed, missed
\* or ranged over that is not in the map.
THEOREM MqttTypeCorrect == MqttSpec => []MqttTypeOK
  BY MqttInvHolds, PTL DEF PubSubInv

\* Whatever the topics and whenever Subscribe is called, no subscription falls
\* between its caller and the actor's Started.
THEOREM NothingFallsBetween == MqttSpec => []NoneFallsBetween
  BY MqttInvHolds, PTL DEF PubSubInv

-----------------------------------------------------------------------------
(***************************************************************************)
(* The parts together                                                      *)
(***************************************************************************)

\* A behaviour of the instance that TLC runs is a behaviour of each part: one moves,
\* the others stutter.
LEMMA PartsRefine ==
    Spec => /\ HostSpec /\ HttpSpec /\ TimeoutSpec /\ EntitySpec /\ KeycSpec
            /\ ListSpec /\ TickSpec /\ SubsSpec
  <1>1. Init => /\ HostInit /\ HttpInit /\ TimeoutInit /\ EntityInit /\ KeycInit
                /\ ListInit /\ TickInit /\ SubsInit
    BY DEF Init
  <1>2. [Next]_<<subject, parts>> =>
          /\ [HostNext]_hostVars /\ [HttpNext]_httpVars /\ [TimeoutNext]_timeoutVars
          /\ [EntityNext]_entityVars /\ [KeycNext]_keycVars /\ [ListNext]_listVars
          /\ [TickNext]_tickVars /\ [SubsNext]_subsVars
    BY DEF Next, parts
  <1> QED
    BY <1>1, <1>2, PTL DEF Spec, HostSpec, HttpSpec, TimeoutSpec, EntitySpec, KeycSpec,
                         ListSpec, TickSpec, SubsSpec

\* Every variable of every part keeps its type, whatever the constants; the tries
\* of a request never exceed three (platform.go:37).
THEOREM TypesHold == Spec => []TypeOK
  <1>1. HostInv /\ HttpInv /\ TimeoutInv /\ EntityTypeOK /\ KeycInv /\ ListInv
          /\ TickInv /\ SubsInv => TypeOK
    BY DEF HostInv, HttpInv, TimeoutInv, KeycInv, ListInv, TickInv, SubsInv, TypeOK
  <1> QED
    BY <1>1, PartsRefine, HostInvHolds, HttpInvHolds, TimeoutInvHolds, EntityTypeHolds,
       KeycInvHolds, ListInvHolds, TickInvHolds, SubsInvHolds, PTL
=============================================================================
