------------------------------- MODULE DbLists -------------------------------
(***************************************************************************)
(* List and ListKeys of the database: the service's calls (service.go),    *)
(* the database actor's handlers (actor.go) and the two walks (repo.go).   *)
(*                                                                         *)
(* bbolt is external.  The bytes a cursor yields lie in pages that are     *)
(* only kept during the transaction: once it is over, any write may give   *)
(* them another content, and closing the file takes them away.  List       *)
(* copies what it answers, ListKeys answers the bytes themselves.          *)
(*                                                                         *)
(* Topmost buckets are numbered in bbolt's order.  Nothing in the program  *)
(* creates one.                                                            *)
(***************************************************************************)
EXTENDS Naturals, SequencesExt

CONSTANTS
    Buckets,    \* the topmost buckets in order: a sequence
    Item        \* keys

VARIABLES
    stored,     \* per topmost bucket, its keys
    opened,     \* the file is open
    pending,    \* the caller's request: "none", "List", "ListKeys"
    path,       \* the buckets ListKeys names: a bucket, or "none" (no topmost
                \* one), "inner" (a nested one is missing), "unnamed"
    answer,     \* what the caller got last: data, or "nothing", "error", "expired"
    intact,     \* the bytes of the answer are still what they were
    asOf,       \* history: stored at the answer's transaction
    touched     \* history: a write or a close since

listVars == <<stored, opened, pending, path, answer, intact, asOf, touched>>

BucketSet == {Buckets[i] : i \in DOMAIN Buckets}
NoBucket  == {"none", "inner", "unnamed"}
Paths     == BucketSet \cup NoBucket

\* The cursor yields every topmost bucket once.
ASSUME BucketsAssumption ==
    Buckets \in Seq(BucketSet) /\ IsInjective(Buckets) /\ BucketSet \cap NoBucket = {}
NoData    == <<>>
Answer(type, data) == [type |-> type, data |-> data]

ListTypeOK ==
    /\ stored \in [BucketSet -> SUBSET Item]
    /\ opened \in BOOLEAN
    /\ pending \in {"none", "List", "ListKeys"}
    /\ path \in Paths
    /\ answer.type \in {"nothing", "list", "keys", "error", "expired"}
    /\ intact \in BOOLEAN
    /\ asOf \in [BucketSet -> SUBSET Item]
    /\ touched \in BOOLEAN

ListInit ==
    /\ stored = [b \in BucketSet |-> {}]
    /\ opened = TRUE
    /\ pending = "none"
    /\ path = "unnamed"
    /\ answer = Answer("nothing", NoData)
    /\ intact = TRUE
    /\ asOf = stored
    /\ touched = FALSE

\* The caller asks the one or the other and waits.
CallList(type, p) ==
    /\ pending = "none"
    /\ pending' = type
    /\ path' = p
    /\ answer' = Answer("nothing", NoData)
    /\ UNCHANGED <<stored, opened, intact, asOf, touched>>

\* The answer of a transaction that has just ended.
Answered(a) ==
    /\ pending' = "none"
    /\ answer' = a
    /\ intact' = TRUE
    /\ asOf' = stored
    /\ touched' = FALSE
    /\ UNCHANGED <<stored, opened, path>>

\* mutant: a key keeps the first bucket it is found in
EarlierWins(c, b) == [k \in DOMAIN c \cup stored[b] |->
                        IF k \in DOMAIN c THEN c[k] ELSE b]
\* collections[key] = bucket, for every key of the bucket.
Collected(c, b)   == [k \in DOMAIN c \cup stored[b] |->
                        IF k \in stored[b] THEN b ELSE c[k]]

\* The walk over all buckets, as a function from keys to buckets.
Collections == FoldLeft(Collected, <<>>, Buckets)

MsgList ==
    /\ pending = "List" /\ opened
    /\ Answered(Answer("list", Collections))

Walked(b)    == stored[b]

MsgListKeys ==
    /\ pending = "ListKeys" /\ opened
    /\ path \in BucketSet
    /\ Answered(Answer("keys", Walked(path)))

\* A nested bucket that is missing, or none named: MsgNoAckListKyes.
MsgNoAckListKeys ==
    /\ pending = "ListKeys" /\ opened
    /\ path \in {"inner", "unnamed"}
    /\ Answered(Answer("error", NoData))

\* One second is over.  It is all that happens when the topmost bucket is
\* missing, for the cursor dereferences nil, or the file is closed.
ListExpires ==
    /\ pending # "none"
    /\ pending' = "none"
    /\ answer' = Answer("expired", NoData)
    /\ UNCHANGED <<stored, opened, path, intact, asOf, touched>>

\* What becomes of the bytes of an answer when the pages change.
SharedToo(type) == type \in {"list", "keys"}        \* mutant: List does not copy
Shared(type)    == type = "keys"

Touch ==
    /\ touched' = TRUE
    /\ \/ intact' = intact
       \/ Shared(answer.type) /\ intact' = FALSE

\* Another caller inserts or removes a key.
StoreChanges(b, k) ==
    /\ opened
    /\ stored' = [stored EXCEPT ![b] = IF k \in @ THEN @ \ {k} ELSE @ \cup {k}]
    /\ Touch
    /\ UNCHANGED <<opened, pending, path, answer, asOf>>

CloseDB ==
    /\ opened
    /\ opened' = FALSE
    /\ Touch
    /\ UNCHANGED <<stored, pending, path, answer, asOf>>

ListNext ==
    \/ CallList("List", "unnamed")
    \/ \E p \in Paths : CallList("ListKeys", p)
    \/ MsgList \/ MsgListKeys \/ MsgNoAckListKeys
    \/ ListExpires
    \/ \E b \in BucketSet, k \in Item : StoreChanges(b, k)
    \/ CloseDB

ListSpec == ListInit /\ [][ListNext]_listVars

-----------------------------------------------------------------------------

\* List's answer says, whenever it is read, what the file held at one moment:
\* every key of every bucket, with the last bucket that has it.  ListKeys'
\* answer can only be trusted until the next write or the close (repo.go:259):
\* till then it is what the bucket holds, nothing else.
ListsAreSnapshots ==
    /\ answer.type = "list" =>
          /\ intact
          /\ DOMAIN answer.data = UNION {asOf[b] : b \in BucketSet}
          /\ \A i, j \in DOMAIN Buckets, k \in Item :
                /\ k \in asOf[Buckets[i]] /\ k \in asOf[Buckets[j]] /\ i < j
                => answer.data[k] # Buckets[i]
    /\ answer.type = "keys" =>
          /\ answer.data = asOf[path]
          /\ ~touched => intact /\ answer.data = stored[path]
=============================================================================
