------------------------------- MODULE KvStore -------------------------------
(***************************************************************************)
(* What the database promises its callers, whatever becomes of the actor   *)
(* that keeps it: a call takes effect at most once, at one instant after   *)
(* it was made; its caller is told what it met at that instant, or gives   *)
(* up without knowing whether there is or ever will be such an instant.    *)
(*                                                                         *)
(* Only four things are refused: a call that no bucket can serve, the      *)
(* insert of an id that is there, and a delete or a get in nested buckets  *)
(* no call has made.  A refused call has written nothing; one whose commit *)
(* failed has written all or nothing.                                      *)
(***************************************************************************)
CONSTANTS
    Op,     \* the calls, each made at most once; a call writes its own name
    Key,    \* the ids
    None    \* no value

VARIABLES
    request,  \* what each call asks for
    data,     \* the value of each id
    nested,   \* the nested buckets the calls name are there
    result,   \* what each call met when it took effect
    told      \* what its caller was told

\* A bad call names no bucket, or has an id or a bucket's name that bbolt does
\* not accept.
Call   == [kind : {"insert", "update", "delete", "get"}, key : Key,
           form : {"good", "bad"}]
Result == {"ack", "refused", "failed"} \cup Op \cup {None}

Init ==
    /\ request \in [Op -> Call]
    /\ data = [k \in Key |-> None]
    /\ nested \in BOOLEAN
    /\ result = [o \in Op |-> "pending"]
    /\ told = [o \in Op |-> "new"]

Make(o) ==
    /\ told[o] = "new"
    /\ told' = [told EXCEPT ![o] = "waiting"]
    /\ UNCHANGED <<request, data, nested, result>>

Meets(o, r)  == result' = [result EXCEPT ![o] = r]
Writes(o, v) == data' = [data EXCEPT ![request[o].key] = v] /\ nested' = TRUE
NoWrite      == UNCHANGED <<data, nested>>

\* v is written, or the commit fails and v is written or not.
Commits(o, v) == \/ Writes(o, v) /\ Meets(o, "ack")
                 \/ (Writes(o, v) \/ NoWrite) /\ Meets(o, "failed")

TakeEffect(o) ==
    LET kind    == request[o].kind
        value   == data[request[o].key]
        refused == \/ request[o].form = "bad"
                   \/ kind = "insert" /\ value # None
                   \/ kind \in {"delete", "get"} /\ ~nested
    IN  /\ told[o] # "new"
        /\ result[o] = "pending"
        /\ \/ refused /\ NoWrite /\ Meets(o, "refused")
           \/ ~refused /\ kind \in {"insert", "update"} /\ Commits(o, o)
           \/ ~refused /\ kind = "delete" /\ Commits(o, None)
           \/ ~refused /\ kind = "get" /\ NoWrite /\ Meets(o, value)
        /\ UNCHANGED <<request, told>>

Tell(o) ==
    /\ told[o] = "waiting"
    /\ result[o] # "pending"
    /\ told' = [told EXCEPT ![o] = result[o]]
    /\ UNCHANGED <<request, data, nested, result>>

GiveUp(o) ==
    /\ told[o] = "waiting"
    /\ told' = [told EXCEPT ![o] = "unknown"]
    /\ UNCHANGED <<request, data, nested, result>>

Next == \E o \in Op : Make(o) \/ TakeEffect(o) \/ Tell(o) \/ GiveUp(o)

Spec == Init /\ [][Next]_<<request, data, nested, result, told>>
=============================================================================
