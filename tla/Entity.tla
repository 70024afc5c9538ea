-------------------------------- MODULE Entity --------------------------------
(***************************************************************************)
(* Choosing a programmed service (internal/app/entity.go): Next takes the  *)
(* one whose time is nearest to now, and says whether it lies in a window; *)
(* Newest takes the last one that has begun or begins within three         *)
(* minutes.  A service is its time; the getter of a nil service answers 0. *)
(*                                                                         *)
(* Both are functions of their arguments and the clock.  A behaviour is    *)
(* one call: Look chooses what it is made with.                            *)
(***************************************************************************)
EXTENDS Integers, Sequences

CONSTANTS
    Times,      \* times of services, 0 among them
    MaxLen,     \* bound: services in a list
    Now,        \* the clock
    Ahead       \* three minutes

ASSUME EntityAssumption ==
    Times \subseteq Int /\ MaxLen \in Nat /\ Now \in Int /\ Ahead \in Nat

VARIABLES
    ss,         \* the list
    from, to,   \* Next's window
    looked

entityVars == <<ss, from, to, looked>>

Lists == UNION {[1 .. n -> Times] : n \in 0 .. MaxLen}

EntityTypeOK == ss \in Lists /\ from \in Int /\ to \in Int /\ looked \in BOOLEAN

EntityInit == ss = <<>> /\ from = 0 /\ to = 0 /\ looked = FALSE

Look ==
    /\ ~looked
    /\ looked' = TRUE
    /\ ss' \in Lists
    /\ from' \in Times /\ to' \in Times

EntityNext == Look

EntitySpec == EntityInit /\ [][EntityNext]_entityVars

Distance(t) == IF t < Now THEN Now - t ELSE t - Now

FirstOf(S) == CHOOSE i \in S : \A j \in S : i <= j

Nearest(i) == \A j \in DOMAIN ss : Distance(ss[i]) <= Distance(ss[j])

\* Next: the index of the service, 0 for nil, and whether it is in the window.
\* Of two that are as near the first is taken.
NextService ==
    LET N == {i \in DOMAIN ss : Nearest(i)}
        i == IF N = {} THEN 0 ELSE FirstOf(N)
        t == IF i = 0 THEN 0 ELSE ss[i]
    IN  [service |-> i, ok |-> from < t /\ t < to]

Late(t) == t > Now + Ahead

\* mutant: the loop's first turn is not exempt
AnyTurn(i)   == i >= 1
LaterTurn(i) == i > 1

\* sort.Slice: where each service goes, two at the same time in either order.
Sorts(p) ==
    \A i, j \in DOMAIN ss : /\ i # j => p[i] # p[j]
                            /\ i < j => ss[p[i]] <= ss[p[j]]

Sorted == LET p == CHOOSE p \in [DOMAIN ss -> DOMAIN ss] : Sorts(p)
          IN  [i \in DOMAIN ss |-> ss[p[i]]]

\* Newest: the loop over the sorted list returns the service before the first
\* late one, but not in its first turn; else the last, if that is not late.
Newest ==
    LET sorted == Sorted
        L      == {i \in DOMAIN sorted : LaterTurn(i) /\ Late(sorted[i])}
        n      == Len(sorted)
    IN  IF L # {} /\ FirstOf(L) > 1
        THEN [time |-> sorted[FirstOf(L) - 1], ok |-> TRUE]
        ELSE IF n > 0 /\ ~Late(sorted[n])
             THEN [time |-> sorted[n], ok |-> TRUE]
             ELSE [time |-> 0, ok |-> FALSE]

-----------------------------------------------------------------------------

\* What Next finds is nearest; a window that lies around now misses none.
NextIsNearest ==
    LET r == NextService IN
       /\ r.service = 0 => ss = <<>>
       /\ r.service # 0 =>
             /\ ~\E j \in DOMAIN ss : Distance(ss[j]) < Distance(ss[r.service])
             /\ r.ok => ss[r.service] \in from + 1 .. to - 1
       /\ ss # <<>> /\ ~r.ok /\ Now - from = to - Now
             => ~\E j \in DOMAIN ss : from < ss[j] /\ ss[j] < to

\* What Newest finds is the last that is not late.
NewestIsDue ==
    LET r   == Newest
        due == {i \in DOMAIN ss : ~Late(ss[i])}
    IN  /\ due # {} => /\ r.ok
                       /\ \E i \in due : /\ r.time = ss[i]
                                         /\ \A j \in due : ss[j] <= ss[i]
        /\ due = {} => (r.ok <=> Len(ss) >= 2)

\* Next finds a nearest service, and none inside a window around now is missed
\* (in another window it misses a farther one that lies inside, entity.go:62).
\* Newest finds the last service that is not late, and nothing only if there
\* is none; but where all of two or more are late it takes the first of them,
\* for only the loop's first turn is exempt (entity.go:77).
RightService == NextIsNearest /\ NewestIsDue
=============================================================================
