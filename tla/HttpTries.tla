------------------------------ MODULE HttpTries ------------------------------
(***************************************************************************)
(* utils.Get and utils.Post (internal/utils/platform.go): the same request *)
(* is tried up to three times, two seconds apart, until the client returns *)
(* a response.  Post's body is a buffer that the first try which writes it *)
(* empties, and the request keeps the empty buffer.  Without a client one  *)
(* is made with the certificates of a directory, and where that cannot be  *)
(* read log.Fatalf ends the program.                                       *)
(*                                                                         *)
(* net/http is external: a try may fail before anything was written, or    *)
(* after the server has done what was asked.  A body shorter than its      *)
(* Content-Length fails before anything is written.  On a new connection   *)
(* that is the end of the try.  On one that was idle the Transport tries   *)
(* again by itself, and for that makes the whole body anew with GetBody,   *)
(* which http.NewRequest has set: a replay.  The client's timeout may end  *)
(* a try whose dial goes on, and the connection then becomes idle.         *)
(* Connections are HTTP/1, and redirections are left out.                  *)
(***************************************************************************)
EXTENDS Naturals

VARIABLES
    body,       \* "none", or what is left of it: "whole", "read"
    httpc,      \* client: "given", "nil" or "made"
    outcome,    \* "trying", "ok", "refused" (not 200), "error" or "exited"
    triesMade,
    idle,       \* the client has an idle connection
    done,       \* history: how often the server did what a POST asked
    replays,    \* history: tries that replayed the body
    outlived    \* history: a connection became idle after its try had ended

httpVars == <<body, httpc, outcome, triesMade, idle, done, replays, outlived>>

TriesAllowed == 3

HttpTypeOK ==
    /\ body \in {"none", "whole", "read"}
    /\ httpc \in {"given", "nil", "made"}
    /\ outcome \in {"trying", "ok", "refused", "error", "exited"}
    /\ triesMade \in 0 .. TriesAllowed
    /\ done \in 0 .. TriesAllowed /\ replays \in 0 .. TriesAllowed
    /\ idle \in BOOLEAN /\ outlived \in BOOLEAN

\* A GET has no body, a POST may have one.
HttpInit ==
    /\ body \in {"none", "whole"}
    /\ httpc \in {"given", "nil"}
    /\ outcome = "trying"
    /\ triesMade = 0
    /\ idle \in BOOLEAN /\ (httpc = "nil" => ~idle)
    /\ done = 0 /\ replays = 0 /\ outlived = FALSE

LoadLocalCert ==
    /\ outcome = "trying" /\ httpc = "nil"
    /\ \/ httpc' = "made" /\ UNCHANGED outcome
       \/ outcome' = "exited" /\ UNCHANGED httpc
    /\ UNCHANGED <<body, triesMade, idle, done, replays, outlived>>

Trying == outcome = "trying" /\ httpc # "nil"

Rewinds(b) == b                                \* mutant: each try has a body
Sent(b)    == IF b = "whole" THEN "read" ELSE b

\* mutant: the loop counts from one
TryAgain == outcome' = IF triesMade = TriesAllowed THEN "error" ELSE "trying"

NextTry == outcome' = IF triesMade + 1 = TriesAllowed THEN "error" ELSE "trying"

\* Who shares the client uses its connections and leaves others.
IdleChanges ==
    /\ Trying /\ httpc = "given"
    /\ idle' = ~idle
    /\ UNCHANGED <<body, httpc, outcome, triesMade, done, replays, outlived>>

\* Nothing was written: no connection, or a body that was read before.
Unsent ==
    /\ Trying
    /\ triesMade' = triesMade + 1
    /\ NextTry
    /\ idle' \in BOOLEAN
    /\ outlived' = (outlived \/ idle')
    /\ UNCHANGED <<body, httpc, done, replays>>

\* The request is written, on the idle connection if there is one; a body that
\* was read before only by a replay.
Written ==
    /\ Trying
    /\ body = "read" => idle
    /\ body' = Sent(body)
    /\ replays' = IF body = "read" THEN replays + 1 ELSE replays
    /\ idle' = FALSE
    /\ triesMade' = triesMade + 1
    /\ UNCHANGED <<httpc, outlived>>

Serves == IF body = "none" THEN {0} ELSE {0, 1}

\* The answer did not come.
AnswerLost == Written /\ NextTry /\ \E n \in Serves : done' = done + n

\* Whatever the status, a response is not asked for again.
Responded ==
    /\ Written
    /\ \/ outcome' = "ok" /\ done' = IF body = "none" THEN done ELSE done + 1
       \/ outcome' = "refused" /\ \E n \in Serves : done' = done + n

HttpNext == LoadLocalCert \/ IdleChanges \/ Unsent \/ AnswerLost \/ Responded

HttpSpec == HttpInit /\ [][HttpNext]_httpVars

-----------------------------------------------------------------------------

\* The tries of a POST make the server do it at most once, unless the Transport
\* replays the body: the loop alone never repeats it, because its buffer is empty
\* by then.  With a client of its own even a replay needs a try whose dial has
\* outlived it.
PostDoneOnce ==
    body # "none" => /\ done <= 1 + replays
                     /\ replays > 0 => httpc = "given" \/ outlived
=============================================================================
