----------------------------- MODULE TokenSource -----------------------------
(***************************************************************************)
(* Logging in to the single sign-on server, as internal/_restclient and    *)
(* internal/keyc_ do (both keycloak.go): Token() discovers the provider,   *)
(* trades a password for a token, and returns a source that refreshes it   *)
(* and a client that takes its tokens from that source.                    *)
(*                                                                         *)
(* golang.org/x/oauth2 is external.  A source hands out its token while    *)
(* that has not expired, and else refreshes it, which takes the network    *)
(* and a session the server still knows.                                   *)
(***************************************************************************)

\* fresh: the token has not expired; session: the server would refresh it.
Source == [fresh : BOOLEAN, session : BOOLEAN]
NoSource == [fresh |-> FALSE, session |-> FALSE]       \* a.tks is nil

\* Token(): a source whose token was just granted.
NewSource == [fresh |-> TRUE, session |-> TRUE]

\* tks.Token() returns a token that has not expired.
Usable(tks, online) == tks.fresh \/ (tks.session /\ online)

\* What the source is after it handed out a token.
Refreshed(tks) == [tks EXCEPT !.fresh = TRUE]
=============================================================================
