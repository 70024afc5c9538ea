-------------------------------- MODULE MCParts --------------------------------
(***************************************************************************)
(* Small instances of the parts that stand alone: the device's name, the   *)
(* tries of an HTTP request, the sequence of timeouts, the choice of a     *)
(* service, the keycloak actor, the lists of the database, the ticking     *)
(* actor and those who are told about the link.  They share nothing, so a  *)
(* behaviour runs one of them, the subject, and leaves the others where    *)
(* they begin.                                                             *)
(***************************************************************************)
EXTENDS Hostname, HttpTries, TimeoutSeq, Entity, Keycloak, DbLists, TickActor,
        Subscribers

CONSTANTS c1, c2, c3, p1, p2, k1, k2

ThreeCallers == {c1, c2, c3}
TwoAskers    == {p1, p2}
TwoItems     == {k1, k2}
TwoBuckets   == <<"first", "second">>
SomeTimeouts == {<<>>, <<2>>, <<0, 1>>, <<2, 1>>, <<1, 2, 0>>}
SomeTimes    == 0 .. 6

VARIABLE subject

parts == <<hostVars, httpVars, timeoutVars, entityVars, keycVars, listVars,
           tickVars, subsVars>>

\* Only the subject begins in each of its initial states.
Init ==
    /\ HostInit /\ HttpInit /\ TimeoutInit /\ EntityInit /\ KeycInit
    /\ ListInit /\ TickInit /\ SubsInit
    /\ subject \in {"hostname", "http", "timeout", "entity", "keycloak", "lists",
                    "ticker", "subscribers"}
    /\ subject # "hostname" => ~serial
    /\ subject # "http" => body = "none" /\ httpc = "given" /\ ~idle
    /\ subject # "timeout" => given_seq = <<>>

Next ==
    /\ UNCHANGED subject
    /\ \/ /\ subject = "hostname" /\ HostNext
          /\ UNCHANGED <<httpVars, timeoutVars, entityVars, keycVars, listVars,
                         tickVars, subsVars>>
       \/ /\ subject = "http" /\ HttpNext
          /\ UNCHANGED <<hostVars, timeoutVars, entityVars, keycVars, listVars,
                         tickVars, subsVars>>
       \/ /\ subject = "timeout" /\ TimeoutNext
          /\ UNCHANGED <<hostVars, httpVars, entityVars, keycVars, listVars,
                         tickVars, subsVars>>
       \/ /\ subject = "entity" /\ EntityNext
          /\ UNCHANGED <<hostVars, httpVars, timeoutVars, keycVars, listVars,
                         tickVars, subsVars>>
       \/ /\ subject = "keycloak" /\ KeycNext
          /\ UNCHANGED <<hostVars, httpVars, timeoutVars, entityVars, listVars,
                         tickVars, subsVars>>
       \/ /\ subject = "lists" /\ ListNext
          /\ UNCHANGED <<hostVars, httpVars, timeoutVars, entityVars, keycVars,
                         tickVars, subsVars>>
       \/ /\ subject = "ticker" /\ TickNext
          /\ UNCHANGED <<hostVars, httpVars, timeoutVars, entityVars, keycVars,
                         listVars, subsVars>>
       \/ /\ subject = "subscribers" /\ SubsNext
          /\ UNCHANGED <<hostVars, httpVars, timeoutVars, entityVars, keycVars,
                         listVars, tickVars>>

Spec == Init /\ [][Next]_<<subject, parts>>

-----------------------------------------------------------------------------

\* Every variable of every part keeps its type; the tries of a request never
\* exceed three.
TypeOK ==
    /\ HostTypeOK /\ HttpTypeOK /\ TimeoutTypeOK /\ EntityTypeOK
    /\ KeycTypeOK /\ ListTypeOK /\ TickTypeOK /\ SubsTypeOK
=============================================================================
