------------------------------- MODULE Hostname -------------------------------
(***************************************************************************)
(* The device's name (internal/utils/hostname.go).  Hostname keeps it in a *)
(* package variable that it fills on its first call, in two writes: the    *)
(* operating system's name, then the serial number of the environment file *)
(* over it.  NewActor of both actors calls it, from whatever goroutines    *)
(* the program builds them in, and no lock protects the variable.          *)
(*                                                                         *)
(* A read that meets a write of the string is undefined: it may mix the    *)
(* two (Torn).                                                             *)
(***************************************************************************)
EXTENDS Naturals

CONSTANT Caller     \* goroutines that call Hostname, once each

VARIABLES
    hostname,   \* the package variable: a name, or "" at first
    serial,     \* the file has a serial number with a legal character
    call,       \* per caller: "none", "empty" (it found none), "named",
                \* "filled" (it has written what it had to), "done"
    name,       \* per caller, what it got
    overlapped, \* history: callers that were not alone
    given       \* history: SetHostname was called, and when: "no", "first", "late"

hostVars == <<hostname, serial, call, name, overlapped, given>>

Names == {"", "os", "serial", "given", "torn"}
Torn  == "torn"

HostTypeOK ==
    /\ hostname \in Names \ {Torn}
    /\ serial \in BOOLEAN
    /\ call \in [Caller -> {"none", "empty", "named", "filled", "done"}]
    /\ name \in [Caller -> Names]
    /\ overlapped \subseteq Caller
    /\ given \in {"no", "first", "late"}

HostInit ==
    /\ hostname = ""
    /\ serial \in BOOLEAN
    /\ call = [c \in Caller |-> "none"]
    /\ name = [c \in Caller |-> ""]
    /\ overlapped = {}
    /\ given = "no"

Inside == {c \in Caller : call[c] \notin {"none", "done"}}
Writes == {c \in Caller : call[c] \in {"empty", "named"}}

\* What a caller reads of the variable while others may be writing it.
Reads(c) == {hostname} \cup (IF Writes \ {c} = {} THEN {} ELSE {Torn})

\* Nobody else may be inside for a caller to have been alone.
Meets(c) ==
    overlapped' = overlapped \cup (IF Inside \ {c} = {} THEN {} ELSE Inside \cup {c})

\* A call that finds a name returns it.
Found(c) ==
    /\ call[c] = "none"
    /\ hostname # ""
    /\ \E n \in Reads(c) : name' = [name EXCEPT ![c] = n]
    /\ call' = [call EXCEPT ![c] = "done"]
    /\ Meets(c)
    /\ UNCHANGED <<hostname, serial, given>>

\* A call that finds none reads the file.
NotFound(c) ==
    /\ call[c] = "none"
    /\ hostname = ""
    /\ call' = [call EXCEPT ![c] = "empty"]
    /\ Meets(c)
    /\ UNCHANGED <<hostname, serial, name, given>>

\* os.Hostname, written to the package variable.
OsName(c) ==
    /\ call[c] = "empty"
    /\ hostname' = "os"
    /\ call' = [call EXCEPT ![c] = IF serial THEN "named" ELSE "filled"]
    /\ UNCHANGED <<serial, name, overlapped, given>>

ToALocal == hostname' = hostname        \* mutant: := instead of =
Override == hostname' = "serial"

\* The serial number goes over it.
SerialName(c) ==
    /\ call[c] = "named"
    /\ Override
    /\ call' = [call EXCEPT ![c] = "filled"]
    /\ UNCHANGED <<serial, name, overlapped, given>>

\* What is returned is the variable, not what the caller wrote.
Return(c) ==
    /\ call[c] = "filled"
    /\ \E n \in Reads(c) : name' = [name EXCEPT ![c] = n]
    /\ call' = [call EXCEPT ![c] = "done"]
    /\ UNCHANGED <<hostname, serial, overlapped, given>>

SetHostname ==
    /\ given = "no"
    /\ hostname' = "given"
    /\ given' = IF \A c \in Caller : call[c] = "none" THEN "first" ELSE "late"
    /\ UNCHANGED <<serial, call, name, overlapped>>

HostNext ==
    \/ \E c \in Caller : Found(c) \/ NotFound(c) \/ OsName(c) \/ SerialName(c)
                            \/ Return(c)
    \/ SetHostname

HostSpec == HostInit /\ [][HostNext]_hostVars

-----------------------------------------------------------------------------

DeviceName == IF serial THEN "serial" ELSE "os"

\* A caller that was never inside at the same time as another gets the
\* device's name, and a name that was set before everything is everybody's.
\* Callers that overlap may get the operating system's name for good; but once
\* nobody is inside, the variable has the name for all who come later, whatever
\* interleaving it went through.
RightName ==
    /\ \A c \in Caller : call[c] = "done" =>
          /\ given = "first" => name[c] = "given"
          /\ given = "no" /\ c \notin overlapped => name[c] = DeviceName
    /\ given = "no" /\ Inside = {} /\ hostname # "" => hostname = DeviceName
=============================================================================
