------------------------------- MODULE Replies -------------------------------
(***************************************************************************)
(* What becomes of a gateway's reply on its way back to a requester: first *)
(* in the nats actor, then in the handler of the app actor.                *)
(*                                                                         *)
(* A reply is abstracted to what the two decide on.  A text, that is an     *)
(* error or what an error holds, is abstracted to its first brace and to a *)
(* `resp: {` in it:                                                        *)
(*   "none"       it is empty         "plain"      no brace                *)
(*   "json"       from the first brace on it is JSON                       *)
(*   "broken"     from the first brace on it is no JSON                    *)
(*   "brokenResp" broken, but what follows `resp: ` is JSON                *)
(*   "lostResp"   broken, and what follows `resp: ` is no JSON either      *)
(* The JSON of an error may have a msg and a name, which are texts in their*)
(* turn.  Of their JSON only matters whether it has a msg, "json", or none,*)
(* "jsonBlank", and whether a `resp: {` is in it: "jsonResp" and           *)
(* "jsonBlankResp".                                                        *)
(***************************************************************************)
EXTENDS Integers

Command == {"StartService", "TakeShift", "ReleaseShift", "TakeService"}
Get     == {"CompanyProgShifts", "CompanyProgSvc", "ServiceSummary"}
KeyValue == {"CompanyDriver", "ExecutedService", "VehProgSvc"}
Kind    == Command \cup Get \cup KeyValue

ErrText == {"none", "plain", "json", "broken", "brokenResp", "lostResp"}
Inner   == {"none", "plain", "broken", "brokenResp",
            "json", "jsonBlank", "jsonResp", "jsonBlankResp"}
Text    == ErrText \cup Inner

NoJson    == {"broken", "brokenResp", "lostResp"}
Blank     == {"jsonBlank", "jsonBlankResp"}
HoldsResp == {"brokenResp", "lostResp", "jsonResp", "jsonBlankResp"}

\* Replies of the gateway.  "noItinerary": services, one without itinerary,
\* to a request that filters by route.
Body      == {"good", "bad", "empty", "noItinerary"}
HttpReply == [error : ErrText, msg : Inner, name : Inner, code : {200, 500},
              body : Body]
KvReply   == {"KvEntry", "KvEntryBad", "KvEntries", "KvError"}
Reply     == HttpReply \cup [kv : KvReply]

\* The replies that may answer a request of some kind: an error comes without
\* a body, and only JSON has a msg and a name.  The name is enumerated where it
\* is looked at, for a command when there is no msg.
Contents(k) ==
    {r \in [error : {"none"}, msg : {"none"}, name : {"none"}, code : {200, 500},
            body : Body] :
        r.body = "noItinerary" => k = "CompanyProgSvc" /\ r.code = 200}
Errors(k) ==
    {r \in [error : ErrText \ {"none"}, msg : Inner, name : Inner, code : {500},
            body : {"empty"}] :
        /\ r.error # "json" => r.msg = "none" /\ r.name = "none"
        /\ r.name # "none" => k \in Command /\ r.msg = "none"}
RepliesTo(k) == IF k \in KeyValue THEN [kv : KvReply] ELSE Contents(k) \cup Errors(k)

\* The platform carried out what a command asked for.
Done(r) == r.error = "none" /\ r.code = 200

(***************************************************************************)
(* The nats actor (HttpPostRequest, HttpGetRequest, GetKeyValue)           *)
(***************************************************************************)

ErrorReply(e) == [error |-> e, code |-> 0, body |-> "empty"]
NotConnected  == ErrorReply("plain")
AsIs(r)       == [error |-> r.error, code |-> r.code, body |-> r.body]

\* What nats makes of a JSON error: its msg; a POST falls back on the name.
MsgOrName(r) == IF r.msg # "none" THEN r.msg ELSE r.name

PostReply(r) == IF r.error = "json" THEN ErrorReply(MsgOrName(r)) ELSE AsIs(r)
GetReply(r)  == IF r.error = "json" THEN ErrorReply(r.msg) ELSE AsIs(r)

\* Key/value: an entry and an error pass; anything else becomes a Go error.
KvForward(r) == IF r.kv = "KvEntries" THEN [kv |-> "GoError"] ELSE r

FromNats(k, r) == CASE k \in Command  -> PostReply(r)
                    [] k \in Get      -> GetReply(r)
                    [] k \in KeyValue -> KvForward(r)

(***************************************************************************)
(* The app actor.  Outcomes: "ok"; "error"; "blank", an answer with neither*)
(* content nor error; "silent", no answer; "panic".                        *)
(***************************************************************************)

StartService(r) ==
    IF r.error = "none" /\ r.code = 200 /\ r.body = "good" THEN "ok" ELSE "error"

\* TakeShift, ReleaseShift, TakeService: from the first brace on, an error has
\* to be JSON, or the handler returns without an answer; its msg replaces the
\* text, and an answer whose error is blank reads as success.
TakeOrRelease(r) ==
    CASE r.error \in NoJson                  -> "silent"
      [] r.error \in Blank                   -> "ok"
      [] r.error = "none" /\ r.code = 200     -> "ok"
      [] OTHER                               -> "error"

\* Mutant: a refused GET is answered with no look at its body.
BlankIfRefused(r) ==
    CASE r.error \in HoldsResp               -> "silent"
      [] r.error \notin HoldsResp \cup {"none"} -> "error"
      [] r.error = "none" -> IF r.code # 200 THEN "blank" ELSE
            (CASE r.body = "good"        -> "ok"
               [] r.body = "noItinerary" -> "panic"
               [] OTHER                  -> "error")

\* CompanyProgShifts, CompanyProgSvc, ServiceSummary: a text with `resp: {`
\* is cut where `resp: ` begins, and so is never JSON.
GetAnswer(r) ==
    CASE r.error \in HoldsResp               -> "silent"
      [] r.error \notin HoldsResp \cup {"none"} -> "error"
      [] r.error = "none" /\ r.code = 200 ->
            (CASE r.body = "good"        -> "ok"
               [] r.body = "noItinerary" -> "panic"
               [] OTHER                  -> "error")
      [] r.error = "none" /\ r.code # 200 ->
            IF r.body = "empty" THEN "blank" ELSE "error"

\* A single executed service is parsed and left out of the answer; errors have
\* no case of their own.
ExecutedService(r) == CASE r.kv = "KvEntry"    -> "blank"
                        [] r.kv = "KvEntryBad" -> "error"
                        [] OTHER               -> "silent"

DriverOrVehicle(r) == IF r.kv = "KvEntry" THEN "ok" ELSE "error"

\* Handlers that are copies of one another.
TakeShift(r)    == TakeOrRelease(r)
ReleaseShift(r) == TakeOrRelease(r)
TakeService(r)  == TakeOrRelease(r)
CompanyProgShifts(r) == GetAnswer(r)
CompanyProgSvc(r)    == GetAnswer(r)
ServiceSummary(r)    == GetAnswer(r)
CompanyDriver(r) == DriverOrVehicle(r)
VehProgSvc(r)    == DriverOrVehicle(r)

Outcome(k, r) ==
    CASE k = "StartService"      -> StartService(r)
      [] k = "TakeShift"         -> TakeShift(r)
      [] k = "ReleaseShift"      -> ReleaseShift(r)
      [] k = "TakeService"       -> TakeService(r)
      [] k = "CompanyProgShifts" -> CompanyProgShifts(r)
      [] k = "CompanyProgSvc"    -> CompanyProgSvc(r)
      [] k = "ServiceSummary"    -> ServiceSummary(r)
      [] k = "ExecutedService"   -> ExecutedService(r)
      [] k = "CompanyDriver"     -> CompanyDriver(r)
      [] k = "VehProgSvc"        -> VehProgSvc(r)
=============================================================================
