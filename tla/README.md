# A verification of go-schservices

`go-schservices` is a Go library of protoactor actors that runs in a vehicle. It
keeps a link with the fleet's gateway (`gwiot`), follows the programmed services
of the vehicle in a NATS key/value bucket, passes every change on to a consumer
(its parent actor and whoever subscribed), and forwards requests of drivers and
consoles to the fleet platform. The TLA+ modules here model what in that code is
concurrent, can fail or can arrive late.

## The system

| component | state | operations | talks to |
|---|---|---|---|
| app actor, `internal/app/actor.go` | `pidData`, `dailySvcCacheData`, `dailySvcCacheTime`, mailbox, goroutines that delay removals, goroutines that fetch | ten request handlers, `Mods`, `Snapshot`, `MsgStatus`, `Terminated`, `Started`, `Stopping` | consumers, its child the nats actor (futures), the fleet API |
| nats actor, `internal/nats/actor.go` | `remoteAddress`, `pidNats`, `connected`, `lastvalue`, mailbox, ticker | `tickmsg`, `DiscoveryResponse`, `Connected`, `Disconnected`, `Terminated`, `WatchKeyValue`, `WatchMessage`, request forwarding, `MsgSubscribe`, `MsgRequeststatus` | its parent, the discovery actor, a client actor that it spawns in the gateway's process |
| discovery actor, `internal/nats/discovery.go` | a ticker | publishes the question, forwards the answer | pubsub, its parent |
| pubsub, `internal/pubsub/pubsub.go` | the only MQTT client, a map of subscriptions | `Publish`, `Subscribe`, `Started` | the MQTT broker, by callbacks |
| database actor, `internal/_database_` | a bbolt file, a state machine, a behaviour | open, close, fail and reopen, insert, update, delete, get, query, list | its requesters |
| rest client and keycloak actors, `internal/_restclient`, `internal/keyc_` | token source, HTTP client, the times of the last requests | throttled requests | the fleet API |
| helpers, `internal/utils` | the device's name, a package variable | `Get`, `Post`, `Hostname` | called by the actors above |
| entities and timers, `internal/app/entity.go`, `internal/utils` | a ticking actor's `quit` channel, what `Timeout`'s function captures | choice of the next service, sequence of timeouts, ticker actor | nobody calls them |
| program, `main/` | flags | starts MQTT and remoting, waits for a signal | spawns none of the actors: the library is embedded through `pkg/services` |

How they interact. A consumer sends a request to the app actor, which blocks on a
future of the nats actor, which blocks on a future of the gateway's client. In the
other direction the client streams the entries of a bucket to the nats actor, which
parses them and sends them to the app actor, which publishes them. The nats actor
finds the gateway by a question on MQTT and spawns its client there under a fixed
name; it learns of the client's death by `Terminated`, which overtakes user
messages. The two actors form a supervision tree: when the app actor panics, the
nats actor is stopped, which poisons the client, and started again *as the same Go
object*.

What is hard in it: the same name for every incarnation of the client; messages of
a dead client that are still queued; fields that outlive a restart while the
mailbox does not; several streams that replay the same history; removals told from
a goroutine three seconds later; goroutines that write the cache through the
mailbox while they answer the requester directly; two futures of the same length
one inside the other; replies whose error text is taken apart twice. The complete
list, each at its line, is `hazards` in `PROJECT.json`.

## The modules

| module | models | composes |
|---|---|---|
| `NatsLink` | nats actor's link: discovery, spawn, watch, status, termination, restart by the parent | with the discovery actor and the gateway as actions of the environment |
| `PlanFeed` | what the consumer is promised about the programmed services: the abstract specification | - |
| `ServiceFeed` | bucket -> nats actor (`WatchMessage`) -> app actor (`Mods`) -> consumer's view | instantiates `PlanFeed`, which it implements; rests on the recovery of the link, which `NatsLink` checks |
| `Subscribers` | who is told of the link's status: event stream, app actor (`MsgStatus`), consumer | the link changes as `NatsLink` says, here at any time |
| `DailyCache` | `GetDriverDailyServicesMsg`: cache, goroutine, fetch | - |
| `Replies` | what nats actor and app actor make of a gateway's reply, as operators | - |
| `RequestPath` | consumer -> app actor -> nats actor -> gateway and back, with both futures | extends `Replies`; the link appears as `LinkChanges` |
| `PubSub` | the MQTT client's actor, callers of `Subscribe`, losses of the connection | the discovery actor's subscription is one of its topics |
| `KvStore` | what the database promises its callers: the abstract specification | - |
| `DbActor` | database actor (behaviour, state machine, file) and the service before it | instantiates `KvStore`, which it implements |
| `DbQuery` | one query: service, child actor, database actor, cursor | runs while `DbActor` is in `WaitState` |
| `DbLists` | `List` and `ListKeys`, and what becomes of their answers | - |
| `TokenSource` | logging in, tokens that expire, sessions that end, as operators | - |
| `RestClient` | the rest client actor: three throttled handlers, login, tries | extends `TokenSource` |
| `Keycloak` | the keycloak actor | extends `TokenSource` |
| `HttpTries`, `Hostname`, `TimeoutSeq`, `TickActor`, `Entity` | `utils.Get` and `Post`, `utils.Hostname`, `utils.Timeout`, `TrickActor`, `app.Next` and `Newest` | - |
| `NatsLinkProofs`, `ServiceFeedProofs`, `DailyCacheProofs`, `RequestPathProofs`, `DbActorProofs`, `DbQueryProofs`, `RestClientProofs` | theorems | extend the module they are about |
| `PartsProofs` | theorems about `PubSub` and the parts of `MCParts` | extends `MCParts` and `PubSub` |
| `MCParts` | one of `Hostname`, `HttpTries`, `TimeoutSeq`, `Entity`, `Keycloak`, `DbLists`, `TickActor`, `Subscribers` at a time | extends all of them; they share nothing, so that a behaviour chooses its subject and leaves the others where they begin |
| the other `MC*` | small instances | extend the module they check |

### NatsLink

`remoteAddress`, `pidNats` and `connected` are the fields of the same names; `told`
is the last `MsgStatus` the parent got; `inbox` holds the user messages and `term`
the `Terminated`s, which are handled at any time because system messages have
priority. `SpawnOK`, `SpawnFails`, `Discover`, `Poll` and `Idle` are the branches of
`tickmsg` (135-172); the other handlers have actions of their names. Life cycle:
`Stopping` (cancel the ticks, poison the client; the poison has a timeout and may not
arrive), `Stopped` (the mailbox is gone), `StartedAgain` (same fields). The actor
identifies a client by its Id, which all incarnations share; the model numbers
them and lets *any* `Terminated` drop the client that is held, which is what the
comparison at line 105 does.

External, modelled from how the code uses it: `SpawnNamed` returns the client that
already has the name; a lost endpoint announces `Terminated` although the client
lives; a client reports its connection to whoever watches through it and answers
a status request. Faults are counted: `MaxFaults`, `MaxFlaps`, `MaxAppRestarts`.

### ServiceFeed and PlanFeed

`log` is the key's history as the platform wrote it, `history` how many entries this bucket keeps.
A stream is one registered watch; `pos` is what it delivered, and `NextRev` skips what was purged
meanwhile. `WatchMessage` drops an entry equal to `lastvalue` and nothing else, as the code does.
`Mods` sets the view of updates and additions at once and starts a goroutine per removal; `Remove`
is that goroutine waking up. An entry's `parses` is FALSE when it is not the JSON of a `Mods`.
`ClientDies` is a death of the client itself. `Restart` is a restart of the app actor, and of the nats actor with it:
either the poison reaches the client and the streams end, or they go on and what they deliver meanwhile is lost with the
nats actor's mailbox; `missed` are the revisions so lost that no stream will deliver any more, until the next watch.
A service `Retained` is one whose deciding entry the bucket still holds and no restart lost: of others nothing can be
promised (see below).

`PlanFeed` knows no streams: a revision is announced, possibly again and possibly after a newer one,
and an announced revision's removals are told later. `ServiceFeed` implements it with `announced` as
`handled`: nothing is told that the plan never said.

### Subscribers

`evs` counts each listener's subscriptions on the event stream, `subscriptors` is the map
that remembers one of them, `told` the `MsgStatus` on their way up. `LinkConnected`, `LinkDisconnected`,
`LinkTerminated` and `LinkRestarts` are the handlers of the nats actor, reduced to the two fields that
`MsgRequeststatus` reads; `MsgStatus` is the app actor's.

### DailyCache

One action per step of the handler and of its goroutine, in the order of the code:
the cache is told through the mailbox *before* the requester is answered, and that
order is what `SparesTheApi` rests on. `started` and `known` are history variables.
The login and the call of the fleet API are a step each. The login ends, because its client has a
timeout of 60 s; the call need not. `config.Client` (`daily_services.go:50`) makes a client by
`oauth2.NewClient`, which in the pinned version (v0.6.0, `go.mod:15`) takes over the transport and not the timeout.

### RequestPath and Replies

`stage` follows a request through the app actor, `natsq` and `natsOn` through the
nats actor, `inFlight` and `reply` through the gateway. The futures appear as
`Respond` (in time), `DeadLetter` (too late) and `Expires`. Replies are abstracted to
what the code's decisions tell apart: HTTP code, body that parses or not, and of an error text, and of the `msg` and
`name` its JSON may hold, what follows the first brace and what follows `resp: `. `FromNats` is the nats actor's
mapping of a reply, which puts a `msg` or `name` in the error's place; then each handler of the app actor has an
operator (`TakeShift` to `VehProgSvc`), which may look for JSON in that text once more. `Outcome` chooses among them.

### PubSub

`actor` is how far `Started` has come; each step of it, and each step of a caller of `Subscribe`
(the write of the map, the look at the connection, the SUBSCRIBE), is an action, because nothing
orders the two but the order of the lines. The map is a Go map without a lock: a write that
meets the range over it is seen by the range, is not, or aborts the process, and `Subscribe` has
the three outcomes. The MQTT library is external: with `AutoReconnect` it counts as connected while it
reconnects, a SUBSCRIBE then fails at once, and the session is clean, so that `Drop` takes every subscription
with it and no code brings one back (`missed`). A panic of `Started` starts the same object again.
`Publish` is left out: it hands the message to the client and touches neither the map nor a subscription.

### DbActor and KvStore

`behavior`, `fsm` and `db` are the three copies of "is the file open" that `actor.go` and `fsm.go` keep.
`Open`, `Restart`, `Opened`, `Close` are a handler together with the state machine's callback it runs, message
to self included; `Ignore` is what `CloseState` and `WaitState` have no case for. Insert, update, delete and get
stand for the requests; `bucket` says whether the file has the topmost bucket, which nothing in the code creates:
without it every transaction panics (`Panic`). `Request`, `Answer` and `Timeout` are a call of the service.
A call may be refused for what it asks: a name or id that bbolt does not accept (`form`), an insert of a known id, a
delete or get while the nested bucket is missing (`nested`). Or its commit fails, is answered with an error, and may
all the same stand in the file (`Commit`).
`KvStore` knows neither states nor mailbox: a call takes effect at most once, at one instant after it was made, and its
caller is told what it met or gives up. It says for each call when it is refused, and that nothing else refuses it but a
failed write. The refinement mapping is the identity on `request`, `data`, `nested`, `result` and `told`. It shows that an expired future never makes a call take effect twice, nor an answer lie, and it leaves
open, as the code does, whether a call its caller gave up on took effect.

### DbQuery and DbLists

`DbQuery` is one call of `Query`: the service spawns a child and waits twenty seconds, the child asks the
database actor, which walks a cursor and waits three seconds in each record for the child to ask for the
next. The records are the numbers 1 to `Records` in bbolt's order, and those with the prefix are a block of
them (`block`), which is all a cursor can tell. `FirstKey` and `InRange` are the four loops. Every wait may
expire at any moment; an expired one cancels the walk, and a cancelled walk is acknowledged like a complete
one. `busy` is the caller's function, of which nothing is assumed.

`DbLists` keeps apart what an answer said when it was made and whether its bytes are still what they were
(`intact`): `MsgList` copies, `MsgListKeys` does not.

### RestClient, Keycloak and TokenSource

The three handlers of the rest client are copies that differ in the kind of data and in two places in the timestamp: `Reads`
and `Writes` say for each handler which one stands there, and the rest is one action each with the kind as parameter. A handler
blocks the actor while `utils.Get` tries; tokens, sessions and the network change between two tries. A try may wait for its
response for ever (`stalled`): `keycloak.go:31` makes the client by `oauth2.NewClient`, without the timeout of line 21. `tks` and `client` are set together by a login and apart by
an error, which gives up the client only (`GiveUp`): afterwards every request fails at once, until the session ends and
the source hands out no token any more. `Keycloak` numbers clients by the login they come from.

### The small parts

`HttpTries`: three tries of one request object, whose body the first try that writes it empties. Later tries send
nothing, except by a replay: over a connection that was idle, net/http's Transport begins again by itself when nothing
could be written, and takes a new copy of the body (`GetBody`). `idle`, `replays` and `outlived` follow that. `Hostname`: a
package variable filled in two writes by callers that do not know of each other; a read that meets a write may be
torn. `TimeoutSeq`: the captured `mem` and `idx`. `TickActor`: channels are numbered, and a goroutine reads the
field `quit` anew in each turn, as the closure does. `Entity`: a service is its time, and `Next` and `Newest` are
operators that are compared with what they should find.

## The runs

| run | question | bounds, and why they are enough |
|---|---|---|
| `link_restart` | can a dead client be kept? one that feeds nothing? is every loss told? | 1 restart and 2 faults: a fault during the recovery from another, and a restart together with a failure |
| `link_live` | does the link come back? | 1 fault and 1 flap, two addresses, so that an answer may be out of date |
| `feed` | is what the bucket holds told, in an order that ends with the plan? is the promise kept? | 4 entries in buckets that keep 1, 2 or all of them, 2 streams, 1 death or restart: one stream replays behind another, entries are purged while they are replayed, a service is removed and re-added. One service: services meet only in the bucket they fill, and `Garbage` fills it too |
| `cache` | is the API spared, the cache sound, each answered, and once? | 3 requests: two overlapping fetches, of which one may hang, and one request after an answer; 2 ticks, the life time of the cache |
| `cache_driver` | *violated*: the right driver's services | the first finding |
| `path` | do the answers tell what happened? is the app actor ever stuck? | 2 requests of 5 handler shapes, every reply and every text in it: a late answer and a later request; the link is found and lost |
| `path_nested` | *violated*: the nested error is extracted | the second finding |
| `pubsub` | does a subscription fall between its caller and `Started`? is a failed one repaired? | 2 topics, 2 calls each, 2 failed connects, 2 losses: one topic is stored while the other is ranged over, and a call is repeated after a loss |
| `db` | do the three copies agree? is the store implemented? is the file opened? | 2 calls on one id, each well formed or not, 1 failed open, 2 commands, 1 stop: a close and an open between two requests, a failure after a close. A second failed open in a row meets the state the first left |
| `query` | what does the caller's function see, and when? does the database get free? | 4 records with every block, in both directions: records before, in and after the block, and two inside |
| `rest` | is a failed client used again? does one kind throttle another? is everybody told in the end? | 2 kinds (each with a timestamp of its own, so that one handler may write the other's), 3 requests waiting, 3 faults, and thirty seconds in 2 ticks: a lost GET, a refused login, and one more, while a timestamp is new, older, old |
| `parts` | the small parts | 3 callers of `Hostname`; timeouts of up to three turns and 4 calls; lists of up to three services at 7 times; 2 askers and 3 logins; 2 buckets of 2 keys; 4 starts of the ticking actor; 2 listeners and 3 changes |

Deadlock is checked where the system cannot rest: `NatsLink` and `RestClient`. In the other runs the platform
stops after `MaxLog` entries, requests, calls and starts are finitely many, or the program may exit
(`HttpTries`) or abort (`PubSub`), and then nothing is left to do.

Bounds. `MaxInbox` of `NatsLink` keeps ticks and discovery answers out of a long mailbox (the ticker
ticks once a minute; a mailbox with two of its messages is already late by more);
messages the actor sends itself and messages of clients are never kept out.
`MaxTimers` bounds the goroutines that wait to remove the same service and is high
enough in the run never to hold `Mods` back for good. Symmetry is used for addresses in
`link_restart`, which checks no liveness.

Type invariants. Each module has one, and all are theorems, for every instance (`TypeCorrect`,
`MqttTypeCorrect`, `TypesHold`); that of the small parts is also checked by `parts`, for it bounds the tries.

Fairness. `NatsLink`: the ticker and the mailbox run (weak fairness of the actor), messages
that are not lost arrive, and the gateway comes up in the end: without it there is
nothing to link nothing to link to. Faults are never fair. `ServiceFeed`: mailbox, goroutines, streams, and a new watch when none is left,
which `LinkRecovers` shows of `NatsLink` as long as there was no restart; after one nothing is assumed of new watches,
since the actor may hold a dead client for ever. `DailyCache`: mailbox, goroutines and the login, which ends by its client's
timeout of 60 s; nothing of the fetch, whose client has none. `RequestPath`: the app actor's mailbox and
its futures only: nothing is assumed of the nats actor or the gateway. `PubSub`: the actor and a
call of `Subscribe` that has begun; failures to connect are bounded, losses are never fair. `DbActor`:
the mailbox, with failed opens bounded; `Opens` gives up when somebody sends a command or stops the actor.
`DbQuery`: the database actor and its futures; nothing of the child or the caller's function. `RestClient`: the
mailbox, the clock (timestamps, tokens and sessions get old), a network that comes back, somebody who asks for each
kind, and an API that answers a GET if one is tried again and again and none waits for ever; faults are bounded. That a GET
never stalls is not assumed: `ToldAgain` has it as the exception.

What the runs show beyond their properties:

* `HeldClientWatched` needs its last disjunct. A `Terminated` that arrives while the nats
  actor is stopped in a restart of its parent is a dead letter; the fields outlive
  the restart, and the actor keeps a dead client whose status it polls for ever.
  `LinkRecovers` is therefore checked without restarts, and `ViewConverges` promises nothing to a feed
  that nobody watches after one.
* `NothingLost` needs `missed`: when a restart's poison does not reach the client, its streams go on, and what they
  deliver before the nats actor is there again is lost. No stream repeats it; only a later `Connected` or
  a new client watches anew, and then the whole history comes.
* `EveryRequestAnswered` and `ToldAgain` have a way out each, a call that waits for ever: the timeouts that are set on the HTTP
  clients do not reach the clients that are used (`oauth2.NewClient` takes the transport only), and the transport has no
  limit for responses (`utils/platform.go:156` is commented out). The rest client blocks with such a GET; the app actor does not.
* `SilenceHasACause` names what silences a handler: an error, or a `msg` or `name` in it, that holds a brace which does not
  begin JSON, for the nats actor extracts the `msg` and the app actor then looks for JSON in it again; for a GET any `resp: {`.
* `AnswersTellTheTruth` has two exceptions: a refused command whose `msg` or `name` is itself JSON without a `msg` is told
  as a success, and a StartService whose answer cannot be read is told as a failure.
* `ImplementsStore` shows that a caller who is told an error cannot conclude that nothing was written: a commit may fail
  after the file has the data.
* `PostDoneOnce` allows one repetition for each replay of net/http. With a client of its own `Post` closes nothing and shares
  nothing, so that a replay needs a connection whose dial went on after its try had timed out (`outlived`).
* `OnlyReAddedMissing` needs `ReAdded`: a removal is told three seconds late, and when
  the service is added again meanwhile the consumer loses it. `ViewConverges` says nothing of
  such a service.
* The properties of `ServiceFeed` need `Retained`. When the bucket keeps more than one entry but fewer than a
  lagging stream has yet to deliver, that stream delivers an old entry after a new one and skips the entries
  between that would have repaired it: a removed service comes back for good. Without `Retained`, four entries
  in a bucket of two are enough.
* A late answer never reaches another request (`AnswersTellTheTruth`), but a requester who
  is told a timeout cannot know whether its command was carried out: the property
  says nothing of `timeout`, and cannot.
* `NoneFallsBetween` names the topics that were lost with a connection: they are never subscribed again.
  What holds is that nothing else is lost, because `Subscribe` writes the map before it looks at the
  connection and `Started` connects before it reads the map.
* `LockIsReleased` has an exception: an actor stopped between the opening and `MsgOpenedDB` leaves the
  file locked, since `CloseState` has no case for `Stopping`.
* `CompleteOrCut` names four ways in which `Query` returns nil without having shown all records: the caller's
  function refused one, a wait expired (three seconds), a nested bucket is missing, or a reverse query whose
  prefix the last key of the bucket lacks (`repo.go:125` starts there and not at the end of the block). The
  caller cannot tell them from a complete query.
* `ToldAgain` takes the end of the session: between an error and that end the rest client has a source but no
  client, and fails every request without asking the API. `TakenForACause` shows that this, a missing token and
  the thirty seconds of the same kind are the only reasons for which a request is dropped.
* `OneTicker` holds unless 100 ms are too short for the old goroutine (`overslept`): that one reads the new
  channel and is never told to quit.
* `RightName` says what callers that overlap may get: the operating system's name or a torn string.
* `RightService` writes down where `Newest` errs: two services that are both more than three minutes ahead.

## Findings

1. `RightDriver` (`cache_driver`): the daily-services cache has no driver. Within five
   minutes of a fetch, every request is answered with that fetch's services.
2. `NestedErrorIsTold` (`path_nested`): the comment at `app/actor.go:534` speaks of skipping
   `resp: `; the slice skips nothing, the text is not JSON, and the requester of a refused
   GET hears nothing.

## Proofs

Checked by TLAPS for every value of the constants that the modules' `ASSUME`s allow.

* `NatsLinkProofs`: `TypeCorrect`, `HeldClientIsWatched`, `LossIsAlwaysReported` and
  `WatchIsNeverForgotten`. `WatchNeverForgotten` is not inductive: it speaks of runs without a
  restart, so the invariant adds that without a restart the actor has never stopped and
  no `Terminated` was a dead letter, that only born clients are held, watched or sent to, and
  that what is under way goes to living clients. Each action is a step; most follow from
  `WatchNeverForgotten`'s four alternatives being moved from one to the next:
  self-send, request to the client, registration, or the `Terminated` of a dead client.
* `DailyCacheProofs`: `TypeCorrect`, `ApiIsSpared`, `CacheIsFetched` and `OneAnswer`. `SparesTheApi` speaks of requests that have
  been started; the invariant `Inv` carries it back to the mailbox. For a request q that was
  answered with fetched data the cache message is ahead of any later request, or has
  been handled and the cache is at least as new; so for a later request in the mailbox the
  cache message of q stands before it. The order of the goroutine's two sends is used
  exactly there. `Origin` says that data on their way to the cache were fetched by a goroutine that has posted
  them; `CacheWasFetched` follows when they are handled. `NoneIsLost`: an unanswered request is in the mailbox or has its
  goroutine, which may wait for the fleet API.
* `RequestPathProofs`: `TypeCorrect` and the four safety properties of the answers, for any number
  of requests. They compare an answer with a reply that comes from elsewhere at another time, so the
  invariant `PInv` says where a request is: in at most one of nats mailbox, nats future and gateway, and while
  it is on its way neither a reply nor a response for it exists (`OnePlace`); a response is made of the reply
  to its own request or of there being no client (`ResponsesAreTrue`); one request waits at a time. The
  lemmas on `Outcome` say, per kind of request and with every text an error may hold, which replies lead to which
  answers. `NoneIsLost`: a request that is
  not taken yet is in the app actor's mailbox, and that actor can take the next or waits on a future.
* `DbActorProofs`: `TypeCorrect`, `TheyAgree`, `LockReleased` and `StoreImplemented`. `OutcomeInv` says what the one
  message about the opening that may be in the mailbox tells of state machine and handle; `RequestInv`, that a
  request in the mailbox was made, has not taken effect and is there once. With it every step is a step of
  `KvStore` or none: the handlers refuse exactly what `KvStore` allows to be refused. `DbValues` assumes that a value is none of the words the model uses for the other outcomes.
  `NextOpeningComes` and `EveryMessageIsTaken` need besides that Started is the first message of all and that a
  `MsgCloseDB` was commanded (`MailInv`); from them follows that the `MsgErrorDB` case of WaitState
  (`_database_/actor.go:107`), which would close and reopen a served file, is never taken.
* `ServiceFeedProofs`: `TypeCorrect`, `NothingIsLost`, `NoGhosts`, `MissingWasReAdded` and `FeedImplemented`, for any
  services, streams, bucket size and bounds. The three about what the parent is left with speak of a quiet
  system; the invariant `Order` says how a busy one gets there. Whenever an entry the bucket holds is
  older in the queue or in the parent's view than one before it, the newer one comes again: a stream has yet
  to deliver it, or it is queued behind (`QueueBehind`, `ViewBehind`). What a stream has delivered was sent or comes again (`Caught`). The
  subtle case is the entry that is dropped as a repetition: it was the last that was sent, so nothing older is
  behind it (`LastSent`). A restart takes entries out of this account (`missed`) only when no stream has yet to deliver them, and
  a new stream puts them back (`StreamsMove`). Writing an entry only makes the bucket hold fewer of the old ones. That
  the feed implements `PlanFeed` takes that a goroutine waits only for a removal that was handled (`Waiting`).
* `DbQueryProofs`: `TypeCorrect`, `SeenInOrder`, `CompleteUnlessCut` and `NoCallAfterAnswer`, for any number of records
  and any block. The cursor's keys are numbered; what was delivered is a beginning of that sequence, at most one
  record is in the child's mailbox and it is the next one, and the cursor stands there unless the walk is cancelled
  (`CursorAtNext`). An acknowledgement is in the mailbox only when the walk is over, behind the record. `NoLateCall`
  is an action property: it follows step by step from `AnswerLast`, no record stands behind an answer, and
  `AnsweredLast`, none is left and none will come once the caller has its answer.
* `RestClientProofs`: `TypeCorrect`, `FailedIsNotReused` and `EachIsTakenForACause`, for any kinds and faults. The properties speak of a
  handler that begins or is trying; inductive is what holds before it begins: a client over which a request failed is given up,
  a source without a client means that one failed, and each kind's timestamp is as old as its last answer, whichever
  handler wrote in between.

* `PartsProofs`: the parts that stand alone, each by an invariant of its own; `PartsRefine` says that a behaviour of
  the instance TLC runs is one of every part, so `TypesHold` and the rest hold of it too.
  * `NothingFallsBetween`, `MqttTypeCorrect` (`PubSub`): the invariant speaks of the range while it runs: a stored
    topic is still to be ranged over, dealt with, or its caller will find a connection.
  * `LastBucketWins`, `Snapshots` (`DbLists`): `Collections`, a fold over any number of buckets, is computed:
    each key with the last bucket that has it.
  * `ServiceIsRight` (`Entity`): holds of every list, not only along behaviours. Next: every list but the empty one
    has a nearest service, and a first of those (`NextFacts`). Newest: every list can be sorted (`SortedFacts`:
    counting those not behind a service is a bijection); in a sorted list all behind a late one are late.
  * `NameIsRight` (`Hostname`): while the variable lacks the serial number somebody is about to write it (`Filling`),
    and callers that are inside together have met (`HaveMet`), so who met nobody reads what is there, whole.
  * `DoneOnce` (`HttpTries`): what is left of the body and what was replayed tell how often the server can have been asked, and
    where an idle connection can come from (`BodyTells`).
  * `ComparedWithPrevious` (`TimeoutSeq`): `mem` and `idx` are the last call's moment and turn (`TurnInv`).
  * `ClientOfSource` (`Keycloak`): inductive as it is.
  * `OneTicks` (`TickActor`): the last goroutine alone lives and waits for the open channel, and when the handler
    awakes none does (`LastAlone`), as long as no sleep was too short.
  * `EveryStatusReaches` (`Subscribers`): the last status under way is the last published (`LastIsTold`), and it is that
    of the link (`LinkAsPublished`).

Two of these proofs need induction, over the buckets and over a list. The library's induction theorems are out of
reach, because they take an operator as parameter, but it also has that the proper subsets of a finite set are a
well-founded order, and that a non-empty set has a minimal element under such an order. From the two, `SmallestSet`,
`Greatest` and `Least` give a smallest counterexample. The fold of the community module unfolds to a CHOOSE of a recursive function;
that this function is the one wanted is shown by exhibiting one (`LastSolves`) and then for each set of buckets
(`TurnsIsLast`). `SortSeq` is evaluated by TLC and means nothing to the prover: `Entity` says of `sort.Slice` only that it
yields the same services in order (`Sorts`, `Sorted`). Which of two equal times comes first is not said, as Go does not.

Assumptions. What the `ASSUME`s ask is that bounds are numbers, that there is at least one start (`TickActor`), that
the names of the topmost buckets differ and none is the word for no bucket (`DbLists`; bbolt keeps one bucket per name),
and that times are integers (`Entity`, `TimeoutSeq`). TLC evaluates each of them in a run.

Model-checked only: liveness (`LinkRecovers`, `ViewConverges`, `EveryRequestAnswered`,
`EveryRequestServed`, `ErrorIsRepaired`, `Opens`, `Released`, `ToldAgain`), since fairness and ENABLED are out of the
prover's reach. Of three of them the safety core is proved: that what has to happen next is always on its way (`NoneIsLost`
of the cache and of the requests, `NextOpeningComes`); the fairness does the rest. Every safety invariant and every action property of the passing runs, and both refinements, are theorems.

## Not modelled, and why

Payload construction and JSON layout (`commands.go`, the filters of `GetCompanyProgSvc`): data the
properties do not tell apart. Certificates, headers, flags, the program's free port: I/O. Generated code.
`ListKeysBucket`: the shape of `GetKeyValue`, sent by nobody in `src/`. The SNAPSHOT bucket: nothing watches it.

The database's `Last`, which nothing calls, its flush and its generated ids. `Newer`, `Same` and `Valid` of the entities: one
comparison each. The discovery actor's ticker, whose message it has no case for. `Publish`, which touches
nothing that `PubSub` keeps. `TrickActor`'s `Terminated`: the actor watches nobody.

What a receiver finds in a body cut short (`utils.Get` returns no error under status 200, so it counts as an answer), and what it
makes of `MsgClient` sent as a value and as a pointer, are in no model: bodies and receivers are not. Redirections and
HTTP/2 are left out of `HttpTries`: the transport has its own `TLSClientConfig` and `Dial`, which keeps net/http at HTTP/1.

## What could follow

Every part that keeps state is modelled. What would add most next: `NatsLink` and `ServiceFeed` as one
specification, in place of the fairness by which the second rests on the first.
