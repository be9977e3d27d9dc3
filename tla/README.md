# Verification of xorc-gateway

TLA+ modules that model the gateway in `src/src`, TLC configurations that check
them on small instances, and TLAPS proofs about them for instances of any size.
Paths below are relative to `src/src` unless they start with `src/`.

## 1. The system

The gateway accepts batches of events from the XORC SDK over HTTP, checks that
they come from a known application, gives devices that register an identity,
and writes the batches to a Kafka topic.

| part | source | state | operations |
| --- | --- | --- | --- |
| application registry | `app_registry.rs` | lazy cell `APP_REGISTRY`; the `ArcCell` with the application map | `new` (first use), `update_apps`/`swap_apps` (updater thread, every 60 s), `validate`, `token_for` (requests) |
| device identities | `ifa_matching.rs`, `gateway.rs:206-270` | table `gw_known_ifas` in ScyllaDB; lazy cell `IFA_MATCHING` with a pool of 15 connections | `get_id_for_ifa`, `put_id_for_ifa`, run in a blocking closure per registration |
| request pipeline | `gateway.rs`, `context.rs`, `error.rs` | the future of each request with its `Context` | `service`, `handle_sdk`, `handle_event`, `create_new_device`, `into_response` |
| cross-origin rules | `cors.rs` | none (configuration) | `valid_origin`, the two response builders |
| Kafka publisher | `bus/kafka.rs` | the producer's queue | `publish`, `routing_key` |
| device id encryption | `encryption.rs` | none (key) | `encrypt`, `decrypt` |
| event batch, response | `events/input/*` | none | reading the JSON, `platform`, `is_register`, `generate_event_results`, `into_proto`, `flatten_properties` |
| location lookup | `events/input/sdk_device.rs`, `main.rs` (`GEOIP`) | lazy cell `GEOIP` with the GeoLite file | `set_location` |
| metrics | `metrics.rs` | counters and histograms | `inc`, `inc_by` |
| process lifecycle | `main.rs`, `gateway.rs:136-169` | threads, `control` flag, `oneshot` channel, SIGINT handler, open connections | start, SIGINT, graceful end of the server, unpark and join |
| configuration | `config.rs`, `main.rs` (`CONFIG`) | lazy cell `CONFIG` | `parse` with its checks |
| logger, protobuf output, build | | none | |

How they interact:

* `main` starts the updater thread and the gateway thread and waits for SIGINT.
  It shares an `AtomicBool` and the park token with the updater.
* A request reads its body, builds a `Context` from its headers, checks the
  origin, and has the registry `validate` it. The registry's map is read by all
  worker threads and replaced by the updater.
* A batch with a register event, from a device without a usable device id,
  enters a blocking closure that looks the device up and writes the identity
  back. Afterwards the registry is read again for the token.
* The batch becomes a record: its events are sorted, their properties flattened,
  the address that the proxy reports is looked up in the GeoLite file.
* The record is given to the Kafka producer; the request is answered when the
  delivery report is there.
* The gateway thread ends when `main`'s message has reached it and every
  connection is closed; `main` joins the updater first, then the gateway.

What is hard here: the registry changes between two reads of one request; the
lookup and the write of an identity are two queries that other registrations
and other replicas interleave with; failed queries are indistinguishable from
"not found", and a query that is never answered holds its thread for good; lazy
cells are poisoned by a panic; clients go away at any point;
the control flag is relaxed; a thread that panics takes `main` with it, or
leaves it waiting; the process may die between any two steps; sorting is
unstable, integers become `f64`s, nested keys are joined into one.
`PROJECT.json` lists these hazards at their lines.

What makes each part correct:

* registry: users see one complete table content after the other; edits arrive;
  the updater stops when it is told to;
* identities: different devices are never merged, devices that limit tracking
  never at all, and a device keeps its identity unless a lookup missed it;
* pipeline: only authentic batches are published; what a device is told is what
  was recorded; every answer is counted once; every accepted request ends, as
  long as queries return;
* event batch: every event and every supported property reaches the record,
  each under a key of its own, and the answer speaks of the events in it;
* location: where an address is known, nothing of what the client claims about
  its place is recorded;
* lifecycle: everything that was accepted is drained before the process ends,
  and after a SIGINT it ends.

## 2. The modules

```
RequestRules            pure rules of a request
  AppRegistry           the registry and its updater ------- implements --+
  Lifecycle             main, gateway thread, connections                 |
    INSTANCE AppRegistry    <- the updater and main's part of its shutdown|
  Gateway               the pipeline                                      |
    INSTANCE AppSnapshots   <- the registry as its users see it  <--------+
    INSTANCE IfaMatching    <- device registrations ------- implements --+
IdentityDirectory       what registrations amount to  <------------------+
EventBatch              what is in a batch, its answer and its record
MCAppRegistry, MCLifecycle, MCIfaMatching, MCGateway,
MCEventBatch                                            instances for TLC
AppRegistryProofs, LifecycleProofs, IfaMatchingProofs,
DirectoryProofs, GatewayProofs, PipelineProofs,
PropertyProofs, EventBatchProofs                        theorems
```

**RequestRules** holds what has no state: the platform rule, the origin rule,
`Validate` with its checks in the order of the code, `TokenFor`, and the status
of each error. `None` is Rust's `None`. A signature is represented by the
secret that made it over this body, so verification is equality.

**AppRegistry** has one action per step of the updater thread, of the
initialiser and of `main`'s shutdown. The cell is `"unset"`, `"ready"` or
`"poisoned"`. `Initialize` is one step: `lazy_static` makes every other user
wait, so nobody sees what is in between (except a change of the table, which
the initialiser reads once). An update is two steps, reading the rows and
`SwapApps`, between which requests and `main` run; without a connection, or
without an answer, the map stays as it is (`KeepApps`). `ConfigFails` lets the
initialiser panic on a refused configuration. The park token is a Boolean
that `park_timeout` consumes; `synced` records that the updater has thereby
synchronised with `main`, after which a relaxed load cannot return the old
value (`ControlSeen`). `RowColumns` says by which names the driver reports a
row's columns. All passing runs take it to be what the code reads; the run
`AppRegistryAsQueried` takes what the code selects.

**AppSnapshots** is the abstract registry: loaded or poisoned once (by the
database, by a row, or by the configuration), then swapped as a whole;
`Restart` is a new process.

**Lifecycle** is the process: `file` is the configuration file as it turns out
(`Refused` is what `Config::parse` panics on, `NoRegistry` what
`AppRegistry::new` panics on before it asks a database), `watch` is where `main`
is with its signal handler, `gateway` where the gateway thread is, `conn` each
connection with a request in it (`busy`) or between two (`idle`), `process` how
it all ends. Registry, updater and the steps `StoreControl`, `Unpark` and
`Join` of `main` are those of AppRegistry; they only run while there is a
process, and the first of them only after the message to the gateway thread.
`Exit` is `main`'s return or panic, which ends every other thread at once.

**IfaMatching** models the closure of `create_new_device`: `Begin` (the request
asks for an identity), `Acquire` (a blocking slot), `OpenPool`/`Panic` (the lazy
cell), `SendLookup`, then `Found` or `Missed`, then `Save` or `SaveFails`.
`Prepare` is the closure up to its first query, `Query` a query that returns,
which it need not do. A lookup is answered at the end of its step; a write that
fails becomes a
`stray` write that is applied at any later time or never (`Settle`); a write
under way when the process dies is stray as well. `known` is the table,
shared with other replicas: a registration of another replica is another
element of `Req`. `issued` is all identities there are: `Generate` picks a new
one, which is what a version 4 UUID is for.

**IdentityDirectory** is the service a reader of `src/README.md` expects: a
directory that enters each device once and tells it the same identity ever
after, in one step. IfaMatching implements it where the code's surroundings
behave (`ServesDirectory`): `directory` is the table `known`, `told` what
finished registrations have come to (`ToldTo`). A write that a crash leaves
behind, and that is applied later, is an `EnrollUnheard`.

**Gateway** gives each request a program counter: `body` (its body is read),
`registering`, `sending`, and `replied` or `closed`. A step ends where the
future of the request waits or where it reads state that another thread may
change: everything from `Context::new` to `validate` is one step, since it
reads the registry once; `CompleteRegistration` reads it again. A panic drops
the connection (`Vanish`). `outcome` is what the producer knows of the record
of the request, including `"lost"` when the process dies. `seen` is a history
variable: the maps the registry has shown since the request arrived. Steps of
the registry are those of `AppSnapshots`, steps of registrations those of
`IfaMatching`.

**EventBatch** follows a batch that has been accepted: `Receive` reads it (one
unreadable timestamp refuses all of it), `ListResults` or `Register` prepares
the answer, `IntoProto` makes the record from every order an unstable sort may
leave (`Orders`), from `Flatten`ed properties and from the `Located` device;
`OpenGeoip` and `Panic` are the lazy cell `GEOIP`, which the first request with
an address opens for all later ones. Keys are sequences of characters because
the separator of nested keys may occur in them. The properties of an event are
a `Document`: the members of the object and of all objects in it, in the order
in which the recursion of `flatten_properties` comes to them, each with the
number of the member it is in. So the prefix that a call gets is a function
(`Prefixes`) that is recursive over member numbers, and objects may be as wide
and as deep as JSON has them. Numbers are the `i64`s and `u64`s, and `Float` is
what the conversion to `f64` makes of one: the nearest multiple of the distance
between `f64`s there (`Ulp`), of two the even one. Timestamps are integers.
`PropertiesArrive` is stated with the path of a member (`Joined`), which knows
nothing of prefixes.

Definitions called "faulty variant" are not part of the model; each one is a
plausible mistake that one of the properties detects.

## 3. What the runs check

| run | instance | what it shows |
| --- | --- | --- |
| AppRegistryManaged | 2 applications, 4 tables, failing database | `TypeOK`, `OneLateUpdate`, `ServesSnapshots` (refinement), `EditsAreServed`, `UpdaterIsJoined` |
| Lifecycle | applications of the configuration, 3 kinds of file, 2 connections | `ShutdownDrains`, `ShutdownEnds`, `SnapshotsAreServed` (refinement), `TypeOK` |
| IfaMatchingFailing | 3 registrations, 7 devices, 2 slots | `DevicesNeverShareAnId`, `ReplacedOnlyAfterAMiss`, `TypeOK`, under failures, overlap and crashes |
| IfaMatchingOrderly | 3 registrations, 3 devices, 2 slots | `ServesDirectory` (refinement), `IdentityIsKept`, where queries do not fail and a device registers once at a time, crashes included; `RegistrationsEnd`, with queries that hold one of the slots for good |
| GatewayJudges | 1 request, 3 maps, all combinations the rules look at | `PublishedIsAuthentic`, `ToldTokenWasCurrent` |
| GatewayTraffic | 2 requests of 10 kinds, 2 maps | `ToldIdIsRecorded`, `AnswersAreCounted`, `DrivesMatching`, `TypeOK` |
| GatewayEnds | 2 registrations, 1 slot, database that fails or never answers | `AcceptedRequestsEnd`, `RegistrationsEnd` |
| EventBatch | 2 requests; batches of 1 to 3 events, properties nested up to 4 levels | `RecordIsInOrderOfTime`, `AnswersNameTheRecord`, `PropertiesArrive`, `PropertiesKeepApart`, `LocationIsObserved` |

Four more runs each find a trace on which the code does not do what its
documentation, or its own message, says; `PROJECT.json` quotes both sides under
"findings":

| run | what is said | the code |
| --- | --- | --- |
| AppRegistryAsQueried | applications are loaded from the database | selects `id`, reads `app_id`, panics on the first row |
| LifecycleUnmanaged | `manage_apps` cannot be false outside of development (`config.rs:41`) | panics when it is true, and serves when it is false |
| GatewayForged | an invalid device id gives an error | it is treated as none |
| GatewayDelivery | a failed delivery is an error | it is answered 200 |

Other places where the model follows the code and a comment or a document says
something else, without a run of their own:

* `validate` accepts a request without a token (`app_registry.rs:168`), while its
  comment lists that the header exists; `MissingToken` and `BadDeviceId` are never
  produced.
* `put_id_for_ifa` is called for identities that were found as well
  (`gateway.rs:233`), while `src/README.md:189` speaks of a new one (`Save` and
  `SaveFails` do not look at `lookup`).
* `EVENTS_COUNTER` counts results (`gateway.rs:343`), one for a batch with a
  register event, while `metrics.rs:11` calls it the "Total number of SDK events
  sent" (`Results`, `Succeed`). `AnswersAreCounted` therefore is about
  `REQUEST_COUNTER` only.
* Errors after the validation lose the context, and with it the CORS headers
  (`gateway.rs:323`, `335`), while `context.rs:45` says it is passed on through
  the whole lifetime of the request (`Fail` with `hasContext` false).
* `/metrics` answers while the registry is poisoned and every event request
  panics (`Serve` does not look at `registry`), while `src/README.md:10` says
  that the service works if the endpoint answers.
* When the server future fails, `gateway.rs:159` logs that it is exiting, but
  the thread only waits for its connections, and `main` for a SIGINT
  (`ServerFails`); `gateway.rs:135` says it keeps running until the signal.
* With `manage_apps` false and no test applications the registry panics, and the
  process stays, answering no event request (`NoRegistry`).
* From the third level on, the key of a nested property repeats the prefix of
  its ancestors (`sdk_event.rs:119`); the test at `sdk_event.rs:237` goes two
  levels deep. `PropertiesArrive` says what holds at every depth, and
  `PropertiesKeepApart` that no two properties meet under one key for it, as
  long as keys do not begin with an underscore and hold no two in a row.

Bounds, and why they are enough. Two applications show that one's row says
nothing of the other's. The four tables differ in which application exists,
in a missing token and in a secret that is not hexadecimal. Three
registrations let one finish between the lookup and the write of another and a
third observe the result. In IfaMatchingOrderly the table is empty at first, which
leaves room for liveness; an identity is found there if an earlier registration
has stored it. The seven devices are each way `parse_ifa` and the
application id can turn out. Two blocking slots for three registrations make
one wait, also when a query holds the other slot for good. With one request all interference is with the registry, which is
what the judgement depends on; two requests compete for the slot, for the row
and for the counters. Two connections let one be idle and the other busy when
the process ends; the three configuration files are those `parse` and `new`
tell apart. Three events are the fewest in which two of equal time have a third
around them, and four levels the fewest in which a repeated prefix is itself
repeated; one object has two paths that do come under one key (`Ragged`), one
has keys that are empty or end in an underscore (`Edges`). `Exact` = 4 stands
for 2^53, up to which integers are `f64`s, with numbers up to the fourth distance
beyond it, odd and even, halfway between two `f64`s and not, and negative ones;
`Ulps` reaches to 2^64, the end of `u64`. `MaxTimestamp` = 2
stands for `u64::MAX`. The second request of that run finds the GeoLite cell
already open or poisoned. Requests and new identities are symmetric and reduced by
symmetry in runs without liveness. Counters need no bound: each request is
made once. `late` counts updates after `main`'s unpark up to `LateBound` (2,
which stands for any number above one). Deadlock is not checked where every request is done after
finitely many steps, nor in Lifecycle, where the process comes to its end.

Fairness:

* AppRegistry: the threads are scheduled, `park_timeout` times out, and `main`
  goes on once it has the signal (weak fairness). A step that ends a query is not
  fair: the code sets no timeout on one, neither here nor in the initialiser. The
  properties say what they need instead. `UpdaterIsJoined` assumes
  `QueriesReturn`: with a SIGINT during a query that is never answered, `main`
  waits in its join for good. `EditsAreServed` assumes `QueriesSucceed`: a query
  that is repeated every minute is answered now and then. It speaks of a table
  that stays as it is. SIGINT is not fair: it may never come.
* Lifecycle: the threads are scheduled, and the runtime polls the `select2` that
  `main`'s message has woken. SIGINT, kills, clients and failures of the server
  are not fair, nor are replies: `ShutdownEnds` assumes that connections are
  closed sooner or later, since the code sets no limit on one that is kept alive,
  and, as above, that the updater's queries return.
* IfaMatching, and Gateway with it: a closure runs on its own thread up to its
  first query (weak fairness of `Prepare`; opening the pool gives up after r2d2's
  connection timeout). A query is not fair: `pool.get()` waits for a connection
  for a limited time only, but `conn.query` (`ifa_matching.rs:184`) sets no
  timeout, so a query that is never answered holds its blocking slot for good.
  Tasks that wait for a slot are queued by the thread pool, hence strong fairness
  of `Acquire`. What holds then: as long as queries that are never answered do not
  hold every slot (`SlotsReturn`), a registration whose own queries return
  (`Answered`) ends (`RegistrationsEnd`), and so does the request that waits for it
  (`AcceptedRequestsEnd`); a request that waits for its delivery ends without any
  such assumption. Without the two assumptions TLC finds the registration that
  waits forever.
* Gateway: the runtime polls what is ready, and the producer reports every record
  (librdkafka's message timeout). Clients, crashes and stray writes are not fair.
  Reading a body is not fair: a client may never send it, and the registry's
  initialiser may hang or panic before the judgement, so `AcceptedRequestsEnd`
  starts after it and says nothing of requests that panic on a poisoned registry.

## 4. What is proved

All theorems hold for every value of the constants that satisfies the named
assumptions (`RulesAssumption`, `NoneIsNoApplication`, `RegistryAssumption`,
`IfaAssumption`, `GatewayAssumption`, `BatchAssumption`); these say what kind of
values the constants are, that `None` and the few marker strings are none of
them, and that there is at least one slot and one connection. `BatchAssumption`
says of a batch that its events are a sequence and that the properties of each
are a JSON object with numbers of 64 bits. `MatchingAssumption` and
`RegistryParameters` say that where one module is part of another, the constants
they share are such as the part assumes.

* **AppRegistryProofs.** `TypeCorrect`: `TypeOK` is inductive; its substance is
  that served secrets are decoded ones. `LateUpdatesBounded`: `late <= 1` is
  not inductive; the invariant `ShutdownInv` adds where the token and the flag
  are when `main` is in `joining`: as long as the updater has not synchronised,
  the token is still there, and one more update at most can have begun.
  `ImplementsSnapshots`: with `UpdateInv` (rows under way are one complete table
  content, and the updater runs on a ready cell) every step is a step of
  `AppSnapshots` or a stutter.
* **IfaMatchingProofs.** `TypeCorrect` carries `AskedInv`: a registration
  beyond `idle` is for a device, one in the database part of the closure has a
  row, and one that writes has an identity. `IdsAreNotShared` rests on
  `OneRowPerId` (an identity is attached to one row only, counting table, stray
  writes and registrations) and on `AnonymousAlone` (a device without a row
  shares with nobody). `DevicesNeverShareAnId` itself is not inductive, since an
  identity travels through the table and through stray writes between the two
  registrations. `IdsChangeOnlyAfterAMiss` rests on `AgreesUntilMissed`: as
  long as no lookup for a row has missed it, everything that is under way for
  the row agrees with what is stored.
* **DirectoryProofs.** Under `Orderly` (the database answers, a device registers
  once at a time, no more slots than connections) `ImplementsDirectory` shows
  that every step of IfaMatching is a step of `IdentityDirectory` or a stutter.
  `SlotsInv` bounds the closures that run by the slots, so no query lacks a
  connection; `AloneInv` says that whatever is under way for a row is alone
  with it; `KeptInv` that what a finished registration was told is what the
  table holds. A `Save` that enters a new identity needs that nobody else has
  it (`WrittenIsFresh`), which is `OneRowPerId` again. `IdentitiesAreKept`
  follows from the same invariants.
* **LifecycleProofs.** `RequestsAreDrained` rests on `DrainInv`: connections
  are open only in a runtime that the gateway thread has not left, `main` panics
  for the updater's panic only, and nothing runs on when the process is over.
  With it, `Exit` finds no open connection but in the cases the property names.
  `ProcessServesSnapshots` shows that every step of the process is a step of the
  registry or leaves it alone, and takes the refinement from an instance of
  AppRegistryProofs; `TypeCorrect` combines its types with `DrainInv`.
* **GatewayProofs.** `OnlyAuthenticIsPublished`: the lemma `AcceptedIsAuthentic`
  compares `Validate` with an independent statement of what a registration
  demands; `PipeInv` says that whoever is beyond the judgement is backed by a
  map in `seen`. `ToldIdsAreRecorded` and `ToldTokensWereCurrent` rest on
  `ToldInv`: from the record on, the context holds the identity it was made
  under, and a token of a map in `seen`; while a request waits, the map being
  served is in `seen`. The properties alone, which speak of answers, are not
  inductive. `PipelineDrivesMatching`: every step of the pipeline is a step of
  `IfaMatching` or leaves its variables alone.
* **PipelineProofs.** With that, an instance of IfaMatchingProofs speaks of the
  pipeline: `PipelineIdsAreNotShared`, `PipelineIdsChangeOnlyAfterAMiss`.
  `TypeCorrect` needs the types of the registrations from there, and `SentInv`:
  a device id that a client sends and that opens has been issued, before this
  request or by an earlier answer. `CountersAgree`: `AnswersAreCounted` speaks of
  the answers since the process started, and becomes inductive as `CountedInv`,
  which adds that these are finitely many, that each request among them is
  `replied`, so that it is not answered and counted again, and that only
  requests of the SDK's route wait, so that what they are counted under later
  is theirs. A step adds at most one answer: `PartGrows` says how the number of
  those under a label changes.
* **PropertyProofs** is about `flatten_properties` alone, for a document of any
  width and depth. The induction principles of the library take a predicate and
  cannot be instantiated, so each induction over members is by the least number
  of a set (`LeastNumber`): the member with the least number that had not the
  property would have an outer member, with a lesser number, that had it not
  either. That `Prefixes` and `Joined` are the functions which their recursive
  definitions describe is itself such an induction (`Recursion`).
  `KeysDiffer`: every prefix is `Closed` (empty, or it ends in the separator), and
  a closed sequence can be told from a plain key behind it (`PrefixAndKey`); so
  if two keys are equal, then so are the prefixes and the last keys, and of two
  members with one prefix the same is true of the objects they are in
  (`PrefixesDiffer`). `KeysEnd`: a prefix is the path and a separator, behind what
  is repeated (`PrefixEnds`). `NumbersArrive`: `Float` is exact up to `Exact`, and
  beyond that it is a multiple of a distance that fits, at most half of it away.
* **EventBatchProofs.** The five properties of EventBatch speak of a record and
  of an answer that earlier steps have made. `BatchInv` keeps how they were made:
  both are about the batch that the request brought and about the identity in
  its context, and a GeoLite file that was needed is open. `OrderSafe`: an order
  is a permutation, as it is injective on a finite set (`OrderIsComplete`), so
  as many places have an event as there are events like it (`SameNumber`).
  `AnswersSafe` needs that there is a first register event and that it has a
  place in the record. `PropertiesSafe` and `KeepApartSafe` are `KeysEnd`,
  `NumbersArrive` and `KeysDiffer` for the events of the record;
  `LocationSafe` is about the device in it.

With these, every safety property and every refinement that a passing run checks
is a theorem.

Only checked by TLC: liveness (`EditsAreServed`, `UpdaterIsJoined`,
`ShutdownEnds`, `RegistrationsEnd`, `AcceptedRequestsEnd`), which is out of the
proof system's reach together with fairness and `ENABLED`.

## 5. What the model assumes of things outside of the repository

* Version 4 UUIDs are unique; an identity sealed by the gateway opens and
  nothing else does; HMAC verification succeeds for the right secret only.
* ScyllaDB behaves like one table whose reads see the last applied write, except
  that reads and writes may fail, that failed writes may be applied late, and that
  a query may never return. The safety properties hold in any case. Liveness needs
  that queries return, which nothing in the code ensures: it sets no timeout on
  `conn.query` (`ifa_matching.rs:184`) nor on the updater's
  `connection.query` (`app_registry.rs:287`). Each liveness property names the
  part of this it needs as its premise (`SlotsReturn` and `Answered`,
  `QueriesReturn`, `QueriesSucceed`).
* r2d2's `pool.get()` and the first use of the pool give up after its connection
  timeout, unless the query that tests a connection is itself never answered,
  which counts as part of the query that follows.
* `tokio_threadpool::blocking` gives the slot back when the closure panics, and
  a closure that runs is not interrupted when its request is dropped.
* The item of rdkafka's delivery future is itself a result; the future fails
  only when it is canceled.
* `sort_unstable_by` sorts, and leaves equal elements in any order.
* The hash of an address is represented by the address: two addresses are taken
  to have two hashes.
* `shutdown_on_idle` ends when every task of the runtime has ended, and dropping
  the server future closes the listener but not its connections.

## 6. What is not modelled

* The values in `config.rs` are constants, and TOML is not modelled: of a file
  only what `parse` and `new` check.
* In `Gateway` the GeoLite file opens, `SECRET` is a key of the right length, and
  the configuration is accepted; what happens otherwise is in EventBatch (`Panic`)
  and Lifecycle (`NoRegistry`), except for `SECRET`.
* The byte layout of a sealed device id, AES-GCM and base64: an id opens or does
  not, and one that is too short panics.
* Fields of a batch that are copied unchanged; field-by-field protobuf output;
  numbers with a fraction or an exponent, which are `f64`s already.
* Logger, histograms, `APP_UPDATE_COUNTER`, `SCYLLADB_REQUEST_COUNTER`, build and
  deployment: no behaviour that anything depends on.

## 7. Plan

Done: RequestRules, AppSnapshots, AppRegistry, IfaMatching, Gateway, Lifecycle,
IdentityDirectory, EventBatch, in this order, with their runs and the theorems
above. Next, by importance:

1. *DeviceIdSeal*: length and layout of the sealed device id, with `decrypt`
   on inputs of every length, and the lazily read `SECRET`.
2. The whole process: Lifecycle with the pipeline of Gateway in its connections,
   so that `ShutdownDrains` speaks of the requests themselves.
