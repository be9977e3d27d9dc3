--------------------------------- MODULE Gateway ---------------------------------
(***************************************************************************)
(* The request pipeline: what happens to a request from its arrival to its *)
(* answer, next to other requests, to the registry's updates, to device    *)
(* registrations and to the deliveries to Kafka.                           *)
(*                                                                         *)
(* The registry is the abstract one of AppSnapshots, registrations are     *)
(* those of IfaMatching.  A step of a request ends where its future waits  *)
(* (the body, a blocking slot, the delivery report) or where it reads      *)
(* state that another thread may change.                                   *)
(***************************************************************************)
EXTENDS RequestRules, Naturals, FiniteSets

CONSTANTS
  Req,          \* requests, each made once
  Messages,     \* what the clients of this instance send
  Snapshots,    \* application maps the registry may show
  Managed,      \* BOOLEAN: the maps come from the database
  UuidApps, Ifa, NilIfa, Id, PriorIds, MaxBlocking, PoolSize, DbFails, Overlap

Routes  == {"sdk", "options", "metrics", "other"}
Headers == {"absent", "forged", "short", "sealed"}

OsNames == {"iOS", "iPhone OS", "Android"}

Message ==
  [route     : Routes,                           \* method and path
   json      : BOOLEAN,                          \* the body parses
   app       : App,                              \* environment.app_id
   platform  : Platforms \cup {None},
   osName    : OsNames \cup {None},
   origin    : Origin \cup {None},
   token     : Token \cup {None},
   signature : Secret \cup {None, "invalid"},    \* whose secret signed the body
   header    : Headers \cup Id,                  \* XORC-Device-Id
   ifa       : Ifa \cup {NilIfa, "malformed", None},
   tracking  : BOOLEAN,
   recipient : {"claimed", None},                \* recipient_id of the body
   events    : Nat,                              \* how many events
   register  : BOOLEAN]                          \* one is a register event

ASSUME GatewayAssumption ==
  /\ Messages \subseteq Message
  /\ \A m \in Messages : m.header \in Headers  \* Receive opens the "sealed" ones
  /\ Snapshots \subseteq AppMap
  /\ Managed \in BOOLEAN
  /\ Headers \cap Id = {}
  /\ None \notin Id
  /\ None \notin Platforms \cup OsNames \cup {"invalid"}
  /\ "invalid" \notin Secret

VARIABLES
  registry, apps,       \* see AppSnapshots
  known, stray, ifaPool, step, asked, id, lookup, issued,  \* see IfaMatching
  pc,        \* where each request is
  sent,      \* the message of each request
  device,    \* context.device_id
  token,     \* context.api_token
  outcome,   \* what the producer reports of the record of each request
  record,    \* the record each request has given to the producer
  reply,     \* the answer of each request
  requests,  \* REQUEST_COUNTER
  events,    \* EVENTS_COUNTER
  answered,  \* the requests answered since the process started
  seen       \* the maps the registry has shown since each request arrived

snapVars  == <<registry, apps>>
matchVars == <<known, stray, ifaPool, step, asked, id, lookup, issued>>
busVars   == <<outcome, record>>
ctxVars   == <<sent, device, token>>
doneVars  == <<reply, requests, events, answered>>
vars      == <<snapVars, matchVars, pc, ctxVars, busVars, doneVars, seen>>

DeviceOf(m) == [app |-> m.app, ifa |-> m.ifa, tracking |-> m.tracking]
Devices == {DeviceOf(m) : m \in Messages}

Snap == INSTANCE AppSnapshots
Matching == INSTANCE IfaMatching

\* The registrations' own assumptions on the constants they share.
ASSUME MatchingAssumption == Matching!IfaAssumption

Waiting == {"body", "registering", "sending"}

Goto(r, s) == pc' = [pc EXCEPT ![r] = s]

-----------------------------------------------------------------------------
(* Answers.                                                                *)

Labels == [status : {200, 400, 403, 404, 412, 500, 503},
           endpoint : {"options", "sdk_events", "not_found"}]

NoReply == [status |-> None, cors |-> FALSE, device |-> None, token |-> None, results |-> 0]

Answer(r, answer) ==
  /\ Goto(r, "replied")
  /\ reply' = [reply EXCEPT ![r] = answer]
  /\ answered' = answered \cup {r}

Count(status, endpoint) ==
  requests' = [requests EXCEPT ![[status |-> status, endpoint |-> endpoint]] = @ + 1]

\* Faulty variant, for the sensitivity of the properties: no count.
FailUncounted(r, error, hasContext) ==
  /\ Answer(r, [NoReply EXCEPT !.status = StatusOf(error),
                               !.cors = hasContext /\ CorsHeaders(sent[r])])
  /\ UNCHANGED <<requests, events>>

\* error::into_response; an error that has lost its context has no CORS headers.
Fail(r, error, hasContext) ==
  /\ Answer(r, [NoReply EXCEPT !.status = StatusOf(error),
                               !.cors = hasContext /\ CorsHeaders(sent[r])])
  /\ Count(StatusOf(error), "sdk_events")
  /\ UNCHANGED events

\* A register event is answered alone, other batches with one result per event.
Results(m) == IF m.register THEN 1 ELSE m.events

-----------------------------------------------------------------------------
Init ==
  /\ Snap!Init
  /\ Matching!Init
  /\ pc = [r \in Req |-> "idle"]
  /\ sent = [r \in Req |-> None]
  /\ device = [r \in Req |-> None]
  /\ token = [r \in Req |-> None]
  /\ outcome = [r \in Req |-> "none"]
  /\ record = [r \in Req |-> None]
  /\ reply = [r \in Req |-> NoReply]
  /\ requests = [l \in Labels |-> 0]
  /\ events = 0
  /\ answered = {}
  /\ seen = [r \in Req |-> {}]

\* The identities that clients may hold, sealed in their XORC-Device-Id.
HandedOut == PriorIds \cup ({reply[r].device : r \in Req} \ {None})

-----------------------------------------------------------------------------
(* Routes.                                                                 *)

\* An event request; from here on its body is read.
Receive(r, m) ==
  /\ pc[r] = "idle"
  /\ m.route = "sdk"
  /\ \E h \in IF m.header = "sealed" THEN HandedOut ELSE {m.header} :
       sent' = [sent EXCEPT ![r] = [m EXCEPT !.header = h]]
  /\ Goto(r, "body")
  /\ seen' = [seen EXCEPT ![r] = {apps}]
  /\ UNCHANGED <<snapVars, matchVars, device, token, busVars, doneVars>>

\* The other routes answer at once; /metrics does not count itself.
Serve(r, m) ==
  /\ pc[r] = "idle"
  /\ m.route # "sdk"
  /\ sent' = [sent EXCEPT ![r] = m]
  /\ CASE m.route = "options" ->
            /\ Answer(r, [NoReply EXCEPT !.status = 200, !.cors = CorsEnabled])
            /\ Count(200, "options")
       [] m.route = "metrics" ->
            /\ Answer(r, [NoReply EXCEPT !.status = 200])
            /\ UNCHANGED requests
       [] OTHER ->
            /\ Answer(r, [NoReply EXCEPT !.status = 404])
            /\ Count(404, "not_found")
  /\ UNCHANGED <<snapVars, matchVars, device, token, busVars, events, seen>>

-----------------------------------------------------------------------------
(* handle_sdk and handle_event, up to the point where the request waits.   *)

Unsent == <<snapVars, matchVars, ctxVars, busVars, seen>>

BodyFails(r) ==
  /\ pc[r] = "body"
  /\ Fail(r, "InternalServerError", FALSE)
  /\ UNCHANGED Unsent

Malformed(r) ==
  /\ pc[r] = "body"
  /\ ~sent[r].json
  /\ Fail(r, "InvalidPayload", FALSE)
  /\ UNCHANGED Unsent

\* Faulty variant: an id that does not open is taken as it is.
OpenUnverified(header) == IF header = "absent" THEN None ELSE header

\* Context::new: a device id that cannot be opened is as good as none, except
\* one too short to hold a nonce, on which split_at_mut panics.
Open(header) == IF header \in Id THEN header ELSE None

HasContext(r) == pc[r] = "body" /\ sent[r].json /\ sent[r].header # "short"

Vanish(r) ==
  /\ Goto(r, "closed")
  /\ UNCHANGED <<Unsent, doneVars>>

PanicOnHeader(r) ==
  /\ pc[r] = "body"
  /\ sent[r].json
  /\ sent[r].header = "short"
  /\ Vanish(r)

RejectOrigin(r) ==
  /\ HasContext(r)
  /\ OriginRejected(sent[r])
  /\ Fail(r, "UnknownOrigin", TRUE)
  /\ UNCHANGED Unsent

PanicOnRegistry(r) ==
  /\ HasContext(r)
  /\ ~OriginRejected(sent[r])
  /\ registry = "poisoned"
  /\ Vanish(r)

\* The request gets as far as AppRegistry::validate.
Judged(r) == HasContext(r) /\ ~OriginRejected(sent[r]) /\ registry = "ready"

Reject(r) ==
  /\ Judged(r)
  /\ Validate(apps, sent[r]) # "Ok"
  /\ Fail(r, Validate(apps, sent[r]), TRUE)
  /\ UNCHANGED Unsent

\* into_proto and Kafka::publish: the identity of the context, if it has one,
\* is the recipient, whoever the body names, and the routing key.
RecordOf(m, dev) ==
  [app |-> m.app, key |-> dev, events |-> m.events,
   recipient |-> IF dev # None THEN dev ELSE m.recipient]

Publish(r, dev) ==
  /\ record' = [record EXCEPT ![r] = RecordOf(sent[r], dev)]
  /\ outcome' = [outcome EXCEPT ![r] = "queued"]
  /\ Goto(r, "sending")

EnterContext(r) ==
  /\ device' = [device EXCEPT ![r] = Open(sent[r].header)]
  /\ token' = [token EXCEPT ![r] = sent[r].token]

\* No register event among them: the events are published as they are.
AcceptEvents(r) ==
  /\ Judged(r)
  /\ Validate(apps, sent[r]) = "Ok"
  /\ ~sent[r].register
  /\ EnterContext(r)
  /\ Publish(r, Open(sent[r].header))
  /\ UNCHANGED <<snapVars, matchVars, sent, doneVars, seen>>

\* Faulty variant: the closure is called as it is, without blocking().
AcceptWithoutSlot(r) ==
  /\ Judged(r)
  /\ Validate(apps, sent[r]) = "Ok"
  /\ sent[r].register
  /\ EnterContext(r)
  /\ Goto(r, "registering")
  /\ IF Open(sent[r].header) = None
       THEN /\ step' = [step EXCEPT ![r] = "entered"]
            /\ asked' = [asked EXCEPT ![r] = DeviceOf(sent[r])]
            /\ UNCHANGED <<known, stray, ifaPool, id, lookup, issued>>
       ELSE UNCHANGED matchVars
  /\ UNCHANGED <<snapVars, sent, busVars, doneVars, seen>>

\* A register event: only a device that brings no identity is looked up.
AcceptRegister(r) ==
  /\ Judged(r)
  /\ Validate(apps, sent[r]) = "Ok"
  /\ sent[r].register
  /\ EnterContext(r)
  /\ Goto(r, "registering")
  /\ IF Open(sent[r].header) = None
       THEN Matching!Begin(r, DeviceOf(sent[r]))
       ELSE UNCHANGED matchVars
  /\ UNCHANGED <<snapVars, sent, busVars, doneVars, seen>>

-----------------------------------------------------------------------------
(* create_new_device, after the identity is there.                         *)

NewDevice(r) == IF device[r] = None THEN id[r] ELSE device[r]

\* The token is read from the registry as it is by now.
EnterIdentity(r) ==
  /\ device' = [device EXCEPT ![r] = NewDevice(r)]
  /\ token' = [token EXCEPT ![r] = IF @ = None THEN TokenFor(apps, sent[r].app) ELSE @]

Registered(r) == pc[r] = "registering" /\ (device[r] # None \/ step[r] = "done")

\* Faulty variant: the record is made from the context as it was before.
CompleteWithOldContext(r) ==
  /\ Registered(r)
  /\ EnterIdentity(r)
  /\ Publish(r, device[r])
  /\ UNCHANGED <<snapVars, matchVars, sent, doneVars, seen>>

CompleteRegistration(r) ==
  /\ Registered(r)
  /\ EnterIdentity(r)
  /\ Publish(r, NewDevice(r))
  /\ UNCHANGED <<snapVars, matchVars, sent, doneVars, seen>>

RegistrationRefused(r) ==
  /\ pc[r] = "registering"
  /\ step[r] = "refused"
  /\ Fail(r, "ServiceUnavailable", FALSE)
  /\ UNCHANGED Unsent

RegistrationPanicked(r) ==
  /\ pc[r] = "registering"
  /\ step[r] = "panicked"
  /\ Vanish(r)

-----------------------------------------------------------------------------
(* Kafka.                                                                  *)

\* External: the producer reports what became of a record.  With acks 0 it is
\* "sent" once it has left; "failed" is a report that the queue was full or the
\* message timed out; "canceled" is the future of a report that never comes.
Report(r) ==
  /\ outcome[r] = "queued"
  /\ \E o \in {"sent", "failed", "canceled"} : outcome' = [outcome EXCEPT ![r] = o]
  /\ UNCHANGED <<snapVars, matchVars, pc, ctxVars, record, doneVars, seen>>

Succeed(r) ==
  /\ Answer(r, [status  |-> 200,
                cors    |-> CorsHeaders(sent[r]),
                device  |-> IF sent[r].register THEN device[r] ELSE None,
                token   |-> IF sent[r].register THEN token[r] ELSE None,
                results |-> Results(sent[r])])
  /\ Count(200, "sdk_events")
  /\ events' = events + Results(sent[r])
  /\ UNCHANGED Unsent

\* Faulty variant: a failed delivery is waited for again.
FinishSentOnly(r) ==
  /\ pc[r] = "sending"
  /\ outcome[r] = "sent"
  /\ Succeed(r)

\* A delivery report is the future's Item whether or not it reports an error,
\* and publish maps every Item to success.
Finish(r) ==
  /\ pc[r] = "sending"
  /\ outcome[r] \in {"sent", "failed"}
  /\ Succeed(r)

FinishCanceled(r) ==
  /\ pc[r] = "sending"
  /\ outcome[r] = "canceled"
  /\ Fail(r, "ServiceUnavailable", FALSE)
  /\ UNCHANGED Unsent

-----------------------------------------------------------------------------
(* Clients that go away, and crashes.                                      *)

\* A request is dropped where it waits.  A record stays with the producer.
Disconnect(r) ==
  /\ \/ pc[r] \in {"body", "sending"} /\ UNCHANGED matchVars
     \/ pc[r] = "registering" /\ Matching!Abandon(r)
  /\ Goto(r, "closed")
  /\ UNCHANGED <<snapVars, ctxVars, busVars, doneVars, seen>>

\* The process dies and is started again, its counters at zero.
Crash ==
  /\ Snap!Restart
  /\ Matching!Crash
  /\ pc' = [r \in Req |-> IF pc[r] \in Waiting THEN "closed" ELSE pc[r]]
  /\ requests' = [l \in Labels |-> 0]
  /\ events' = 0
  /\ answered' = {}
  /\ outcome' = [r \in Req |-> IF outcome[r] = "queued" THEN "lost" ELSE outcome[r]]
  /\ UNCHANGED <<ctxVars, record, reply, seen>>

-----------------------------------------------------------------------------
(* The steps of the parts.                                                 *)

RegistryStep ==
  /\ \/ \E s \in Snapshots : Snap!Load(s) \/ Snap!Swap(s)
     \/ Snap!Poison
  /\ seen' = [r \in Req |-> IF pc[r] \in Waiting THEN seen[r] \cup {apps'} ELSE seen[r]]
  /\ UNCHANGED <<matchVars, pc, ctxVars, busVars, doneVars>>

MatchingStep ==
  /\ \/ \E r \in Req : Matching!Acquire(r) \/ Matching!Refuse(r) \/ Matching!Closure(r)
     \/ \E w \in stray : Matching!Settle(w)
  /\ UNCHANGED <<snapVars, pc, ctxVars, busVars, doneVars, seen>>

Handle(r) ==
  \/ Malformed(r) \/ PanicOnHeader(r) \/ RejectOrigin(r) \/ PanicOnRegistry(r)
  \/ Reject(r) \/ AcceptEvents(r) \/ AcceptRegister(r)

Continue(r) ==
  \/ CompleteRegistration(r) \/ RegistrationRefused(r) \/ RegistrationPanicked(r)
  \/ Finish(r) \/ FinishCanceled(r)

Next ==
  \/ \E r \in Req :
       \/ \E m \in Messages : Receive(r, m) \/ Serve(r, m)
       \/ BodyFails(r) \/ Handle(r) \/ Continue(r) \/ Report(r) \/ Disconnect(r)
  \/ RegistryStep
  \/ MatchingStep
  \/ Crash

Spec == Init /\ [][Next]_vars

\* The runtime polls a future that is notified, the closure's thread runs up to its
\* queries, which need not return, the slots are given out in turn, and the
\* producer reports every record.
Fairness ==
  \A r \in Req :
    /\ WF_vars(Continue(r))
    /\ WF_vars(Report(r))
    /\ WF_vars(Matching!Prepare(r) /\ MatchingStep)
    /\ SF_vars(Matching!Acquire(r) /\ MatchingStep)

FairSpec == Spec /\ Fairness

-----------------------------------------------------------------------------
(* Properties.                                                             *)

\* Types.  An identity in use in a request has been issued.
TypeOK ==
  /\ registry \in {"unset", "ready", "poisoned"}
  /\ apps \in AppMap
  /\ Matching!TypeOK
  /\ pc \in [Req -> {"idle", "replied", "closed"} \cup Waiting]
  /\ sent \in [Req -> Message \cup {None}]
  /\ device \in [Req -> issued \cup {None}]
  /\ token \in [Req -> Token \cup {None}]
  /\ outcome \in [Req -> {"none", "queued", "sent", "failed", "canceled", "lost"}]
  /\ record \in [Req -> {None} \cup [app : App, key : issued \cup {None}, events : Nat,
                                    recipient : issued \cup {"claimed", None}]]
  /\ reply \in [Req -> [status  : {None, 200, 400, 403, 404, 412, 500, 503},
                        cors    : BOOLEAN,
                        device  : issued \cup {None},
                        token   : Token \cup {None},
                        results : Nat]]
  /\ requests \in [Labels -> Nat]
  /\ events \in Nat
  /\ answered \in SUBSET Req
  /\ seen \in [Req -> SUBSET AppMap]

\* What the registration of an application in map s demands of a message; not
\* by way of the code's operators.
Signer(app, m) ==
  IF m.platform = "web" THEN app.web
  ELSE IF m.platform = "ios" THEN app.ios
  ELSE IF m.platform = "android" THEN app.android
  ELSE IF m.osName = "Android" THEN app.android
  ELSE IF m.osName # None THEN app.ios
  ELSE None

Authentic(s, m) ==
  /\ s[m.app] # None
  /\ m.token # None =>
       m.token = s[m.app].token \/ (s[m.app].token = None /\ m.token = DefaultToken)
  /\ m.events > 0
  /\ ~AllowEmptySignature =>
       m.signature # None /\ m.signature = Signer(s[m.app], m)
  /\ CorsEnabled /\ m.platform = "web" => m.origin \in AllowedOrigins[m.app]

\* Nothing reaches Kafka but batches that are authentic for an application map
\* the registry showed while the request was there, whatever is swapped, looked
\* up or restarted meanwhile (validate, handle_event).
PublishedIsAuthentic ==
  \A r \in Req : outcome[r] # "none" => \E s \in seen[r] : Authentic(s, sent[r])

\* The identity a device is told is the one its registration was recorded under,
\* as routing key and as recipient, and a device that brought one keeps it: the
\* context is not used as it was before create_new_device.
ToldIdIsRecorded ==
  \A r \in Req : reply[r].device # None =>
    /\ record[r].key = reply[r].device
    /\ record[r].recipient = reply[r].device
    /\ sent[r].header \in Id => reply[r].device = sent[r].header

\* The token a device is told is the one it sent, or else the application's own
\* in a map that was shown while the request was there; the registry is read a
\* second time for it (token_for), after the identity has been waited for.
ToldTokenWasCurrent ==
  \A r \in Req : pc[r] = "replied" /\ reply[r].device # None =>
    IF sent[r].token # None
      THEN reply[r].token = sent[r].token
      ELSE \E s \in seen[r] :
             reply[r].token = IF s[sent[r].app] = None THEN None ELSE s[sent[r].app].token

\* The answer of r is one that counts under label l; /metrics does not count itself.
CountsUnder(r, l) ==
  /\ reply[r].status = l.status
  /\ sent[r].route # "metrics"
  /\ l.endpoint = CASE sent[r].route = "sdk" -> "sdk_events"
                    [] sent[r].route = "options" -> "options"
                    [] OTHER -> "not_found"

\* The answers that have been given since the process started, each counted once
\* under its status and endpoint, are what REQUEST_COUNTER shows, however requests
\* end: by an answer, a panic, a client that goes away or a crash.
AnswersAreCounted ==
  \A l \in Labels : requests[l] = Cardinality({r \in answered : CountsUnder(r, l)})

\* A batch that has been accepted is answered, or its connection ends: it waits
\* for a report, which may be an error, and before that for a registration, which
\* may panic and which a query that is never answered may hold up.
AcceptedRequestsEnd ==
  \A r \in Req :
    /\ pc[r] = "sending" ~> pc[r] \in {"replied", "closed"}
    /\ Matching!SlotsReturn /\ Matching!Answered(r) =>
         (pc[r] = "registering" ~> pc[r] \in {"replied", "closed"})

\* A registration that waits for a blocking slot gets it or is turned away, with
\* other requests at the slots, a poisoned cell, clients that go away and queries
\* that hold a slot for good, as long as these do not hold all of them.
RegistrationsEnd == Matching!RegistrationsEnd

\* The pipeline drives device registrations only as IfaMatching allows: each waits
\* for a blocking slot, and a client that goes away drops its future while the
\* registration waits, never inside the closure.
DrivesMatching == Matching!Spec

-----------------------------------------------------------------------------
(* What documentation and source say of the pipeline.                      *)

\* Context: of a device id that exists but is invalid, "user should get an error".
ForgedIdIsRefused ==
  \A r \in Req : pc[r] = "replied" /\ sent[r].header = "forged" => reply[r].status # 200

\* publish: an error of the delivery is answered "Could not send to kafka".
AcknowledgedIsSent ==
  \A r \in Req : reply[r].status = 200 /\ sent[r].route = "sdk" => outcome[r] = "sent"
=============================================================================
