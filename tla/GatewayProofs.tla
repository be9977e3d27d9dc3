----------------------------- MODULE GatewayProofs -----------------------------
(***************************************************************************)
(* Theorems about the request pipeline, for any number of requests and any *)
(* messages, applications and maps: what reaches Kafka is authentic, and   *)
(* the pipeline drives device registrations as IfaMatching demands.        *)
(***************************************************************************)
EXTENDS Gateway, TLAPS

-----------------------------------------------------------------------------
\* The rules as coded imply what the registration of an application demands.
LEMMA AcceptedIsAuthentic ==
  ASSUME NEW s, NEW m, m.events \in Nat, m.platform \in Platforms \cup {None},
         m.osName \in OsNames \cup {None},
         ~OriginRejected(m), Validate(s, m) = "Ok"
  PROVE  Authentic(s, m)
<1> DEFINE app == s[m.app]
           secret == SecretFor(app, PlatformOf(m))
<1>1. /\ app # None
      /\ m.token # None => m.token = ValidToken(app)
      /\ m.events # 0
      /\ ~AllowEmptySignature => m.signature # None /\ m.signature = secret
  BY DEF Validate, SignatureVerifies
<1>2. secret = Signer(app, m)
  BY GatewayAssumption
     DEF GatewayAssumption, SecretFor, PlatformOf, Signer, Platforms, OsNames
<1>3. CorsEnabled /\ m.platform = "web" => m.origin \in AllowedOrigins[m.app]
  BY DEF OriginRejected, ValidOrigin, PlatformOf
<1>4. m.token # None =>
        m.token = app.token \/ (app.token = None /\ m.token = DefaultToken)
  BY <1>1 DEF ValidToken
<1>5. m.events > 0
  BY <1>1
<1> HIDE DEF secret
<1>6. QED
  BY <1>1, <1>2, <1>3, <1>4, <1>5 DEF Authentic

-----------------------------------------------------------------------------
(* Why the message behind a record is authentic: while a request has not   *)
(* been judged, the map that is shown now is among those it has seen, and  *)
(* a request that is past its judgement has one that accepts its message.  *)

Readable(m) ==
  /\ m.events \in Nat
  /\ m.platform \in Platforms \cup {None}
  /\ m.osName \in OsNames \cup {None}
  /\ DeviceOf(m) \in Devices

Backed(r) == \E s \in seen[r] : Authentic(s, sent[r])

Outcomes == {"none", "queued", "sent", "failed", "canceled", "lost"}

Shape ==
  /\ pc \in [Req -> {"idle", "replied", "closed"} \cup Waiting]
  /\ outcome \in [Req -> Outcomes]
  /\ sent = [r \in Req |-> sent[r]]
  /\ seen = [r \in Req |-> seen[r]]

Judgement ==
  \A r \in Req :
    /\ pc[r] # "idle" => Readable(sent[r])
    /\ pc[r] = "idle" => outcome[r] = "none"
    /\ pc[r] = "body" => outcome[r] = "none" /\ apps \in seen[r]
    /\ pc[r] = "registering" => Backed(r)
    /\ outcome[r] # "none" => Backed(r)

PipeInv == Shape /\ Judgement

\* A request that is answered or dropped leaves everything else as it is.
LEMMA LeavingKeepsPipeInv ==
  ASSUME PipeInv, NEW r \in Req, NEW p \in {"replied", "closed"},
         pc[r] # "idle", pc' = [pc EXCEPT ![r] = p],
         UNCHANGED <<apps, sent, outcome, seen>>
  PROVE  PipeInv'
BY DEF PipeInv, Shape, Judgement, Backed, Waiting

\* Publishing, or beginning to register, on behalf of a message that is backed.
LEMMA BackedKeepsPipeInv ==
  ASSUME PipeInv, NEW r \in Req, Backed(r), pc[r] # "idle",
         \/ pc' = [pc EXCEPT ![r] = "registering"] /\ UNCHANGED outcome
         \/ /\ pc' = [pc EXCEPT ![r] = "sending"]
            /\ outcome' = [outcome EXCEPT ![r] = "queued"],
         UNCHANGED <<apps, sent, seen>>
  PROVE  PipeInv'
BY DEF PipeInv, Shape, Judgement, Backed, Waiting, Outcomes

\* A message that validate accepts, from an allowed origin, is backed by the map
\* it was judged by, which is one of those shown since it arrived.
LEMMA JudgedIsBacked ==
  ASSUME PipeInv, NEW r \in Req, Judged(r), Validate(apps, sent[r]) = "Ok"
  PROVE  Backed(r) /\ pc[r] # "idle"
<1>1. pc[r] = "body" /\ ~OriginRejected(sent[r])
  BY DEF Judged, HasContext
<1>2. Readable(sent[r]) /\ apps \in seen[r]
  BY <1>1 DEF PipeInv, Judgement
<1>3. Authentic(apps, sent[r])
  BY <1>1, <1>2, AcceptedIsAuthentic DEF Readable
<1>4. QED
  BY <1>1, <1>2, <1>3 DEF Backed

\* A request that arrives has seen the map of that moment and published nothing.
LEMMA ReceiveKeepsPipeInv ==
  ASSUME PipeInv, NEW r \in Req, NEW m \in Messages, Receive(r, m)
  PROVE  PipeInv'
<1>1. PICK h : sent' = [sent EXCEPT ![r] = [m EXCEPT !.header = h]]
  BY DEF Receive
<1>2. Readable([m EXCEPT !.header = h])
  BY GatewayAssumption DEF GatewayAssumption, Message, Readable, DeviceOf, Devices
<1>3. /\ pc[r] = "idle" /\ pc' = [pc EXCEPT ![r] = "body"]
      /\ seen' = [seen EXCEPT ![r] = {apps}]
      /\ UNCHANGED <<apps, outcome>>
  BY DEF Receive, Goto, snapVars, busVars
<1>4. sent'[r] = [m EXCEPT !.header = h] /\ \A o \in Req \ {r} : sent'[o] = sent[o]
  BY <1>1 DEF PipeInv, Shape
<1>5. Shape'
  BY <1>1, <1>3 DEF PipeInv, Shape, Waiting
<1>6. Judgement'
  BY <1>2, <1>3, <1>4 DEF PipeInv, Shape, Judgement, Backed, Waiting
<1>7. QED
  BY <1>5, <1>6 DEF PipeInv

\* Requests of the other routes never come near the judgement.
LEMMA ServeKeepsPipeInv ==
  ASSUME PipeInv, NEW r \in Req, NEW m \in Messages, Serve(r, m)
  PROVE  PipeInv'
<1>1. /\ pc[r] = "idle" /\ pc' = [pc EXCEPT ![r] = "replied"]
      /\ sent' = [sent EXCEPT ![r] = m]
      /\ UNCHANGED <<apps, outcome, seen>>
  BY DEF Serve, Answer, Goto, snapVars, busVars
<1>2. Readable(m)
  BY GatewayAssumption DEF GatewayAssumption, Message, Readable, DeviceOf, Devices
<1>3. sent'[r] = m /\ \A o \in Req \ {r} : sent'[o] = sent[o]
  BY <1>1 DEF PipeInv, Shape
<1>4. Shape'
  BY <1>1 DEF PipeInv, Shape, Waiting
<1>5. Judgement'
  BY <1>1, <1>2, <1>3 DEF PipeInv, Shape, Judgement, Backed, Waiting
<1>6. QED
  BY <1>4, <1>5 DEF PipeInv

\* The invariant of the pipeline, action by action.
LEMMA StepKeepsPipeInv ==
  ASSUME PipeInv, [Next]_vars
  PROVE  PipeInv'
<1> USE DEF Unsent, snapVars, busVars, ctxVars
<1>1. ASSUME NEW r \in Req, NEW m \in Messages, Receive(r, m) \/ Serve(r, m)
      PROVE  PipeInv'
  BY <1>1, ReceiveKeepsPipeInv, ServeKeepsPipeInv
<1>2. ASSUME NEW r \in Req,
             \/ BodyFails(r) \/ Malformed(r) \/ RejectOrigin(r) \/ Reject(r)
             \/ RegistrationRefused(r) \/ Finish(r) \/ FinishCanceled(r)
      PROVE  PipeInv'
  <2>1. /\ pc[r] # "idle" /\ pc' = [pc EXCEPT ![r] = "replied"]
        /\ UNCHANGED <<apps, sent, outcome, seen>>
    BY <1>2 DEF BodyFails, Malformed, RejectOrigin, Reject, RegistrationRefused,
                Finish, FinishCanceled, Succeed, Fail, Answer, Goto, Judged, HasContext
  <2>2. QED
    BY <2>1, LeavingKeepsPipeInv
<1>3. ASSUME NEW r \in Req,
             \/ PanicOnHeader(r) \/ PanicOnRegistry(r) \/ RegistrationPanicked(r)
             \/ Disconnect(r)
      PROVE  PipeInv'
  <2>1. /\ pc[r] # "idle" /\ pc' = [pc EXCEPT ![r] = "closed"]
        /\ UNCHANGED <<apps, sent, outcome, seen>>
    BY <1>3 DEF PanicOnHeader, PanicOnRegistry, RegistrationPanicked, Disconnect,
                Vanish, Goto, HasContext
  <2>2. QED
    BY <2>1, LeavingKeepsPipeInv
<1>4. ASSUME NEW r \in Req, AcceptEvents(r) \/ AcceptRegister(r) PROVE PipeInv'
  <2>1. Backed(r) /\ pc[r] # "idle"
    BY <1>4, JudgedIsBacked DEF AcceptEvents, AcceptRegister
  <2>2. QED
    BY <1>4, <2>1, BackedKeepsPipeInv DEF AcceptEvents, AcceptRegister, Publish, Goto
<1>5. ASSUME NEW r \in Req, CompleteRegistration(r) PROVE PipeInv'
  <2>1. Backed(r) /\ pc[r] # "idle"
    BY <1>5 DEF CompleteRegistration, Registered, PipeInv, Judgement
  <2>2. QED
    BY <1>5, <2>1, BackedKeepsPipeInv DEF CompleteRegistration, Publish, Goto
<1>6. ASSUME NEW r \in Req, Report(r) PROVE PipeInv'
  BY <1>6 DEF Report, PipeInv, Shape, Judgement, Backed, Waiting, Outcomes
<1>7. CASE RegistryStep
  <2>1. /\ UNCHANGED <<pc, sent, outcome>>
        /\ seen' = [r \in Req |-> IF pc[r] \in Waiting THEN seen[r] \cup {apps'}
                                                     ELSE seen[r]]
    BY <1>7 DEF RegistryStep
  <2>2. \A r \in Req : /\ Backed(r) => Backed(r)'
                       /\ pc[r] = "body" => apps' \in seen'[r]
    BY <2>1 DEF Backed, Waiting
  <2>3. Shape'
    BY <2>1 DEF PipeInv, Shape
  <2>4. Judgement'
    BY <2>1, <2>2 DEF PipeInv, Judgement
  <2>5. QED
    BY <2>3, <2>4 DEF PipeInv
<1>8. CASE MatchingStep
  BY <1>8 DEF MatchingStep, PipeInv, Shape, Judgement, Backed
<1>9. CASE Crash
  <2>1. /\ pc' = [r \in Req |-> IF pc[r] \in Waiting THEN "closed" ELSE pc[r]]
        /\ outcome' = [r \in Req |-> IF outcome[r] = "queued" THEN "lost" ELSE outcome[r]]
        /\ UNCHANGED <<sent, seen>>
    BY <1>9 DEF Crash
  <2>2. Shape'
    BY <2>1 DEF PipeInv, Shape, Outcomes
  <2>3. Judgement'
    BY <2>1 DEF PipeInv, Shape, Judgement, Backed, Waiting
  <2>4. QED
    BY <2>2, <2>3 DEF PipeInv
<1>10. CASE UNCHANGED vars
  BY <1>10 DEF vars, PipeInv, Shape, Judgement, Backed
<1>11. QED
  BY <1>1, <1>2, <1>3, <1>4, <1>5, <1>6, <1>7, <1>8, <1>9, <1>10
     DEF Next, Handle, Continue

\* Whatever is swapped, looked up, dropped or restarted between a request's
\* judgement and its publication, only authentic batches reach Kafka.
THEOREM OnlyAuthenticIsPublished == Spec => []PublishedIsAuthentic
<1>1. Init => PipeInv
  BY DEF Init, PipeInv, Shape, Judgement, Outcomes
<1>2. PipeInv => PublishedIsAuthentic
  BY DEF PipeInv, Judgement, Backed, PublishedIsAuthentic
<1>3. QED
  BY <1>1, <1>2, StepKeepsPipeInv, PTL DEF Spec

-----------------------------------------------------------------------------
(* What a device is told.  The context that the answer is made from is the *)
(* one that the record was made from, and the map its token comes from has *)
(* been shown since the request arrived.                                   *)

\* The record of a request is that of device d, and d is the one it brought.
RecordedUnder(r, d) ==
  /\ record[r].key = d
  /\ d # None => record[r].recipient = d
  /\ sent[r].header \in Id => d = sent[r].header

\* A token that a registration may be told.
Current(r, t) ==
  IF sent[r].token # None THEN t = sent[r].token
  ELSE \E s \in seen[r] : t = TokenFor(s, sent[r].app)

ToldShape ==
  /\ pc \in [Req -> {"idle", "replied", "closed"} \cup Waiting]
  /\ sent = [r \in Req |-> sent[r]]
  /\ seen = [r \in Req |-> seen[r]]
  /\ device = [r \in Req |-> device[r]]
  /\ token = [r \in Req |-> token[r]]
  /\ record = [r \in Req |-> record[r]]
  /\ reply = [r \in Req |-> reply[r]]

\* What holds of one request.
ToldOne(r) ==
  /\ pc[r] \in Waiting => apps \in seen[r]
  /\ pc[r] \in Waiting \cup {"idle"} => reply[r].device = None
  /\ pc[r] = "registering" =>
       device[r] = Open(sent[r].header) /\ token[r] = sent[r].token
  /\ pc[r] = "sending" =>
       RecordedUnder(r, device[r]) /\ (sent[r].register => Current(r, token[r]))
  /\ reply[r].device # None =>
       RecordedUnder(r, reply[r].device) /\ Current(r, reply[r].token)

ToldInv == ToldShape /\ \A r \in Req : ToldOne(r)

\* A step of one request leaves the others as they are.
LEMMA OthersKeepTold ==
  ASSUME ToldInv, NEW r \in Req, ToldShape', ToldOne(r)', UNCHANGED apps,
         \A o \in Req \ {r} :
           /\ pc'[o] = pc[o] /\ sent'[o] = sent[o] /\ seen'[o] = seen[o]
           /\ device'[o] = device[o] /\ token'[o] = token[o]
           /\ record'[o] = record[o] /\ reply'[o] = reply[o]
  PROVE  ToldInv'
BY DEF ToldInv, ToldOne, RecordedUnder, Current

\* A request that ends without naming a device.
LEMMA EndKeepsTold ==
  ASSUME ToldInv, NEW r \in Req,
         pc' = [pc EXCEPT ![r] = "replied"] \/ pc' = [pc EXCEPT ![r] = "closed"],
         \/ UNCHANGED reply
         \/ \E answer : answer.device = None /\ reply' = [reply EXCEPT ![r] = answer],
         UNCHANGED <<apps, sent, seen, device, token, record>>
  PROVE  ToldInv'
<1>1. ToldShape'
  BY DEF ToldInv, ToldShape, Waiting
<1>2. ToldOne(r)'
  BY DEF ToldInv, ToldShape, ToldOne, RecordedUnder, Current, Waiting
<1>3. QED
  BY <1>1, <1>2, OthersKeepTold DEF ToldInv, ToldShape

\* A record is made under identity d, which enters the context with token t.
EntersContext(r, d, t) ==
  /\ sent[r].header \in Id => d = sent[r].header
  /\ sent[r].register => Current(r, t)
  /\ Publish(r, d)
  /\ device' = [device EXCEPT ![r] = d]
  /\ token' = [token EXCEPT ![r] = t]

\* A record is queued, from the context of its request (handle_event).
LEMMA PublishKeepsTold ==
  ASSUME ToldInv, NEW r \in Req, pc[r] \in {"body", "registering"},
         \E d, t : EntersContext(r, d, t),
         UNCHANGED <<apps, sent, seen, reply>>
  PROVE  ToldInv'
<1> PICK d, t : EntersContext(r, d, t)
  OBVIOUS
<1> USE DEF EntersContext
<1>1. ToldShape'
  BY DEF ToldInv, ToldShape, Waiting, Publish, Goto
<1>2. /\ pc'[r] = "sending" /\ device'[r] = d /\ token'[r] = t
      /\ record'[r].key = d /\ (d # None => record'[r].recipient = d)
  BY DEF ToldInv, ToldShape, Publish, Goto, RecordOf
<1>3. reply[r].device = None /\ apps \in seen[r]
  BY DEF ToldInv, ToldOne, Waiting
<1>4. ToldOne(r)'
  BY <1>2, <1>3 DEF ToldInv, ToldOne, RecordedUnder, Current, Waiting
<1>5. QED
  BY <1>1, <1>4, OthersKeepTold DEF ToldInv, ToldShape, Publish, Goto

\* The invariant of what is told, action by action.
LEMMA StepKeepsTold ==
  ASSUME ToldInv, [Next]_vars
  PROVE  ToldInv'
<1> USE DEF Unsent, snapVars, busVars, ctxVars
<1>1. ASSUME NEW r \in Req, NEW m \in Messages, Receive(r, m) PROVE ToldInv'
  <2>1. PICK h : sent' = [sent EXCEPT ![r] = [m EXCEPT !.header = h]]
    BY <1>1 DEF Receive
  <2>2. /\ pc[r] = "idle" /\ pc' = [pc EXCEPT ![r] = "body"]
        /\ seen' = [seen EXCEPT ![r] = {apps}]
        /\ UNCHANGED <<apps, device, token, record, reply>>
    BY <1>1 DEF Receive, Goto, doneVars
  <2>3. ToldShape'
    BY <2>1, <2>2 DEF ToldInv, ToldShape, Waiting
  <2>4. ToldOne(r)'
    BY <2>2 DEF ToldInv, ToldShape, ToldOne, Waiting
  <2>5. QED
    BY <2>1, <2>2, <2>3, <2>4, OthersKeepTold DEF ToldInv, ToldShape
<1>2. ASSUME NEW r \in Req, NEW m \in Messages, Serve(r, m) PROVE ToldInv'
  <2>1. PICK answer : answer.device = None /\ reply' = [reply EXCEPT ![r] = answer]
    BY <1>2 DEF Serve, Answer, NoReply
  <2>2. /\ pc[r] = "idle" /\ pc' = [pc EXCEPT ![r] = "replied"]
        /\ sent' = [sent EXCEPT ![r] = m]
        /\ UNCHANGED <<apps, seen, device, token, record>>
    BY <1>2 DEF Serve, Answer, Goto
  <2>3. ToldShape'
    BY <2>1, <2>2 DEF ToldInv, ToldShape, Waiting
  <2>4. ToldOne(r)'
    BY <2>1, <2>2 DEF ToldInv, ToldShape, ToldOne, Waiting
  <2>5. QED
    BY <2>1, <2>2, <2>3, <2>4, OthersKeepTold DEF ToldInv, ToldShape
<1>3. ASSUME NEW r \in Req,
             \/ BodyFails(r) \/ Malformed(r) \/ RejectOrigin(r) \/ Reject(r)
             \/ RegistrationRefused(r) \/ FinishCanceled(r)
      PROVE  ToldInv'
  <2>1. PICK error, hasContext : Fail(r, error, hasContext)
    BY <1>3 DEF BodyFails, Malformed, RejectOrigin, Reject, RegistrationRefused,
                FinishCanceled
  <2>2. UNCHANGED Unsent
    BY <1>3 DEF BodyFails, Malformed, RejectOrigin, Reject, RegistrationRefused,
                FinishCanceled
  <2>3. QED
    BY <2>1, <2>2, EndKeepsTold DEF Fail, Answer, Goto, NoReply
<1>4. ASSUME NEW r \in Req,
             \/ PanicOnHeader(r) \/ PanicOnRegistry(r) \/ RegistrationPanicked(r)
             \/ Disconnect(r)
      PROVE  ToldInv'
  BY <1>4, EndKeepsTold DEF PanicOnHeader, PanicOnRegistry, RegistrationPanicked,
     Disconnect, Vanish, Goto, doneVars
<1>5. ASSUME NEW r \in Req, Finish(r) PROVE ToldInv'
  <2>1. /\ pc[r] = "sending" /\ pc' = [pc EXCEPT ![r] = "replied"]
        /\ UNCHANGED <<apps, sent, seen, device, token, record>>
    BY <1>5 DEF Finish, Succeed, Answer, Goto
  <2>2. PICK answer :
          /\ answer.device = IF sent[r].register THEN device[r] ELSE None
          /\ answer.token = IF sent[r].register THEN token[r] ELSE None
          /\ reply' = [reply EXCEPT ![r] = answer]
    BY <1>5 DEF Finish, Succeed, Answer
  <2>3. ToldShape'
    BY <2>1, <2>2 DEF ToldInv, ToldShape, Waiting
  <2>4. ToldOne(r)'
    BY <2>1, <2>2 DEF ToldInv, ToldShape, ToldOne, RecordedUnder, Current, Waiting
  <2>5. QED
    BY <2>1, <2>2, <2>3, <2>4, OthersKeepTold DEF ToldInv, ToldShape
<1>6. ASSUME NEW r \in Req, AcceptEvents(r) PROVE ToldInv'
  <2>1. pc[r] = "body" /\ ~sent[r].register
    BY <1>6 DEF AcceptEvents, Judged, HasContext
  <2>2. EntersContext(r, Open(sent[r].header), sent[r].token)
    BY <1>6, <2>1 DEF AcceptEvents, EnterContext, EntersContext, Open
  <2>3. QED
    BY <1>6, <2>1, <2>2, PublishKeepsTold DEF AcceptEvents, doneVars
<1>7. ASSUME NEW r \in Req, AcceptRegister(r) PROVE ToldInv'
  <2>1. /\ pc[r] = "body" /\ pc' = [pc EXCEPT ![r] = "registering"]
        /\ device' = [device EXCEPT ![r] = Open(sent[r].header)]
        /\ token' = [token EXCEPT ![r] = sent[r].token]
        /\ UNCHANGED <<apps, sent, seen, record, reply>>
    BY <1>7 DEF AcceptRegister, Judged, HasContext, EnterContext, Goto, doneVars
  <2>2. ToldShape'
    BY <2>1 DEF ToldInv, ToldShape, Waiting
  <2>3. ToldOne(r)'
    BY <2>1 DEF ToldInv, ToldShape, ToldOne, Waiting, Open
  <2>4. QED
    BY <2>1, <2>2, <2>3, OthersKeepTold DEF ToldInv, ToldShape
<1>8. ASSUME NEW r \in Req, CompleteRegistration(r) PROVE ToldInv'
  <2>1. /\ pc[r] = "registering" /\ device[r] = Open(sent[r].header)
        /\ token[r] = sent[r].token /\ apps \in seen[r]
    BY <1>8 DEF CompleteRegistration, Registered, ToldInv, ToldOne, Waiting
  <2>2. PICK d, t :
          /\ d = NewDevice(r)
          /\ t = IF token[r] = None THEN TokenFor(apps, sent[r].app) ELSE token[r]
    OBVIOUS
  <2>3. sent[r].header \in Id => d = sent[r].header
    BY <2>1, <2>2, GatewayAssumption DEF NewDevice, Open, GatewayAssumption
  <2>4. Current(r, t)
    BY <2>1, <2>2 DEF Current
  <2>5. EntersContext(r, d, t)
    BY <1>8, <2>2, <2>3, <2>4
       DEF CompleteRegistration, EnterIdentity, EntersContext, Publish
  <2>6. QED
    BY <1>8, <2>1, <2>5, PublishKeepsTold DEF CompleteRegistration, doneVars
<1>9. CASE RegistryStep
  <2>1. /\ UNCHANGED <<pc, sent, device, token, record, reply>>
        /\ seen' = [r \in Req |-> IF pc[r] \in Waiting THEN seen[r] \cup {apps'}
                                                     ELSE seen[r]]
    BY <1>9 DEF RegistryStep, doneVars
  <2>2. ToldShape'
    BY <2>1 DEF ToldInv, ToldShape
  <2>3. \A r \in Req : seen[r] \subseteq seen'[r]
    BY <2>1
  <2>4. ASSUME NEW r \in Req PROVE ToldOne(r)'
    <3>1. \A t : Current(r, t) => Current(r, t)'
      BY <2>1, <2>3 DEF Current
    <3>2. QED
      BY <2>1, <3>1 DEF ToldInv, ToldOne, RecordedUnder
  <2>5. QED
    BY <2>2, <2>4 DEF ToldInv
<1>10. CASE Crash
  <2>1. /\ pc' = [r \in Req |-> IF pc[r] \in Waiting THEN "closed" ELSE pc[r]]
        /\ UNCHANGED <<sent, device, token, record, reply, seen>>
    BY <1>10 DEF Crash
  <2>2. ToldShape'
    BY <2>1 DEF ToldInv, ToldShape, Waiting
  <2>3. ASSUME NEW r \in Req PROVE ToldOne(r)'
    BY <2>1 DEF ToldInv, ToldOne, RecordedUnder, Current, Waiting
  <2>4. QED
    BY <2>2, <2>3 DEF ToldInv
<1>11. ASSUME \/ \E r \in Req : Report(r)
              \/ MatchingStep
              \/ UNCHANGED vars
       PROVE  ToldInv'
  BY <1>11 DEF Report, MatchingStep, vars, doneVars, ToldInv, ToldShape, ToldOne,
     RecordedUnder, Current
<1>12. QED
  BY <1>1, <1>2, <1>3, <1>4, <1>5, <1>6, <1>7, <1>8, <1>9, <1>10, <1>11
     DEF Next, Handle, Continue

\* Before any request nobody has been told anything.
LEMMA InitTold == Init => ToldInv
BY DEF Init, ToldInv, ToldShape, ToldOne, NoReply, Waiting

\* Whatever is registered, dropped or restarted meanwhile, the identity a device is
\* told is the one its batch was recorded under, and the one it brought if any.
THEOREM ToldIdsAreRecorded == Spec => []ToldIdIsRecorded
<1>1. ToldInv => ToldIdIsRecorded
  BY DEF ToldInv, ToldOne, RecordedUnder, ToldIdIsRecorded
<1>2. QED
  BY <1>1, InitTold, StepKeepsTold, PTL DEF Spec

\* However often the registry is swapped between the judgement of a registration
\* and its answer, the token it is told was the application's meanwhile.
THEOREM ToldTokensWereCurrent == Spec => []ToldTokenWasCurrent
<1>1. ToldInv => ToldTokenWasCurrent
  BY DEF ToldInv, ToldOne, Current, TokenFor, ToldTokenWasCurrent
<1>2. QED
  BY <1>1, InitTold, StepKeepsTold, PTL DEF Spec

-----------------------------------------------------------------------------
\* The pipeline implements IfaMatching: each of its steps is a step of the device
\* registrations, or leaves them alone.
THEOREM PipelineDrivesMatching == Spec => DrivesMatching
<1> USE DEF matchVars, Matching!vars
<1>1. Init => PipeInv /\ Matching!Init
  BY DEF Init, PipeInv, Shape, Judgement, Outcomes
<1>2. PipeInv /\ [Next]_vars => [Matching!Next]_(Matching!vars)
  <2> SUFFICES ASSUME PipeInv, [Next]_vars PROVE [Matching!Next]_(Matching!vars)
    OBVIOUS
  <2>1. ASSUME NEW r \in Req, AcceptRegister(r) PROVE [Matching!Next]_(Matching!vars)
    <3>1. DeviceOf(sent[r]) \in Devices
      BY <2>1 DEF AcceptRegister, Judged, HasContext, PipeInv, Judgement, Readable
    <3>2. Matching!Begin(r, DeviceOf(sent[r])) \/ UNCHANGED matchVars
      BY <2>1 DEF AcceptRegister
    <3>3. QED
      BY <3>1, <3>2 DEF Matching!Next
  <2>2. ASSUME NEW r \in Req, Disconnect(r) PROVE [Matching!Next]_(Matching!vars)
    BY <2>2 DEF Disconnect, Matching!Next
  <2>3. CASE MatchingStep
    BY <2>3 DEF MatchingStep, Matching!Next
  <2>4. CASE Crash
    BY <2>4 DEF Crash, Matching!Next
  <2>5. ASSUME NEW r \in Req, NEW m \in Messages, Receive(r, m) \/ Serve(r, m)
        PROVE  UNCHANGED matchVars
    BY <2>5 DEF Receive, Serve
  <2>6. ASSUME NEW r \in Req,
               \/ BodyFails(r) \/ Malformed(r) \/ RejectOrigin(r) \/ Reject(r)
               \/ PanicOnHeader(r) \/ PanicOnRegistry(r) \/ AcceptEvents(r)
               \/ Continue(r) \/ Report(r)
        PROVE  UNCHANGED matchVars
    BY <2>6 DEF BodyFails, Malformed, RejectOrigin, Reject, PanicOnHeader,
                PanicOnRegistry, AcceptEvents, Continue, Report, Unsent, Vanish,
                CompleteRegistration, RegistrationRefused, RegistrationPanicked,
                Finish, FinishCanceled, Succeed
  <2>7. CASE RegistryStep
    BY <2>7 DEF RegistryStep
  <2>8. CASE UNCHANGED vars
    BY <2>8 DEF vars
  <2>9. QED
    BY <2>1, <2>2, <2>3, <2>4, <2>5, <2>6, <2>7, <2>8 DEF Next, Handle
<1>3. QED
  BY <1>1, <1>2, StepKeepsPipeInv, PTL DEF Spec, DrivesMatching, Matching!Spec
=============================================================================
