----------------------------- MODULE PipelineProofs -----------------------------
(***************************************************************************)
(* Theorems about the pipeline and the device registrations it drives, put *)
(* together: what IfaMatchingProofs shows of registrations on their own    *)
(* holds of those that requests start, and the types of the pipeline rest  *)
(* on it.                                                                  *)
(***************************************************************************)
EXTENDS GatewayProofs, FiniteSetTheorems

Alone == INSTANCE IfaMatchingProofs

-----------------------------------------------------------------------------
(* The registrations of the pipeline are those the theorems speak of.      *)

\* The pipeline's constants are such as registrations on their own assume.
LEMMA AloneAssumption == Alone!IfaAssumption
BY MatchingAssumption
   DEF MatchingAssumption, Alone!IfaAssumption, Matching!IfaAssumption,
       Alone!Keys, Matching!Keys, Alone!Device, Matching!Device

\* Both instances of IfaMatching begin alike.
LEMMA AloneInit == Matching!Init => Alone!Init
BY DEF Matching!Init, Alone!Init, Matching!Keys, Alone!Keys

\* And both make the same steps: the modules behind them are one.
LEMMA AloneNext == [Matching!Next]_(Matching!vars) => [Alone!Next]_(Alone!vars)
BY DEF Matching!vars, Alone!vars, Matching!Next, Alone!Next, Matching!Keys, Alone!Keys,
  Matching!Active, Alone!Active, Matching!InClosure, Alone!InClosure,
  Matching!ParseIfa, Alone!ParseIfa, Matching!KeyOf, Alone!KeyOf, Matching!Key, Alone!Key,
  Matching!Goto, Alone!Goto, Matching!Busy, Alone!Busy,
  Matching!Querying, Alone!Querying, Matching!QueryMayFail, Alone!QueryMayFail,
  Matching!Cardinality, Alone!Cardinality,
  Matching!Settled, Alone!Settled, Matching!Begin, Alone!Begin,
  Matching!Acquire, Alone!Acquire, Matching!Refuse, Alone!Refuse,
  Matching!OpenPool, Alone!OpenPool, Matching!Panic, Alone!Panic,
  Matching!Generate, Alone!Generate, Matching!Anonymous, Alone!Anonymous,
  Matching!SendLookup, Alone!SendLookup, Matching!Found, Alone!Found,
  Matching!Missed, Alone!Missed, Matching!Save, Alone!Save, Matching!Write, Alone!Write,
  Matching!SaveFails, Alone!SaveFails, Matching!Settle, Alone!Settle,
  Matching!Abandon, Alone!Abandon, Matching!Crash, Alone!Crash,
  Matching!Prepare, Alone!Prepare, Matching!Query, Alone!Query,
  Matching!Closure, Alone!Closure

\* Every behaviour of the pipeline is one of the registrations.
LEMMA DrivesAlone == Spec => Alone!Spec
BY PipelineDrivesMatching, AloneInit, AloneNext, PTL
   DEF DrivesMatching, Matching!Spec, Alone!Spec

\* In the pipeline, too, whatever clients, the registry, the producer or a crash
\* do: requests with one identity are of one device that allows tracking.
THEOREM PipelineIdsAreNotShared == Spec => []Matching!DevicesNeverShareAnId
<1>1. Alone!Spec => []Alone!DevicesNeverShareAnId
  BY AloneAssumption, Alone!IdsAreNotShared
<1>2. Alone!DevicesNeverShareAnId => Matching!DevicesNeverShareAnId
  BY DEF Alone!DevicesNeverShareAnId, Matching!DevicesNeverShareAnId,
         Alone!SameDevice, Matching!SameDevice
<1>3. QED
  BY <1>1, <1>2, DrivesAlone, PTL

\* And the identity a row has in the table is replaced only after a lookup by one
\* of the pipeline's registrations came back empty.
THEOREM PipelineIdsChangeOnlyAfterAMiss == Spec => Matching!ReplacedOnlyAfterAMiss
<1> DEFINE Replaced == \A k \in Matching!Keys :
              known[k] # None /\ known'[k] # known[k] =>
                \E r \in Req : asked[r] # None /\ Matching!Key(r) = k /\ lookup[r] = "missed"
           AloneReplaced == \A k \in Alone!Keys :
              known[k] # None /\ known'[k] # known[k] =>
                \E r \in Req : asked[r] # None /\ Alone!Key(r) = k /\ lookup[r] = "missed"
<1>1. Alone!Spec => Alone!ReplacedOnlyAfterAMiss
  BY AloneAssumption, Alone!IdsChangeOnlyAfterAMiss
<1>2. [AloneReplaced]_(Alone!vars) => [Replaced]_(Matching!vars)
  BY DEF Alone!vars, Matching!vars, Alone!Keys, Matching!Keys, Alone!Key, Matching!Key,
         Alone!KeyOf, Matching!KeyOf, Alone!ParseIfa, Matching!ParseIfa
<1>3. QED
  BY <1>1, <1>2, DrivesAlone, PTL
     DEF Alone!ReplacedOnlyAfterAMiss, Matching!ReplacedOnlyAfterAMiss

-----------------------------------------------------------------------------
(* Types of the pipeline.                                                  *)

\* The types of the registrations, from IfaMatchingProofs.
LEMMA MatchingTyped == Spec => []Matching!TypeOK
<1>1. Alone!Spec => [](Alone!TypeOK /\ Alone!AskedInv)
  BY AloneAssumption, Alone!TypeCorrect
<1>2. Alone!TypeOK => Matching!TypeOK
  BY DEF Alone!TypeOK, Matching!TypeOK, Alone!Keys, Matching!Keys, Alone!Steps,
         Matching!Steps, Alone!Active, Matching!Active, Alone!InClosure,
         Matching!InClosure, Alone!Finished, Matching!Finished
<1>3. QED
  BY <1>1, <1>2, DrivesAlone, PTL

\* Identities are never withdrawn.
LEMMA IssuedGrows ==
  ASSUME [Matching!Next]_(Matching!vars)
  PROVE  issued \subseteq issued'
<1>1. ASSUME NEW r \in Req, Matching!Closure(r) PROVE issued \subseteq issued'
  BY <1>1 DEF Matching!Closure, Matching!Prepare, Matching!Query,
     Matching!OpenPool, Matching!Panic, Matching!Anonymous,
     Matching!Generate, Matching!SendLookup, Matching!Found, Matching!Missed,
     Matching!Save, Matching!SaveFails
<1>2. ASSUME NEW r \in Req,
             \/ \E d \in Devices : Matching!Begin(r, d)
             \/ Matching!Acquire(r) \/ Matching!Refuse(r) \/ Matching!Abandon(r)
      PROVE  issued \subseteq issued'
  BY <1>2 DEF Matching!Begin, Matching!Acquire, Matching!Refuse, Matching!Abandon
<1>3. ASSUME (\E w \in stray : Matching!Settle(w)) \/ Matching!Crash
             \/ UNCHANGED Matching!vars
      PROVE  issued \subseteq issued'
  BY <1>3 DEF Matching!Settle, Matching!Crash, Matching!vars
<1>4. QED
  BY <1>1, <1>2, <1>3 DEF Matching!Next

\* A request that has arrived has a message, whose device id, if it has one, is an
\* identity that has been issued.
SentInv ==
  /\ PriorIds \subseteq issued
  /\ \A r \in Req : pc[r] # "idle" =>
       sent[r] \in Message /\ sent[r].header \in Headers \cup issued

TypeInv == TypeOK /\ SentInv

Statuses == {None, 200, 400, 403, 404, 412, 500, 503}

Reply == [status  : Statuses,
          cors    : BOOLEAN,
          device  : issued \cup {None},
          token   : Token \cup {None},
          results : Nat]

Record == [app : App, key : issued \cup {None}, events : Nat,
           recipient : issued \cup {"claimed", None}]

\* The variables of the pipeline that a step leaves alone keep their types when
\* identities are issued.
LEMMA IdleTyped ==
  ASSUME TypeInv, issued \subseteq issued', Matching!TypeOK',
         UNCHANGED <<device, token, record, reply>>,
         requests' \in [Labels -> Nat], events' \in Nat, answered' \in SUBSET Req,
         registry' \in {"unset", "ready", "poisoned"}, apps' \in AppMap,
         pc' \in [Req -> {"idle", "replied", "closed"} \cup Waiting],
         outcome' \in [Req -> Outcomes],
         sent' = sent, \A r \in Req : pc'[r] # "idle" => pc[r] # "idle",
         seen' \in [Req -> SUBSET AppMap]
  PROVE  TypeInv'
<1>1. device' \in [Req -> issued' \cup {None}]
  BY DEF TypeInv, TypeOK
<1>2. Record \subseteq Record'
  BY DEF Record
<1>3. Reply \subseteq Reply'
  BY DEF Reply
<1>4. record \in [Req -> {None} \cup Record] /\ reply \in [Req -> Reply]
  BY DEF TypeInv, TypeOK, Record, Reply, Statuses
<1>5. record' \in [Req -> {None} \cup Record'] /\ reply' \in [Req -> Reply']
  BY <1>2, <1>3, <1>4
<1>6. TypeOK'
  BY <1>1, <1>5 DEF TypeInv, TypeOK, Record, Reply, Statuses, Outcomes
<1>7. SentInv'
  BY DEF TypeInv, SentInv
<1>8. QED
  BY <1>6, <1>7 DEF TypeInv

\* A request is answered.
LEMMA AnswerTyped ==
  ASSUME TypeInv, NEW r \in Req, NEW answer \in Reply, Answer(r, answer),
         requests' \in [Labels -> Nat], events' \in Nat,
         UNCHANGED <<snapVars, matchVars, device, token, busVars, seen>>,
         \/ UNCHANGED sent /\ pc[r] # "idle"
         \/ \E m \in Messages : sent' = [sent EXCEPT ![r] = m]
  PROVE  TypeInv'
<1> USE DEF snapVars, matchVars, busVars
<1>1. \A m \in Messages : m \in Message /\ m.header \in Headers
  BY GatewayAssumption DEF GatewayAssumption
<1>2. pc' \in [Req -> {"idle", "replied", "closed"} \cup Waiting]
      /\ answered' \in SUBSET Req
      /\ reply' \in [Req -> Reply]
  BY DEF Answer, Goto, TypeInv, TypeOK, Reply, Statuses
<1>3. Matching!TypeOK'
  BY DEF TypeInv, TypeOK, Matching!TypeOK
<1>4. sent' \in [Req -> Message \cup {None}]
  BY <1>1 DEF TypeInv, TypeOK
<1>5. TypeOK'
  BY <1>2, <1>3, <1>4 DEF TypeInv, TypeOK, Reply, Statuses
<1>6. SentInv'
  BY <1>1 DEF TypeInv, TypeOK, SentInv, Answer, Goto
<1>7. QED
  BY <1>5, <1>6 DEF TypeInv

\* The statuses of errors, and the errors of validate.
LEMMA StatusType ==
  /\ \A error \in Errors : StatusOf(error) \in {400, 403, 412, 500, 503}
  /\ \A s, m : Validate(s, m) \in Errors \cup {"Ok"}
BY DEF Errors, StatusOf, Validate

\* Metrics: a counter that is increased stays a number.
LEMMA CountTyped ==
  ASSUME requests \in [Labels -> Nat],
         NEW status, NEW endpoint, [status |-> status, endpoint |-> endpoint] \in Labels,
         Count(status, endpoint)
  PROVE  requests' \in [Labels -> Nat]
<1> DEFINE l == [status |-> status, endpoint |-> endpoint]
<1>1. l \in Labels /\ requests' = [requests EXCEPT ![l] = requests[l] + 1]
  BY DEF Count
<1> HIDE DEF l
<1>2. QED
  BY <1>1

\* An answer that tells of no device.
LEMMA NoReplyTyped == NoReply \in Reply
BY DEF NoReply, Reply, Statuses

\* An answer with a status, with CORS headers or without.
LEMMA PlainReply ==
  \A status \in Statuses, cors \in BOOLEAN :
    [NoReply EXCEPT !.status = status, !.cors = cors] \in Reply
BY NoReplyTyped DEF Reply

\* An error is answered.
LEMMA FailTyped ==
  ASSUME TypeInv, NEW r \in Req, NEW error \in Errors, NEW hasContext \in BOOLEAN,
         Fail(r, error, hasContext), pc[r] # "idle", UNCHANGED Unsent
  PROVE  TypeInv'
<1> DEFINE answer == [NoReply EXCEPT !.status = StatusOf(error),
                                     !.cors = hasContext /\ CorsHeaders(sent[r])]
<1>1. (hasContext /\ CorsHeaders(sent[r])) \in BOOLEAN
  OBVIOUS
<1>2. answer \in Reply
  <2>1. StatusOf(error) \in Statuses
    BY StatusType DEF Statuses
  <2>2. QED
    BY <1>1, <2>1, PlainReply, Zenon
<1>3. Answer(r, answer) /\ events' = events /\ Count(StatusOf(error), "sdk_events")
  BY DEF Fail
<1>4. [status |-> StatusOf(error), endpoint |-> "sdk_events"] \in Labels
  BY StatusType DEF Labels
<1>5. requests' \in [Labels -> Nat] /\ events' \in Nat
  BY <1>3, <1>4, CountTyped DEF TypeInv, TypeOK
<1> HIDE DEF answer
<1>6. QED
  BY <1>2, <1>3, <1>5, AnswerTyped DEF Unsent, ctxVars

\* A request that arrives, with an identity that has been handed out at most.
LEMMA ReceiveTyped ==
  ASSUME TypeInv, NEW r \in Req, NEW m \in Messages, Receive(r, m)
  PROVE  TypeInv'
<1> USE DEF snapVars, matchVars, busVars, doneVars
<1>1. m \in Message /\ m.header \in Headers
  BY GatewayAssumption DEF GatewayAssumption
<1>2. HandedOut \subseteq issued /\ issued \subseteq Id
  <2>1. PriorIds \subseteq issued
    BY DEF TypeInv, SentInv
  <2>2. QED
    BY <2>1 DEF HandedOut, TypeInv, TypeOK, Matching!TypeOK
<1>3. PICK h \in Headers \cup issued : sent' = [sent EXCEPT ![r] = [m EXCEPT !.header = h]]
  BY <1>1, <1>2 DEF Receive
<1>4. [m EXCEPT !.header = h] \in Message /\ [m EXCEPT !.header = h].header = h
  BY <1>1, <1>2 DEF Message
<1>5. PICK message \in Message : sent' = [sent EXCEPT ![r] = message] /\ message.header = h
  BY <1>3, <1>4
<1>6. pc' = [pc EXCEPT ![r] = "body"] /\ seen' = [seen EXCEPT ![r] = {apps}]
  BY DEF Receive, Goto
<1>7. TypeOK'
  <2>1. UNCHANGED <<snapVars, matchVars, device, token, busVars, doneVars>>
    BY DEF Receive
  <2>2. pc' \in [Req -> {"idle", "replied", "closed"} \cup Waiting]
    BY <1>6 DEF TypeInv, TypeOK, Waiting
  <2>3. sent' \in [Req -> Message \cup {None}] /\ seen' \in [Req -> SUBSET AppMap]
    BY <1>5, <1>6 DEF TypeInv, TypeOK
  <2>4. Matching!TypeOK'
    BY <2>1 DEF TypeInv, TypeOK, Matching!TypeOK
  <2>5. /\ reply \in [Req -> Reply] /\ record \in [Req -> {None} \cup Record]
        /\ outcome \in [Req -> Outcomes]
    BY Zenon DEF TypeInv, TypeOK, Reply, Statuses, Record, Outcomes
  <2>6. reply' \in [Req -> Reply'] /\ record' \in [Req -> {None} \cup Record']
    <3>1. Reply' = Reply /\ Record' = Record
      BY <2>1 DEF Reply, Record
    <3>2. QED
      BY <2>1, <2>5, <3>1
  <2>7. outcome' \in [Req -> Outcomes]
    BY <2>1, <2>5
  <2>8. QED
    BY <2>1, <2>2, <2>3, <2>4, <2>6, <2>7
       DEF TypeInv, TypeOK, Reply, Statuses, Record, Outcomes
<1>8. sent'[r] = message /\ \A o \in Req \ {r} : sent'[o] = sent[o] /\ pc'[o] = pc[o]
  BY <1>5, <1>6 DEF TypeInv, TypeOK
<1>9. issued' = issued
  BY DEF Receive
<1>10. SentInv'
  BY <1>5, <1>8, <1>9 DEF TypeInv, SentInv
<1>11. QED
  BY <1>7, <1>10 DEF TypeInv

\* The other routes.
LEMMA ServeTyped ==
  ASSUME TypeInv, NEW r \in Req, NEW m \in Messages, Serve(r, m)
  PROVE  TypeInv'
<1>1. requests' \in [Labels -> Nat]
  <2>1. [status |-> 200, endpoint |-> "options"] \in Labels
        /\ [status |-> 404, endpoint |-> "not_found"] \in Labels
    BY DEF Labels
  <2>2. \/ Count(200, "options")
        \/ Count(404, "not_found")
        \/ UNCHANGED requests
    BY DEF Serve
  <2>3. QED
    BY <2>1, <2>2, CountTyped DEF TypeInv, TypeOK
<1>2. PICK answer \in Reply : Answer(r, answer)
  <2>1. [NoReply EXCEPT !.status = 200, !.cors = CorsEnabled] \in Reply
    <3>1. CorsEnabled \in BOOLEAN /\ 200 \in Statuses
      BY RulesAssumption DEF RulesAssumption, Statuses
    <3>2. QED
      BY <3>1, PlainReply, Zenon
  <2>2. [NoReply EXCEPT !.status = 200] \in Reply /\ [NoReply EXCEPT !.status = 404] \in Reply
    BY NoReplyTyped DEF Reply, Statuses
  <2>3. QED
    BY <2>1, <2>2 DEF Serve
<1>3. events' \in Nat
  BY DEF Serve, TypeInv, TypeOK
<1>4. QED
  BY <1>1, <1>2, <1>3, AnswerTyped DEF Serve

\* An identity and a token enter the context, and perhaps a record is made.
LEMMA ContextTyped ==
  ASSUME TypeInv, NEW r \in Req, NEW d \in issued \cup {None}, NEW t \in Token \cup {None},
         issued \subseteq issued', Matching!TypeOK', pc[r] # "idle",
         device' = [device EXCEPT ![r] = d], token' = [token EXCEPT ![r] = t],
         \/ pc' = [pc EXCEPT ![r] = "registering"] /\ UNCHANGED busVars
         \/ /\ pc' = [pc EXCEPT ![r] = "sending"]
            /\ outcome' = [outcome EXCEPT ![r] = "queued"]
            /\ record' = [record EXCEPT ![r] = RecordOf(sent[r], d)],
         UNCHANGED <<snapVars, sent, doneVars, seen>>
  PROVE  TypeInv'
<1> USE DEF snapVars, busVars, doneVars
<1>1. RecordOf(sent[r], d) \in Record
  BY DEF RecordOf, Record, TypeInv, SentInv, Message
<1>2. Record \subseteq Record' /\ Reply \subseteq Reply'
  BY DEF Record, Reply
<1>3. record \in [Req -> {None} \cup Record] /\ reply \in [Req -> Reply]
  BY DEF TypeInv, TypeOK, Record, Reply, Statuses
<1>4. record' \in [Req -> {None} \cup Record'] /\ reply' \in [Req -> Reply']
  BY <1>1, <1>2, <1>3
<1>5. device' \in [Req -> issued' \cup {None}] /\ token' \in [Req -> Token \cup {None}]
  BY DEF TypeInv, TypeOK
<1>6. pc' \in [Req -> {"idle", "replied", "closed"} \cup Waiting]
      /\ outcome' \in [Req -> Outcomes]
  <2>1. pc \in [Req -> {"idle", "replied", "closed"} \cup Waiting]
        /\ outcome \in [Req -> Outcomes]
    BY DEF TypeInv, TypeOK, Outcomes
  <2>2. "registering" \in Waiting /\ "sending" \in Waiting /\ "queued" \in Outcomes
    BY DEF Waiting, Outcomes
  <2>3. QED
    BY <2>1, <2>2
<1>7. TypeOK'
  BY <1>4, <1>5, <1>6 DEF TypeInv, TypeOK, Record, Reply, Statuses, Outcomes
<1>8. SentInv'
  BY DEF TypeInv, TypeOK, SentInv
<1>9. QED
  BY <1>7, <1>8 DEF TypeInv

\* A batch that is answered with success.
LEMMA FinishTyped ==
  ASSUME TypeInv, NEW r \in Req, Finish(r)
  PROVE  TypeInv'
<1>1. pc[r] # "idle" /\ Succeed(r)
  BY DEF Finish
<1>2. PICK n \in Nat : n = Results(sent[r])
  BY <1>1 DEF Results, TypeInv, SentInv, Message
<1>3. requests' \in [Labels -> Nat] /\ events' \in Nat
  <2>1. [status |-> 200, endpoint |-> "sdk_events"] \in Labels
    BY DEF Labels
  <2>2. Count(200, "sdk_events") /\ events' = events + n
    BY <1>1, <1>2 DEF Succeed
  <2>3. QED
    BY <2>1, <2>2, CountTyped DEF TypeInv, TypeOK
<1>4. PICK d \in issued \cup {None}, t \in Token \cup {None} :
        /\ d = IF sent[r].register THEN device[r] ELSE None
        /\ t = IF sent[r].register THEN token[r] ELSE None
  <2>1. device[r] \in issued \cup {None} /\ token[r] \in Token \cup {None}
    BY DEF TypeInv, TypeOK
  <2>2. QED
    BY <2>1
<1>5. CorsHeaders(sent[r]) \in BOOLEAN
  BY Zenon DEF CorsHeaders
<1>6. [status |-> 200, cors |-> CorsHeaders(sent[r]), device |-> d, token |-> t,
       results |-> n] \in Reply
  <2>1. 200 \in Statuses
    BY DEF Statuses
  <2>2. QED
    BY <1>5, <2>1, Zenon DEF Reply
<1>7. Answer(r, [status |-> 200, cors |-> CorsHeaders(sent[r]), device |-> d,
                 token |-> t, results |-> n])
  BY <1>1, <1>2, <1>4, Zenon DEF Succeed
<1>8. QED
  BY <1>1, <1>3, <1>6, <1>7, AnswerTyped DEF Succeed, Unsent, ctxVars

\* A request whose connection ends; a record stays with the producer.
LEMMA CloseTyped ==
  ASSUME TypeInv, NEW r \in Req, pc' = [pc EXCEPT ![r] = "closed"], pc[r] # "idle",
         issued \subseteq issued', Matching!TypeOK',
         UNCHANGED <<snapVars, ctxVars, busVars, doneVars, seen>>
  PROVE  TypeInv'
<1> USE DEF snapVars, ctxVars, busVars, doneVars
<1>1. pc' \in [Req -> {"idle", "replied", "closed"} \cup Waiting]
      /\ \A o \in Req : pc'[o] # "idle" => pc[o] # "idle"
  BY DEF TypeInv, TypeOK
<1>2. outcome \in [Req -> Outcomes]
  BY DEF TypeInv, TypeOK, Outcomes
<1>3. QED
  BY <1>1, <1>2, IdleTyped DEF TypeInv, TypeOK

\* The types of the pipeline, action by action, given those of the registrations.
LEMMA StepTyped ==
  ASSUME TypeInv, [Next]_vars, issued \subseteq issued', Matching!TypeOK'
  PROVE  TypeInv'
<1> USE DEF Unsent, snapVars, ctxVars, busVars
<1>1. ASSUME NEW r \in Req, NEW m \in Messages, Receive(r, m) \/ Serve(r, m)
      PROVE  TypeInv'
  BY <1>1, ReceiveTyped, ServeTyped
<1>2. ASSUME NEW r \in Req,
             \/ BodyFails(r) \/ Malformed(r) \/ RejectOrigin(r) \/ Reject(r)
             \/ RegistrationRefused(r) \/ FinishCanceled(r)
      PROVE  TypeInv'
  <2>1. pc[r] # "idle" /\ UNCHANGED Unsent
    BY <1>2 DEF BodyFails, Malformed, RejectOrigin, Reject, RegistrationRefused,
                FinishCanceled, Judged, HasContext
  <2>2. PICK error \in Errors, hasContext \in BOOLEAN : Fail(r, error, hasContext)
    <3>1. CASE Reject(r)
      <4>1. PICK error \in Errors : error = Validate(apps, sent[r])
        BY <3>1, StatusType DEF Reject
      <4>2. Fail(r, error, TRUE)
        BY <3>1, <4>1 DEF Reject
      <4>3. QED
        BY <4>2, Zenon
    <3>2. CASE ~Reject(r)
      BY <1>2, <3>2 DEF BodyFails, Malformed, RejectOrigin, RegistrationRefused,
                        FinishCanceled, Errors
    <3>3. QED
      BY <3>1, <3>2
  <2>3. QED
    BY <2>1, <2>2, FailTyped
<1>3. ASSUME NEW r \in Req,
             \/ PanicOnHeader(r) \/ PanicOnRegistry(r) \/ RegistrationPanicked(r)
             \/ Disconnect(r)
      PROVE  TypeInv'
  BY <1>3, CloseTyped DEF PanicOnHeader, PanicOnRegistry, RegistrationPanicked,
     Disconnect, Vanish, Goto, HasContext
<1>4. ASSUME NEW r \in Req, AcceptEvents(r) \/ AcceptRegister(r) PROVE TypeInv'
  <2>1. PICK d \in issued \cup {None}, t \in Token \cup {None} :
          d = Open(sent[r].header) /\ t = sent[r].token
    <3>1. sent[r] \in Message /\ sent[r].header \in Headers \cup issued
      BY <1>4 DEF AcceptEvents, AcceptRegister, Judged, HasContext, TypeInv, SentInv
    <3>2. Open(sent[r].header) \in issued \cup {None}
      BY <3>1, GatewayAssumption DEF Open, GatewayAssumption
    <3>3. sent[r].token \in Token \cup {None}
      BY <3>1 DEF Message
    <3>4. QED
      BY <3>2, <3>3
  <2>2. /\ pc[r] # "idle" /\ UNCHANGED <<snapVars, sent, doneVars, seen>>
        /\ device' = [device EXCEPT ![r] = d] /\ token' = [token EXCEPT ![r] = t]
    BY <1>4, <2>1 DEF AcceptEvents, AcceptRegister, EnterContext, Judged, HasContext
  <2>3. \/ pc' = [pc EXCEPT ![r] = "registering"] /\ UNCHANGED busVars
        \/ /\ pc' = [pc EXCEPT ![r] = "sending"]
           /\ outcome' = [outcome EXCEPT ![r] = "queued"]
           /\ record' = [record EXCEPT ![r] = RecordOf(sent[r], d)]
    BY <1>4, <2>1 DEF AcceptEvents, AcceptRegister, Publish, Goto
  <2>4. QED
    BY <2>2, <2>3, ContextTyped
<1>5. ASSUME NEW r \in Req, CompleteRegistration(r) PROVE TypeInv'
  <2>1. pc[r] # "idle" /\ sent[r] \in Message
    BY <1>5 DEF CompleteRegistration, Registered, TypeInv, SentInv
  <2>2. PICK d \in issued \cup {None}, t \in Token \cup {None} :
          /\ d = NewDevice(r)
          /\ t = IF token[r] = None THEN TokenFor(apps, sent[r].app) ELSE token[r]
    <3>1. NewDevice(r) \in issued \cup {None} /\ token[r] \in Token \cup {None}
      BY DEF NewDevice, TypeInv, TypeOK, Matching!TypeOK
    <3>2. TokenFor(apps, sent[r].app) \in Token \cup {None}
      BY <2>1 DEF TokenFor, TypeInv, TypeOK, AppMap, Application, Message
    <3>3. QED
      BY <3>1, <3>2
  <2>3. /\ UNCHANGED <<snapVars, sent, doneVars, seen>>
        /\ device' = [device EXCEPT ![r] = d] /\ token' = [token EXCEPT ![r] = t]
    BY <1>5, <2>2 DEF CompleteRegistration, EnterIdentity
  <2>4. /\ pc' = [pc EXCEPT ![r] = "sending"]
        /\ outcome' = [outcome EXCEPT ![r] = "queued"]
        /\ record' = [record EXCEPT ![r] = RecordOf(sent[r], d)]
    BY <1>5, <2>2 DEF CompleteRegistration, Publish, Goto
  <2>5. QED
    BY <2>1, <2>3, <2>4, ContextTyped
<1>6. ASSUME NEW r \in Req, Finish(r) PROVE TypeInv'
  BY <1>6, FinishTyped
<1>7. outcome \in [Req -> Outcomes]
  BY DEF TypeInv, TypeOK, Outcomes
<1>8. ASSUME NEW r \in Req, Report(r) PROVE TypeInv'
  <2>1. outcome' \in [Req -> Outcomes]
    BY <1>7, <1>8 DEF Report, Outcomes
  <2>2. QED
    BY <1>8, <2>1, IdleTyped DEF Report, TypeInv, TypeOK, doneVars
<1>9. CASE RegistryStep
  <2>1. registry' \in {"unset", "ready", "poisoned"} /\ apps' \in AppMap
    BY <1>9, GatewayAssumption DEF RegistryStep, Snap!Load, Snap!Swap, Snap!Poison,
       GatewayAssumption, TypeInv, TypeOK
  <2>2. seen' \in [Req -> SUBSET AppMap]
    BY <1>9, <2>1 DEF RegistryStep, TypeInv, TypeOK
  <2>3. QED
    BY <1>7, <1>9, <2>1, <2>2, IdleTyped DEF RegistryStep, TypeInv, TypeOK, doneVars
<1>10. CASE MatchingStep \/ UNCHANGED vars
  <2>1. UNCHANGED <<snapVars, pc, ctxVars, busVars, doneVars, seen>>
    BY <1>10 DEF MatchingStep, vars
  <2>2. QED
    BY <1>7, <2>1, IdleTyped DEF TypeInv, TypeOK, doneVars
<1>11. CASE Crash
  <2>1. registry' \in {"unset", "ready", "poisoned"} /\ apps' \in AppMap
    BY <1>11 DEF Crash, Snap!Restart, NoApps, AppMap
  <2>2. /\ pc' \in [Req -> {"idle", "replied", "closed"} \cup Waiting]
        /\ \A r \in Req : pc'[r] # "idle" => pc[r] # "idle"
    BY <1>11 DEF Crash, TypeInv, TypeOK, Waiting
  <2>3. outcome' \in [Req -> Outcomes]
    BY <1>7, <1>11 DEF Crash, Outcomes
  <2>4. requests' \in [Labels -> Nat] /\ events' \in Nat /\ answered' \in SUBSET Req
    BY <1>11 DEF Crash
  <2>5. QED
    BY <1>11, <2>1, <2>2, <2>3, <2>4, IdleTyped DEF Crash, TypeInv, TypeOK
<1>12. QED
  BY <1>1, <1>2, <1>3, <1>4, <1>5, <1>6, <1>8, <1>9, <1>10, <1>11
     DEF Next, Handle, Continue

\* A process that has begun to listen, before any request.
LEMMA InitTyped == Init /\ Matching!TypeOK => TypeInv
<1> SUFFICES ASSUME Init, Matching!TypeOK PROVE TypeInv
  OBVIOUS
<1>1. reply \in [Req -> Reply]
  BY NoReplyTyped DEF Init
<1>2. apps \in AppMap /\ registry \in {"unset", "ready", "poisoned"}
  BY DEF Init, Snap!Init, NoApps, AppMap
<1>3. issued = PriorIds
  BY DEF Init, Matching!Init
<1>4. TypeOK
  BY <1>1, <1>2 DEF Init, TypeOK, Reply, Statuses
<1>5. SentInv
  BY <1>3 DEF Init, SentInv
<1>6. QED
  BY <1>4, <1>5 DEF TypeInv

\* The invariant holds throughout.
LEMMA TypeInvariant == Spec => []TypeInv
<1>1. Spec => [][Matching!Next]_(Matching!vars)
  BY PipelineDrivesMatching, PTL DEF DrivesMatching, Matching!Spec
<1>2. TypeInv /\ [Next]_vars /\ Matching!TypeOK' /\ [Matching!Next]_(Matching!vars)
        => TypeInv'
  BY StepTyped, IssuedGrows
<1>3. QED
  BY <1>1, <1>2, InitTyped, MatchingTyped, PTL DEF Spec

\* Every variable of the pipeline keeps its type: above all, an identity that is in
\* a context, in a record, in an answer or in a message has been issued.
THEOREM TypeCorrect == Spec => []TypeOK
<1>1. TypeInv => TypeOK
  BY DEF TypeInv
<1>2. QED
  BY <1>1, TypeInvariant, PTL

-----------------------------------------------------------------------------
(* Counting.  Every answer adds a member to the set that its counter       *)
(* stands for.                                                             *)

\* Requests that wait are event requests, and those that were answered are done.
CountedInv ==
  /\ IsFiniteSet(answered)
  /\ \A r \in answered : pc[r] = "replied"
  /\ \A r \in Req : pc[r] \in Waiting => sent[r].route = "sdk"
  /\ AnswersAreCounted

\* Of a set to which a new element is added, the part with a property grows by it.
LEMMA PartGrows ==
  ASSUME NEW S, IsFiniteSet(S), NEW x, x \notin S, NEW A \in SUBSET S, NEW B,
         B = A \/ B = A \cup {x}
  PROVE  Cardinality(B) = Cardinality(A) + IF B = A THEN 0 ELSE 1
<1>1. IsFiniteSet(A) /\ Cardinality(A) \in Nat
  BY FS_Subset, FS_CardinalityType
<1>2. Cardinality(A \cup {x}) = Cardinality(A) + 1
  BY <1>1, FS_AddElement
<1>3. QED
  BY <1>1, <1>2

\* Where a request may be.
Positions == {"idle", "replied", "closed"} \cup Waiting

\* An answer that is given is counted under its label.
LEMMA AnswerCounted ==
  ASSUME CountedInv, requests \in [Labels -> Nat], answered \subseteq Req,
         reply \in [Req -> Reply], pc \in [Req -> Positions],
         NEW r \in Req, NEW answer \in Reply, pc[r] # "replied", Answer(r, answer),
         \A o \in Req \ {r} : sent'[o] = sent[o],
         \A l \in Labels :
           requests'[l] = requests[l] + IF CountsUnder(r, l)' THEN 1 ELSE 0
  PROVE  CountedInv'
<1> USE DEF Answer, Goto
<1>1. /\ answered' = answered \cup {r} /\ r \notin answered
      /\ pc'[r] = "replied" /\ reply'[r] = answer
      /\ \A o \in Req \ {r} : pc'[o] = pc[o] /\ reply'[o] = reply[o]
  BY DEF CountedInv
<1>2. IsFiniteSet(answered')
  BY <1>1, FS_AddElement DEF CountedInv
<1>3. ASSUME NEW l \in Labels
      PROVE  requests'[l] = Cardinality({o \in answered' : CountsUnder(o, l)'})
  <2> DEFINE Old == {o \in answered : CountsUnder(o, l)}
             New == {o \in answered' : CountsUnder(o, l)'}
  <2>1. \A o \in answered : CountsUnder(o, l)' <=> CountsUnder(o, l)
    BY <1>1 DEF CountsUnder
  <2>2. New = IF CountsUnder(r, l)' THEN Old \cup {r} ELSE Old
    BY <1>1, <2>1, Zenon
  <2>3. Old \in SUBSET answered /\ r \notin Old
    BY <1>1
  <2>4. requests[l] = Cardinality(Old)
    BY DEF CountedInv, AnswersAreCounted
  <2> HIDE DEF Old, New
  <2>5. New = Old <=> ~CountsUnder(r, l)'
    BY <2>2, <2>3
  <2>6. Cardinality(New) = Cardinality(Old) + IF New = Old THEN 0 ELSE 1
    BY <1>1, <2>2, <2>3, PartGrows DEF CountedInv
  <2>7. QED
    BY <2>4, <2>5, <2>6 DEF New
<1>4. \A o \in Req : pc'[o] \in Waiting => sent'[o].route = "sdk"
  BY <1>1 DEF CountedInv, Waiting
<1>5. \A o \in answered' : pc'[o] = "replied"
  BY <1>1 DEF CountedInv
<1>6. QED
  BY <1>2, <1>3, <1>4, <1>5 DEF CountedInv, AnswersAreCounted

\* Count increases the counter of its label alone.
LEMMA CountedUnder ==
  ASSUME requests \in [Labels -> Nat], NEW status, NEW endpoint, Count(status, endpoint),
         NEW l \in Labels
  PROVE  requests'[l] =
           requests[l] + IF l.status = status /\ l.endpoint = endpoint THEN 1 ELSE 0
<1> DEFINE label == [status |-> status, endpoint |-> endpoint]
<1>1. label = l <=> l.status = status /\ l.endpoint = endpoint
  BY DEF Labels
<1>2. requests' = [requests EXCEPT ![label] = @ + 1]
  BY DEF Count
<1> HIDE DEF label
<1>3. requests'[l] = requests[l] + IF label = l THEN 1 ELSE 0
  BY <1>2
<1>4. QED
  BY <1>1, <1>3

\* Types, as the lemma on answers needs them.
LEMMA CountingTypes ==
  ASSUME TypeInv
  PROVE  /\ requests \in [Labels -> Nat] /\ answered \subseteq Req
         /\ reply \in [Req -> Reply] /\ pc \in [Req -> Positions]
<1>1. reply \in [Req -> Reply]
  BY Zenon DEF TypeInv, TypeOK, Reply, Statuses
<1>2. pc \in [Req -> Positions]
  BY Zenon DEF TypeInv, TypeOK, Positions
<1>3. QED
  BY <1>1, <1>2 DEF TypeInv, TypeOK

\* Errors are counted with the event requests (error::into_response).
LEMMA FailCounted ==
  ASSUME TypeInv, CountedInv, NEW r \in Req, NEW error \in Errors,
         NEW hasContext \in BOOLEAN, Fail(r, error, hasContext), pc[r] \in Waiting,
         UNCHANGED sent
  PROVE  CountedInv'
<1>1. PICK cors \in BOOLEAN : cors = (hasContext /\ CorsHeaders(sent[r]))
  OBVIOUS
<1>2. StatusOf(error) \in Statuses
  BY StatusType DEF Statuses
<1>3. PICK answer \in Reply :
        /\ answer = [NoReply EXCEPT !.status = StatusOf(error), !.cors = cors]
        /\ answer.status = StatusOf(error)
  <2>1. [NoReply EXCEPT !.status = StatusOf(error), !.cors = cors] \in Reply
    BY <1>2, PlainReply, Zenon
  <2>2. [NoReply EXCEPT !.status = StatusOf(error), !.cors = cors].status = StatusOf(error)
    BY DEF NoReply
  <2>3. QED
    BY <2>1, <2>2
<1>4. Answer(r, answer) /\ Count(StatusOf(error), "sdk_events")
  BY <1>1, <1>3 DEF Fail
<1>5. sent[r].route = "sdk"
  BY DEF CountedInv
<1>6. reply'[r].status = StatusOf(error)
  BY <1>3, <1>4, CountingTypes DEF Answer
<1>7. ASSUME NEW l \in Labels
      PROVE  requests'[l] = requests[l] + IF CountsUnder(r, l)' THEN 1 ELSE 0
  <2>1. CountsUnder(r, l)' <=> l.status = StatusOf(error) /\ l.endpoint = "sdk_events"
    BY <1>5, <1>6 DEF CountsUnder
  <2>2. QED
    BY <1>4, <2>1, CountedUnder, CountingTypes
<1>8. pc[r] # "replied"
  BY DEF Waiting
<1>9. QED
  BY <1>4, <1>7, <1>8, AnswerCounted, CountingTypes

\* A batch that is answered with success.
LEMMA FinishCounted ==
  ASSUME TypeInv, CountedInv, NEW r \in Req, Finish(r)
  PROVE  CountedInv'
<1>1. pc[r] \in Waiting /\ Succeed(r) /\ UNCHANGED sent
  BY DEF Finish, Succeed, Unsent, ctxVars, Waiting
<1>2. PICK answer \in Reply :
        Answer(r, answer) /\ answer.status = 200
  <2>1. Results(sent[r]) \in Nat
    BY <1>1 DEF Results, TypeInv, SentInv, Message, Waiting
  <2>2. PICK n \in Nat, c \in BOOLEAN : n = Results(sent[r]) /\ c = CorsHeaders(sent[r])
    BY <2>1, Zenon DEF CorsHeaders
  <2>3. PICK d \in issued \cup {None}, t \in Token \cup {None} :
          /\ d = IF sent[r].register THEN device[r] ELSE None
          /\ t = IF sent[r].register THEN token[r] ELSE None
    <3>1. device[r] \in issued \cup {None} /\ token[r] \in Token \cup {None}
      BY DEF TypeInv, TypeOK
    <3>2. QED
      BY <3>1
  <2>4. 200 \in Statuses
    BY DEF Statuses
  <2>5. [status |-> 200, cors |-> c, device |-> d, token |-> t, results |-> n] \in Reply
    BY <2>4, Zenon DEF Reply
  <2>6. Answer(r, [status |-> 200, cors |-> c, device |-> d, token |-> t, results |-> n])
    BY <1>1, <2>2, <2>3, Zenon DEF Succeed
  <2>7. QED
    BY <2>2, <2>5, <2>6
<1>3. Count(200, "sdk_events")
  BY <1>1 DEF Succeed
<1>4. sent[r].route = "sdk"
  BY <1>1 DEF CountedInv
<1>5. reply'[r].status = 200
  BY <1>2, CountingTypes DEF Answer
<1>6. ASSUME NEW l \in Labels
      PROVE  requests'[l] = requests[l] + IF CountsUnder(r, l)' THEN 1 ELSE 0
  <2>1. CountsUnder(r, l)' <=> l.status = 200 /\ l.endpoint = "sdk_events"
    BY <1>1, <1>4, <1>5 DEF CountsUnder
  <2>2. QED
    BY <1>3, <2>1, CountedUnder, CountingTypes
<1>7. pc[r] # "replied"
  BY <1>1 DEF Waiting
<1>8. QED
  BY <1>1, <1>2, <1>3, <1>6, <1>7, AnswerCounted, CountingTypes

\* What such answers say.
LEMMA PlainFields ==
  \A s \in Statuses :
    /\ [NoReply EXCEPT !.status = s] \in Reply
    /\ [NoReply EXCEPT !.status = s].status = s
<1>1. \A s \in Statuses : [NoReply EXCEPT !.status = s] \in Reply
  BY NoReplyTyped DEF Reply
<1>2. \A s : [NoReply EXCEPT !.status = s].status = s
  BY DEF NoReply
<1>3. QED
  BY <1>1, <1>2, Zenon

\* The other routes: /metrics does not count itself.
LEMMA ServeCounted ==
  ASSUME TypeInv, CountedInv, NEW r \in Req, NEW m \in Messages, Serve(r, m)
  PROVE  CountedInv'
<1>1. /\ pc[r] = "idle" /\ m \in Message /\ m.route # "sdk"
      /\ sent' = [sent EXCEPT ![r] = m]
  BY GatewayAssumption DEF Serve, GatewayAssumption
<1>2. sent'[r] = m /\ \A o \in Req \ {r} : sent'[o] = sent[o]
  BY <1>1 DEF TypeInv, TypeOK
<1>3. PICK answer \in Reply :
        /\ Answer(r, answer)
        /\ m.route = "options" => answer.status = 200 /\ Count(200, "options")
        /\ m.route = "metrics" => UNCHANGED requests
        /\ m.route \notin {"options", "metrics"} =>
             answer.status = 404 /\ Count(404, "not_found")
  <2>1. PICK cors \in BOOLEAN : cors = CorsEnabled
    BY RulesAssumption DEF RulesAssumption
  <2>2. 200 \in Statuses /\ 404 \in Statuses
    BY DEF Statuses
  <2>3. /\ [NoReply EXCEPT !.status = 200, !.cors = cors] \in Reply
        /\ [NoReply EXCEPT !.status = 200, !.cors = cors].status = 200
    <3>1. [NoReply EXCEPT !.status = 200, !.cors = cors] \in Reply
      BY <2>2, PlainReply, Zenon
    <3>2. [NoReply EXCEPT !.status = 200, !.cors = cors].status = 200
      BY DEF NoReply
    <3>3. QED
      BY <3>1, <3>2, Zenon
  <2>4. \A s \in Statuses :
          /\ [NoReply EXCEPT !.status = s] \in Reply
          /\ [NoReply EXCEPT !.status = s].status = s
    BY PlainFields, Zenon
  <2>5. CASE m.route = "options"
    <3>1. Answer(r, [NoReply EXCEPT !.status = 200, !.cors = cors]) /\ Count(200, "options")
      BY <2>1, <2>5 DEF Serve
    <3>2. m.route # "metrics" /\ m.route \in {"options", "metrics"}
      BY <2>5
    <3>3. QED
      BY <2>3, <3>1, <3>2, Zenon
  <2>6. CASE m.route = "metrics"
    <3>1. Answer(r, [NoReply EXCEPT !.status = 200]) /\ UNCHANGED requests
      BY <2>6 DEF Serve
    <3>2. m.route # "options" /\ m.route \in {"options", "metrics"}
      BY <2>6
    <3>3. [NoReply EXCEPT !.status = 200] \in Reply
      BY <2>2, <2>4, Zenon
    <3>4. QED
      BY <3>1, <3>2, <3>3, Zenon
  <2>7. CASE m.route \notin {"options", "metrics"}
    <3>1. Answer(r, [NoReply EXCEPT !.status = 404]) /\ Count(404, "not_found")
      BY <2>7 DEF Serve
    <3>2. m.route # "options" /\ m.route # "metrics"
      BY <2>7
    <3>3. /\ [NoReply EXCEPT !.status = 404] \in Reply
          /\ [NoReply EXCEPT !.status = 404].status = 404
      BY <2>2, <2>4, Zenon
    <3>4. PICK answer : answer = [NoReply EXCEPT !.status = 404]
      OBVIOUS
    <3>5. answer \in Reply /\ answer.status = 404 /\ Answer(r, answer)
      BY <3>1, <3>3, <3>4, Zenon
    <3>6. /\ m.route = "options" => answer.status = 200 /\ Count(200, "options")
          /\ m.route = "metrics" => UNCHANGED requests
      BY <3>2, Zenon
    <3>7. m.route \notin {"options", "metrics"} =>
            answer.status = 404 /\ Count(404, "not_found")
      BY <3>1, <3>5, Zenon
    <3>8. answer \in Reply /\ Answer(r, answer)
      BY <3>5, Zenon
    <3> USE <3>8
    <3> WITNESS answer \in Reply
    <3>9. QED
      BY <3>6, <3>7, Zenon
  <2>8. QED
    BY <2>5, <2>6, <2>7
<1>4. reply'[r] = answer
  BY <1>3, CountingTypes DEF Answer
<1>5. ASSUME NEW l \in Labels
      PROVE  requests'[l] = requests[l] + IF CountsUnder(r, l)' THEN 1 ELSE 0
  <2>1. CASE m.route = "options"
    <3>1. CountsUnder(r, l)' <=> l.status = 200 /\ l.endpoint = "options"
      BY <1>2, <1>3, <1>4, <2>1 DEF CountsUnder
    <3>2. QED
      BY <1>3, <2>1, <3>1, CountedUnder, CountingTypes
  <2>2. CASE m.route = "metrics"
    BY <1>2, <1>3, <2>2, CountingTypes DEF CountsUnder
  <2>3. CASE m.route \notin {"options", "metrics"}
    <3>1. CountsUnder(r, l)' <=> l.status = 404 /\ l.endpoint = "not_found"
      BY <1>1, <1>2, <1>3, <1>4, <2>3 DEF CountsUnder
    <3>2. QED
      BY <1>3, <2>3, <3>1, CountedUnder, CountingTypes
  <2>4. QED
    BY <2>1, <2>2, <2>3
<1>6. pc[r] # "replied"
  BY <1>1
<1>7. QED
  BY <1>2, <1>3, <1>5, <1>6, AnswerCounted, CountingTypes

\* Steps that answer nothing leave what is counted alone.
LEMMA OthersCounted ==
  ASSUME TypeInv, CountedInv, UNCHANGED doneVars,
         \A r \in Req : pc[r] = "replied" => pc'[r] = "replied",
         \A r \in answered : sent'[r] = sent[r],
         \A r \in Req : pc'[r] \in Waiting => sent'[r].route = "sdk"
  PROVE  CountedInv'
<1> USE DEF doneVars
<1>1. ASSUME NEW l \in Labels
      PROVE  {r \in answered' : CountsUnder(r, l)'} = {r \in answered : CountsUnder(r, l)}
  BY DEF CountsUnder
<1>2. AnswersAreCounted'
  BY <1>1, Zenon DEF CountedInv, AnswersAreCounted
<1>3. answered \subseteq Req
  BY CountingTypes
<1>4. QED
  BY <1>2, <1>3 DEF CountedInv

\* Where nothing has been answered, counters at zero agree with it.
LEMMA NoneCounted ==
  ASSUME answered = {}, requests = [l \in Labels |-> 0]
  PROVE  IsFiniteSet(answered) /\ AnswersAreCounted
<1>1. \A l : {r \in answered : CountsUnder(r, l)} = {}
  OBVIOUS
<1>2. QED
  BY <1>1, FS_EmptySet DEF AnswersAreCounted

\* Counting, action by action.
LEMMA StepCounted ==
  ASSUME TypeInv, CountedInv, [Next]_vars
  PROVE  CountedInv'
<1> USE DEF Unsent, snapVars, ctxVars, busVars
<1>1. ASSUME NEW r \in Req, NEW m \in Messages, Receive(r, m) PROVE CountedInv'
  <2>1. PICK h : sent' = [sent EXCEPT ![r] = [m EXCEPT !.header = h]]
    BY <1>1 DEF Receive
  <2>2. m \in Message /\ m.route = "sdk"
    BY <1>1, GatewayAssumption DEF Receive, GatewayAssumption
  <2>3. [m EXCEPT !.header = h].route = "sdk"
    BY <2>2 DEF Message
  <2>4. PICK message : sent' = [sent EXCEPT ![r] = message] /\ message.route = "sdk"
    BY <2>1, <2>3
  <2>5. pc[r] = "idle" /\ pc' = [pc EXCEPT ![r] = "body"] /\ UNCHANGED doneVars
    BY <1>1 DEF Receive, Goto
  <2>6. \A o \in answered : sent'[o] = sent[o]
    BY <2>4, <2>5 DEF CountedInv
  <2>7. \A o \in Req : pc'[o] \in Waiting => sent'[o].route = "sdk"
    BY <2>4, <2>5 DEF CountedInv, TypeInv, TypeOK
  <2>8. QED
    BY <2>5, <2>6, <2>7, OthersCounted, CountingTypes
<1>2. ASSUME NEW r \in Req, NEW m \in Messages, Serve(r, m) PROVE CountedInv'
  BY <1>2, ServeCounted
<1>3. ASSUME NEW r \in Req,
             \/ BodyFails(r) \/ Malformed(r) \/ RejectOrigin(r) \/ Reject(r)
             \/ RegistrationRefused(r) \/ FinishCanceled(r)
      PROVE  CountedInv'
  <2>1. pc[r] \in Waiting /\ UNCHANGED sent
    BY <1>3 DEF BodyFails, Malformed, RejectOrigin, Reject, RegistrationRefused,
                FinishCanceled, Judged, HasContext, Waiting
  <2>2. PICK error \in Errors, hasContext \in BOOLEAN : Fail(r, error, hasContext)
    <3>1. CASE Reject(r)
      <4>1. PICK error \in Errors : error = Validate(apps, sent[r])
        BY <3>1, StatusType DEF Reject
      <4>2. Fail(r, error, TRUE)
        BY <3>1, <4>1 DEF Reject
      <4>3. QED
        BY <4>2, Zenon
    <3>2. CASE ~Reject(r)
      BY <1>3, <3>2 DEF BodyFails, Malformed, RejectOrigin, RegistrationRefused,
                        FinishCanceled, Errors
    <3>3. QED
      BY <3>1, <3>2
  <2>3. QED
    BY <2>1, <2>2, FailCounted
<1>4. ASSUME NEW r \in Req, Finish(r) PROVE CountedInv'
  BY <1>4, FinishCounted
<1>5. ASSUME NEW r \in Req, NEW p \in {"registering", "sending", "closed"},
             pc[r] \in Waiting, pc' = [pc EXCEPT ![r] = p], UNCHANGED <<sent, doneVars>>
      PROVE  CountedInv'
  <2>1. \A o \in Req : /\ pc[o] = "replied" => pc'[o] = "replied"
                       /\ pc'[o] \in Waiting => pc[o] \in Waiting
    BY <1>5, CountingTypes DEF Waiting
  <2>2. QED
    BY <1>5, <2>1, OthersCounted DEF CountedInv
<1>6. ASSUME NEW r \in Req,
             \/ PanicOnHeader(r) \/ PanicOnRegistry(r) \/ RegistrationPanicked(r)
             \/ Disconnect(r) \/ AcceptEvents(r) \/ AcceptRegister(r)
             \/ CompleteRegistration(r)
      PROVE  CountedInv'
  <2>1. pc[r] \in Waiting /\ UNCHANGED <<sent, doneVars>>
    BY <1>6 DEF PanicOnHeader, PanicOnRegistry, RegistrationPanicked, Disconnect, Vanish,
       AcceptEvents, AcceptRegister, CompleteRegistration, Registered, Judged, HasContext,
       Waiting
  <2>2. \E p \in {"registering", "sending", "closed"} : pc' = [pc EXCEPT ![r] = p]
    BY <1>6 DEF PanicOnHeader, PanicOnRegistry, RegistrationPanicked, Disconnect, Vanish,
       AcceptEvents, AcceptRegister, CompleteRegistration, Publish, Goto
  <2>3. QED
    BY <1>5, <2>1, <2>2
<1>7. CASE \/ \E r \in Req : Report(r)
           \/ RegistryStep \/ MatchingStep \/ UNCHANGED vars
  <2>1. UNCHANGED <<pc, sent, doneVars>>
    BY <1>7 DEF Report, RegistryStep, MatchingStep, vars
  <2>2. \A r \in Req : pc'[r] \in Waiting => sent'[r].route = "sdk"
    BY <2>1 DEF CountedInv
  <2>3. \A r \in Req : /\ pc[r] = "replied" => pc'[r] = "replied"
                       /\ sent'[r] = sent[r]
    BY <2>1
  <2>4. QED
    BY <2>1, <2>2, <2>3, OthersCounted, CountingTypes
<1>8. CASE Crash
  <2>1. answered' = {} /\ requests' = [l \in Labels |-> 0]
    BY <1>8 DEF Crash
  <2>2. IsFiniteSet(answered') /\ AnswersAreCounted'
    <3>1. \A l : {r \in answered' : CountsUnder(r, l)'} = {}
      BY <2>1
    <3>2. QED
      BY <2>1, <3>1, FS_EmptySet DEF AnswersAreCounted
  <2>3. \A r \in Req : pc'[r] \notin Waiting
    BY <1>8 DEF Crash, Waiting
  <2>4. QED
    BY <2>1, <2>2, <2>3 DEF CountedInv
<1>9. QED
  BY <1>1, <1>2, <1>3, <1>4, <1>6, <1>7, <1>8 DEF Next, Handle, Continue

\* REQUEST_COUNTER agrees, label by label, with the answers that were given since
\* the process started, through errors, panics, clients that leave and crashes.
THEOREM CountersAgree == Spec => []AnswersAreCounted
<1>1. Init => CountedInv
  <2> SUFFICES ASSUME Init PROVE CountedInv
    OBVIOUS
  <2>1. IsFiniteSet(answered) /\ AnswersAreCounted
    BY NoneCounted DEF Init
  <2>2. QED
    BY <2>1 DEF Init, CountedInv, Waiting
<1>2. TypeInv /\ CountedInv /\ [Next]_vars => CountedInv'
  BY StepCounted
<1>3. CountedInv => AnswersAreCounted
  BY DEF CountedInv
<1>4. QED
  BY <1>1, <1>2, <1>3, TypeInvariant, PTL DEF Spec
=============================================================================
