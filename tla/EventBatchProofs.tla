---------------------------- MODULE EventBatchProofs ----------------------------
(***************************************************************************)
(* What an answer and a record say of a batch, for all batches: the        *)
(* inductive invariant of EventBatch, and the properties that follow from  *)
(* it by what PropertyProofs says of properties.                           *)
(***************************************************************************)
EXTENDS PropertyProofs, FiniteSetTheorems

\* What is known of the answer to an accepted batch once it has been made.
AnswersBatch(m, d, answer) ==
  IF Registers(m) = {}
    THEN answer = [i \in DOMAIN m.events |-> Result(m.events[i], None)]
    ELSE d # None /\ answer = <<Result(RegisterEvent(m), d)>>

\* The record is one that into_proto makes of the batch and of the same identity.
RecordsBatch(m, d, out) == \E p \in Orders(m.events) : out = RecordOf(m, d, p)

KnownOf(r) ==
  /\ phase[r] # "idle" => sent[r] \in Inputs
  /\ phase[r] \in {"resulted", "recorded"} => AnswersBatch(sent[r], device[r], results[r])
  /\ phase[r] = "recorded" =>
       /\ RecordsBatch(sent[r], device[r], record[r])
       /\ sent[r].ip # None => geoip = "ready"

\* The answer and the record of a request are about the batch that it brought and
\* about the identity in its context, which nothing changes in between; and a file
\* that has been opened stays open.
BatchInv ==
  /\ DOMAIN phase = Req /\ DOMAIN sent = Req /\ DOMAIN device = Req
  /\ DOMAIN results = Req /\ DOMAIN record = Req
  /\ \A r \in Req : KnownOf(r)

\* At first no request has a batch.
LEMMA InitBatch == Init => BatchInv
BY DEF Init, BatchInv, KnownOf

\* A step of one request leaves what the others have as it is.
LEMMA OthersKeep ==
  ASSUME BatchInv, NEW r \in Req, NEW q \in Req, q # r,
         phase'[q] = phase[q], sent'[q] = sent[q], device'[q] = device[q],
         results'[q] = results[q], record'[q] = record[q],
         geoip = "ready" => geoip' = "ready"
  PROVE  KnownOf(q)'
BY DEF BatchInv, KnownOf

\* A batch that is read is one of the inputs, and nothing has been made of it yet.
LEMMA ReceiveKeeps ==
  ASSUME BatchInv, NEW r \in Req, NEW m \in Inputs, Receive(r, m)
  PROVE  BatchInv'
<1>1. /\ phase'[r] \in {"accepted", "refused"} /\ sent'[r] = m
      /\ \A q \in Req \ {r} : /\ phase'[q] = phase[q] /\ sent'[q] = sent[q]
                              /\ device'[q] = device[q]
      /\ results' = results /\ record' = record /\ geoip' = geoip
      /\ DOMAIN phase' = Req /\ DOMAIN sent' = Req /\ DOMAIN device' = Req
  BY DEF Receive, Goto, BatchInv
<1>2. \A q \in Req : q # r => KnownOf(q)'
  BY <1>1, OthersKeep
<1>3. KnownOf(r)'
  BY <1>1 DEF KnownOf
<1>4. QED
  BY <1>1, <1>2, <1>3 DEF BatchInv

\* The answer to a batch without a register event (generate_event_results).
LEMMA ListResultsKeeps ==
  ASSUME BatchInv, NEW r \in Req, ListResults(r)
  PROVE  BatchInv'
<1>1. /\ phase[r] = "accepted" /\ phase'[r] = "resulted" /\ Registers(sent[r]) = {}
      /\ results'[r] = [i \in DOMAIN sent[r].events |-> Result(sent[r].events[i], None)]
      /\ \A q \in Req \ {r} : phase'[q] = phase[q] /\ results'[q] = results[q]
      /\ sent' = sent /\ device' = device /\ record' = record /\ geoip' = geoip
      /\ DOMAIN phase' = Req /\ DOMAIN results' = Req
  BY DEF ListResults, Goto, BatchInv
<1>2. \A q \in Req : q # r => KnownOf(q)'
  BY <1>1, OthersKeep
<1>3. KnownOf(r)'
  BY <1>1 DEF KnownOf, AnswersBatch, BatchInv
<1>4. QED
  BY <1>1, <1>2, <1>3 DEF BatchInv

\* The answer to a register event names the identity that the context gets with it
\* (create_new_device).
LEMMA RegisterKeeps ==
  ASSUME BatchInv, NEW r \in Req, Register(r)
  PROVE  BatchInv'
<1>1. PICK i \in IF sent[r].device = None THEN Id ELSE {sent[r].device} :
        /\ device' = [device EXCEPT ![r] = i]
        /\ results' = [results EXCEPT ![r] = <<Result(RegisterEvent(sent[r]), i)>>]
  BY DEF Register
<1>2. i # None
  BY <1>1, BatchAssumption
<1>3. /\ phase[r] = "accepted" /\ phase'[r] = "resulted" /\ Registers(sent[r]) # {}
      /\ device'[r] = i /\ results'[r] = <<Result(RegisterEvent(sent[r]), i)>>
      /\ \A q \in Req \ {r} : /\ phase'[q] = phase[q] /\ device'[q] = device[q]
                              /\ results'[q] = results[q]
      /\ sent' = sent /\ record' = record /\ geoip' = geoip
      /\ DOMAIN phase' = Req /\ DOMAIN device' = Req /\ DOMAIN results' = Req
  BY <1>1 DEF Register, Goto, BatchInv
<1>4. \A q \in Req : q # r => KnownOf(q)'
  BY <1>3, OthersKeep
<1>5. KnownOf(r)'
  BY <1>2, <1>3 DEF KnownOf, AnswersBatch, BatchInv
<1>6. QED
  BY <1>3, <1>4, <1>5 DEF BatchInv

\* The cell GEOIP is opened once, so no record loses the file it was made with.
LEMMA OpenGeoipKeeps ==
  ASSUME BatchInv, NEW r \in Req, OpenGeoip(r)
  PROVE  BatchInv'
BY DEF OpenGeoip, BatchInv, KnownOf

\* A request that panics has no record.
LEMMA PanicKeeps ==
  ASSUME BatchInv, NEW r \in Req, Panic(r)
  PROVE  BatchInv'
<1>1. /\ phase[r] = "resulted" /\ phase'[r] = "panicked"
      /\ \A q \in Req \ {r} : phase'[q] = phase[q]
      /\ sent' = sent /\ device' = device /\ results' = results /\ record' = record
      /\ geoip' = geoip /\ DOMAIN phase' = Req
  BY DEF Panic, Goto, BatchInv
<1>2. \A q \in Req : q # r => KnownOf(q)'
  BY <1>1, OthersKeep
<1>3. KnownOf(r)'
  BY <1>1 DEF KnownOf, BatchInv
<1>4. QED
  BY <1>1, <1>2, <1>3 DEF BatchInv

\* The record is made of the batch and the context that the answer was made of
\* (into_proto).
LEMMA IntoProtoKeeps ==
  ASSUME BatchInv, NEW r \in Req, IntoProto(r)
  PROVE  BatchInv'
<1>1. /\ phase[r] = "resulted" /\ phase'[r] = "recorded"
      /\ sent[r].ip # None => geoip = "ready"
      /\ RecordsBatch(sent[r], device[r], record'[r])
      /\ \A q \in Req \ {r} : phase'[q] = phase[q] /\ record'[q] = record[q]
      /\ sent' = sent /\ device' = device /\ results' = results /\ geoip' = geoip
      /\ DOMAIN phase' = Req /\ DOMAIN record' = Req
  BY DEF IntoProto, Goto, RecordsBatch, BatchInv
<1>2. \A q \in Req : q # r => KnownOf(q)'
  BY <1>1, OthersKeep
<1>3. KnownOf(r)'
  BY <1>1 DEF KnownOf, BatchInv
<1>4. QED
  BY <1>1, <1>2, <1>3 DEF BatchInv

\* What is known of the requests is always so.
LEMMA BatchKnown == Spec => []BatchInv
<1>1. BatchInv /\ [Next]_vars => BatchInv'
  <2>1. SUFFICES ASSUME BatchInv, [Next]_vars PROVE BatchInv'
    OBVIOUS
  <2>2. CASE UNCHANGED vars
    BY <2>1, <2>2 DEF vars, BatchInv, KnownOf
  <2>3. CASE Next
    BY <2>1, <2>3, ReceiveKeeps, ListResultsKeeps, RegisterKeeps, OpenGeoipKeeps,
       PanicKeeps, IntoProtoKeeps DEF Next
  <2>4. QED
    BY <2>1, <2>2, <2>3
<1>2. QED
  BY InitBatch, <1>1, PTL DEF Spec

-----------------------------------------------------------------------------
(* What is recorded.                                                       *)

\* The batch of a request that is done, and the order its events are in.
LEMMA DoneIs ==
  ASSUME BatchInv, NEW r \in Done
  PROVE  /\ r \in Req /\ sent[r] \in Inputs
         /\ AnswersBatch(sent[r], device[r], results[r])
         /\ RecordsBatch(sent[r], device[r], record[r])
         /\ sent[r].ip # None => geoip = "ready"
BY DEF Done, BatchInv, KnownOf

\* The parts of a record.
Parts(m, d, p, out) ==
  /\ out.recipient = IF d # None THEN d ELSE m.recipient
  /\ out.device = DeviceData(Located(m.about, m.ip))
  /\ out.events = [i \in DOMAIN p |-> EventData(m.events[p[i]])]

\* The record of a request that is done has these parts, for some order of its events.
LEMMA DoneRecord ==
  ASSUME BatchInv, NEW r \in Done
  PROVE  \E p \in Orders(sent[r].events) : Parts(sent[r], device[r], p, record[r])
<1>1. \A m, d, p : Parts(m, d, p, RecordOf(m, d, p))
  BY Zenon DEF RecordOf, Parts
<1>2. PICK p \in Orders(sent[r].events) : record[r] = RecordOf(sent[r], device[r], p)
  BY DoneIs DEF RecordsBatch
<1>3. Parts(sent[r], device[r], p, record[r])
  BY <1>1, <1>2
<1>4. QED
  BY <1>3

\* The events of a batch are numbered, and so are the members of their properties.
LEMMA BatchIs ==
  ASSUME NEW m \in Inputs
  PROVE  /\ Len(m.events) \in Nat /\ DOMAIN m.events = 1..Len(m.events)
         /\ \A i \in DOMAIN m.events : Document(m.events[i].properties)
         /\ {"hash", "country"} \subseteq DOMAIN m.about
<1>1. /\ IsSequence(m.events) /\ {"hash", "country"} \subseteq DOMAIN m.about
      /\ \A i \in DOMAIN m.events : Document(m.events[i].properties)
  BY BatchAssumption
<1>2. QED
  BY <1>1, SequenceOf

\* Every event has a place in the order, as a finite set has no smaller copy of itself.
LEMMA OrderIsComplete ==
  ASSUME NEW m \in Inputs, NEW p \in Orders(m.events)
  PROVE  /\ p \in [DOMAIN m.events -> DOMAIN m.events]
         /\ \A i, j \in DOMAIN m.events : p[i] = p[j] => i = j
         /\ \A i \in DOMAIN m.events : \E j \in DOMAIN m.events : p[j] = i
<1> DEFINE D == DOMAIN m.events
<1>1. p \in [D -> D] /\ \A i, j \in D : p[i] = p[j] => i = j
  BY DEF Orders
<1>2. IsFiniteSet(D)
  BY BatchIs, FS_Interval
<1>3. p \in Injection(D, D)
  BY <1>1 DEF Injection, IsInjective
<1>4. p \in Surjection(D, D)
  BY <1>2, <1>3, FS_Injection
<1>5. QED
  BY <1>1, <1>4 DEF Surjection

\* The record has the location that the address tells, or none, and the claim only
\* of a client without an address (set_location).
THEOREM LocationSafe == Spec => []LocationIsObserved
<1>1. BatchInv => LocationIsObserved
  <2>1. SUFFICES ASSUME BatchInv, NEW r \in Done
                 PROVE  LET d == record[r].device
                        IN  IF sent[r].ip # None
                              THEN /\ geoip = "ready" /\ d.hash = sent[r].ip
                                   /\ d.country = CountryOf[sent[r].ip]
                              ELSE /\ d.hash = sent[r].about.hash
                                   /\ d.country = sent[r].about.country
    BY DEF LocationIsObserved
  <2>2. record[r].device = DeviceData(Located(sent[r].about, sent[r].ip))
    BY <2>1, DoneRecord DEF Parts
  <2>3. {"hash", "country"} \subseteq DOMAIN sent[r].about
    BY <2>1, DoneIs, BatchIs
  <2>4. QED
    BY <2>1, <2>2, <2>3, DoneIs DEF DeviceData, Located
<1>2. QED
  BY BatchKnown, <1>1, PTL

\* An answer lists the events of the record as they were sent, or is about the first
\* register event and names the device of the record (generate_event_results).
THEOREM AnswersSafe == Spec => []AnswersNameTheRecord
<1>1. BatchInv => AnswersNameTheRecord
  <2> SUFFICES ASSUME BatchInv, NEW r \in Done
               PROVE  LET es == sent[r].events
                          IdOf(i) == IF es[i].id = None THEN "0" ELSE es[i].id
                          registers == {i \in DOMAIN es : es[i].name = "xorc_register"}
                      IN  IF registers = {}
                            THEN [i \in DOMAIN results[r] |-> results[r][i].id]
                                   = [i \in DOMAIN es |-> IdOf(i)]
                            ELSE /\ Len(results[r]) = 1
                                 /\ \E first \in registers :
                                      /\ \A i \in registers : first <= i
                                      /\ results[r][1].id = IdOf(first)
                                 /\ results[r][1].device = record[r].recipient
                                 /\ \E i \in DOMAIN record[r].events :
                                      record[r].events[i].id = results[r][1].id
    BY DEF AnswersNameTheRecord
  <2> DEFINE m == sent[r]
             registers == {i \in DOMAIN m.events : m.events[i].name = "xorc_register"}
  <2>1. registers = Registers(m)
    BY DEF Registers, IsRegister
  <2>2. m \in Inputs /\ AnswersBatch(m, device[r], results[r])
    BY DoneIs
  <2>3. CASE registers = {}
    <3>1. results[r] = [i \in DOMAIN m.events |-> Result(m.events[i], None)]
      BY <2>1, <2>2, <2>3 DEF AnswersBatch
    <3>2. QED
      BY <2>3, <3>1 DEF Result, EventId
  <2>4. CASE registers # {}
    <3>1. device[r] # None /\ results[r] = <<Result(RegisterEvent(m), device[r])>>
      BY <2>1, <2>2, <2>4 DEF AnswersBatch
    <3>2. PICK first \in registers :
            (\A i \in registers : first <= i) /\ RegisterEvent(m) = m.events[first]
      <4>1. registers \in SUBSET Nat
        BY <2>2, BatchIs
      <4>2. \E i \in Registers(m) : \A j \in Registers(m) : i <= j
        BY <2>1, <2>4, <4>1, LeastNumber
      <4>3. QED
        BY <2>1, <4>2 DEF RegisterEvent
    <3>3. /\ Len(results[r]) = 1 /\ results[r][1].id = EventId(m.events[first])
          /\ results[r][1].device = device[r]
      BY <3>1, <3>2 DEF Result
    <3>4. PICK p \in Orders(m.events) :
            record[r].events = [i \in DOMAIN p |-> EventData(m.events[p[i]])]
      BY DoneRecord DEF Parts
    <3>5. record[r].recipient = device[r]
      BY <3>1, DoneRecord DEF Parts
    <3>6. PICK i \in DOMAIN m.events : p[i] = first
      BY <2>2, OrderIsComplete
    <3>7. i \in DOMAIN record[r].events /\ record[r].events[i].id = EventId(m.events[first])
      <4>1. DOMAIN p = DOMAIN m.events
        BY <2>2, OrderIsComplete
      <4>2. i \in DOMAIN record[r].events /\ record[r].events[i] = EventData(m.events[first])
        BY <3>4, <3>6, <4>1
      <4>3. \A x : EventData(x).id = EventId(x)
        BY DEF EventData
      <4>4. QED
        BY <4>2, <4>3
    <3>8. QED
      BY <2>4, <3>2, <3>3, <3>5, <3>7 DEF EventId
  <2>5. QED
    BY <2>3, <2>4
<1>2. QED
  BY BatchKnown, <1>1, PTL

\* As many places have events of a set as there are events in it.
LEMMA SameNumber ==
  ASSUME NEW m \in Inputs, NEW p \in Orders(m.events), NEW B \in SUBSET DOMAIN m.events
  PROVE  Cardinality({i \in DOMAIN m.events : p[i] \in B}) = Cardinality(B)
<1> DEFINE A == {i \in DOMAIN m.events : p[i] \in B}
           f == [i \in A |-> p[i]]
<1>1. IsFiniteSet(A)
  <2>1. IsFiniteSet(DOMAIN m.events) /\ A \in SUBSET DOMAIN m.events
    BY BatchIs, FS_Interval
  <2>2. QED
    BY <2>1, FS_Subset
<1>2. f \in Bijection(A, B)
  <2>1. f \in Injection(A, B)
    BY OrderIsComplete DEF Injection, IsInjective
  <2>2. f \in Surjection(A, B)
    BY OrderIsComplete DEF Surjection
  <2>3. QED
    BY <2>1, <2>2 DEF Bijection
<1>3. ExistsBijection(A, B)
  BY <1>2 DEF ExistsBijection
<1>4. QED
  BY <1>1, <1>3, FS_Bijection

\* Sorted by their times, the events of the record are those of the batch, each as
\* often as it was sent (sort_unstable_by).
THEOREM OrderSafe == Spec => []RecordIsInOrderOfTime
<1>1. BatchInv => RecordIsInOrderOfTime
  <2> SUFFICES ASSUME BatchInv, NEW r \in Done
               PROVE  LET out == record[r].events
                          put == [i \in DOMAIN sent[r].events |-> EventData(sent[r].events[i])]
                          Times(seq, e) == Cardinality({i \in DOMAIN seq : seq[i] = e})
                      IN  /\ Len(out) = Len(put)
                          /\ \A i \in DOMAIN put : Times(out, put[i]) = Times(put, put[i])
                          /\ \A i \in 2..Len(out) : out[i - 1].timestamp <= out[i].timestamp
    BY DEF RecordIsInOrderOfTime
  <2> DEFINE es  == sent[r].events
             n   == Len(es)
             put == [i \in DOMAIN es |-> EventData(es[i])]
             out == record[r].events
             Times(seq, e) == Cardinality({i \in DOMAIN seq : seq[i] = e})
  <2>1. sent[r] \in Inputs /\ n \in Nat /\ DOMAIN es = 1..n
    BY DoneIs, BatchIs
  <2>2. PICK p \in Orders(es) : out = [i \in DOMAIN p |-> EventData(es[p[i]])]
    BY DoneRecord DEF Parts
  <2>3. p \in [1..n -> 1..n]
    BY <2>1, OrderIsComplete
  <2>4. /\ DOMAIN out = 1..n /\ DOMAIN put = 1..n
        /\ \A i \in 1..n : put[i] = EventData(es[i]) /\ out[i] = EventData(es[p[i]])
    BY <2>1, <2>2, <2>3
  <2>5. Len(out) = n /\ Len(put) = n
    <3>1. /\ out = [i \in 1..n |-> EventData(es[p[i]])]
          /\ put = [i \in 1..n |-> EventData(es[i])]
      BY <2>1, <2>2, <2>3
    <3>2. QED
      BY <2>1, <3>1
  <2>6. ASSUME NEW e PROVE Times(out, e) = Times(put, e)
    <3> DEFINE B == {i \in 1..n : put[i] = e}
    <3>1. {i \in DOMAIN out : out[i] = e} = {i \in DOMAIN es : p[i] \in B}
      BY <2>1, <2>3, <2>4
    <3>2. {i \in DOMAIN put : put[i] = e} = B
      BY <2>4
    <3>3. B \in SUBSET DOMAIN es
      BY <2>1
    <3> HIDE DEF B
    <3>4. Cardinality({i \in DOMAIN es : p[i] \in B}) = Cardinality(B)
      BY <2>1, <3>3, SameNumber
    <3>5. QED
      BY <3>1, <3>2, <3>4
  <2>7. ASSUME NEW i \in 2..n PROVE out[i - 1].timestamp <= out[i].timestamp
    <3>1. i \in DOMAIN es /\ i - 1 \in DOMAIN es /\ i - 1 < i
      BY <2>1
    <3>2. es[p[i - 1]].timestamp <= es[p[i]].timestamp
      BY <3>1 DEF Orders
    <3>3. out[i - 1] = EventData(es[p[i - 1]]) /\ out[i] = EventData(es[p[i]])
      BY <2>1, <2>4, <3>1
    <3>4. \A x : EventData(x).timestamp = x.timestamp
      BY DEF EventData
    <3>5. QED
      BY <3>2, <3>3, <3>4
  <2>8. QED
    BY <2>5, <2>6, <2>7
<1>2. QED
  BY BatchKnown, <1>1, PTL

\* The properties of an event of the record.
LEMMA RecordedProperties ==
  ASSUME BatchInv, NEW r \in Done
  PROVE  /\ \A i \in DOMAIN sent[r].events : Document(sent[r].events[i].properties)
         /\ \A i \in DOMAIN sent[r].events : \E e \in DOMAIN record[r].events :
              record[r].events[e].properties = Flatten(sent[r].events[i].properties)
         /\ \A e \in DOMAIN record[r].events : \E i \in DOMAIN sent[r].events :
              record[r].events[e].properties = Flatten(sent[r].events[i].properties)
<1>1. sent[r] \in Inputs
  BY DoneIs
<1>2. PICK p \in Orders(sent[r].events) :
        record[r].events = [i \in DOMAIN p |-> EventData(sent[r].events[p[i]])]
  BY DoneRecord DEF Parts
<1>3. /\ p \in [DOMAIN sent[r].events -> DOMAIN sent[r].events]
      /\ \A i \in DOMAIN sent[r].events : \E j \in DOMAIN sent[r].events : p[j] = i
  BY <1>1, OrderIsComplete
<1>4. \A e \in DOMAIN record[r].events :
        record[r].events[e].properties = Flatten(sent[r].events[p[e]].properties)
  BY <1>2 DEF EventData
<1>5. DOMAIN record[r].events = DOMAIN sent[r].events
  BY <1>2, <1>3
<1>6. \A i \in DOMAIN sent[r].events : \E e \in DOMAIN record[r].events :
        record[r].events[e].properties = Flatten(sent[r].events[i].properties)
  BY <1>3, <1>4, <1>5
<1>7. \A e \in DOMAIN record[r].events : p[e] \in DOMAIN sent[r].events
  BY <1>3, <1>5
<1>8. \A i \in DOMAIN sent[r].events : Document(sent[r].events[i].properties)
  BY <1>1, BatchIs
<1>9. QED
  BY <1>4, <1>6, <1>7, <1>8, Zenon

\* What flatten_properties makes of an object, and what is to be made of it.
Arrived(ms, out) ==
  /\ DOMAIN out = Supported(ms)
  /\ \A n \in Supported(ms) :
       /\ Arrives(out[n], ms[n].value)
       /\ EndsWith(out[n].key, Joined(ms)[n])
       /\ ms[n].parent = 0 \/ ms[ms[n].parent].parent = 0 => out[n].key = Joined(ms)[n]

KeptApart(out) == \A i, j \in DOMAIN out : out[i].key = out[j].key => i = j

\* Every property of a supported type arrives, at a key that ends with its path, and
\* its number is rounded to the nearest f64 (flatten_properties).
THEOREM PropertiesSafe == Spec => []PropertiesArrive
<1>1. BatchInv => PropertiesArrive
  <2> SUFFICES ASSUME BatchInv, NEW r \in Done, NEW i \in DOMAIN sent[r].events
               PROVE  \E e \in DOMAIN record[r].events :
                        Arrived(sent[r].events[i].properties, record[r].events[e].properties)
    BY DEF PropertiesArrive, Arrived
  <2> DEFINE ms == sent[r].events[i].properties
  <2>1. Document(ms)
    BY RecordedProperties
  <2>2. PICK e \in DOMAIN record[r].events : record[r].events[e].properties = Flatten(ms)
    BY RecordedProperties
  <2> HIDE DEF ms
  <2>3. DOMAIN Flatten(ms) = Supported(ms)
    BY DEF Flatten
  <2>4. ASSUME NEW n \in Supported(ms)
        PROVE  Arrives(Flatten(ms)[n], ms[n].value)
    <3> DEFINE v == ms[n].value
    <3>1. Flatten(ms)[n].type = v.type /\ Flatten(ms)[n].value = Recorded(v)
      BY DEF Flatten
    <3>2. v.type = "number" => v.value \in (-2048 * Exact)..(2048 * Exact)
      BY <2>1 DEF Document, Supported
    <3> HIDE DEF v
    <3>3. CASE v.type = "number"
      <4>1. Flatten(ms)[n].value = Float(v.value)
        BY <3>1, <3>3 DEF Recorded
      <4>2. QED
        BY <3>1, <3>2, <3>3, <4>1, NumbersArrive DEF Arrives, v
    <3>4. CASE v.type # "number"
      BY <3>1, <3>4 DEF Recorded, Arrives, v
    <3>5. QED
      BY <3>3, <3>4
  <2>5. ASSUME NEW n \in Supported(ms)
        PROVE  /\ EndsWith(Flatten(ms)[n].key, Joined(ms)[n])
               /\ ms[n].parent = 0 \/ ms[ms[n].parent].parent = 0 =>
                    Flatten(ms)[n].key = Joined(ms)[n]
    BY <2>1, KeysEnd
  <2>6. Arrived(ms, Flatten(ms))
    BY <2>3, <2>4, <2>5 DEF Arrived
  <2>7. QED
    BY <2>2, <2>6 DEF ms
<1>2. QED
  BY BatchKnown, <1>1, PTL

\* Two properties of an event never come under one key, as long as the client's keys
\* are plain (flatten_properties).
THEOREM KeepApartSafe == Spec => []PropertiesKeepApart
<1>1. BatchInv => PropertiesKeepApart
  <2> SUFFICES ASSUME BatchInv, NEW r \in Done,
                      \A i \in DOMAIN sent[r].events : AllPlain(sent[r].events[i].properties),
                      NEW e \in DOMAIN record[r].events
               PROVE  KeptApart(record[r].events[e].properties)
    BY DEF PropertiesKeepApart, AllPlain, KeptApart
  <2>1. PICK o \in DOMAIN sent[r].events :
          record[r].events[e].properties = Flatten(sent[r].events[o].properties)
    BY RecordedProperties
  <2> DEFINE ms == sent[r].events[o].properties
  <2>2. Document(ms) /\ AllPlain(ms)
    BY RecordedProperties
  <2> HIDE DEF ms
  <2>3. DOMAIN Flatten(ms) = Supported(ms)
    BY DEF Flatten
  <2>4. KeptApart(Flatten(ms))
    BY <2>2, <2>3, KeysDiffer DEF KeptApart
  <2>5. QED
    BY <2>1, <2>4 DEF ms
<1>2. QED
  BY BatchKnown, <1>1, PTL
=============================================================================
