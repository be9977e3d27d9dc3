-------------------------------- MODULE EventBatch --------------------------------
(***************************************************************************)
(* What is in a batch of events: how its JSON is read, which results its   *)
(* answer lists, and what the record for Kafka says of the events, of      *)
(* their properties and of the device.  When and whether a batch is        *)
(* answered and published is the subject of Gateway; here a batch is one   *)
(* the registry has accepted, and several are handled by one process,      *)
(* which opens its GeoLite file with the first address it looks up.        *)
(*                                                                         *)
(* Fields that are only copied (names, models, versions) are left out.  A  *)
(* timestamp is the number its text denotes.  The key of a property is a   *)
(* sequence of characters, of which only "_" matters, as two of them       *)
(* separate the levels of nested properties.                               *)
(*                                                                         *)
(* The nesting of properties has no bound here: recursion is over the      *)
(* numbers of an object's members, as functions that can be proved about.  *)
(***************************************************************************)
EXTENDS Integers, Sequences, FiniteSets

CONSTANTS
  None,
  Req,           \* requests
  Inputs,        \* the batches that arrive, with what their headers say
  Id,            \* device identities
  Char,          \* the characters of keys
  CountryOf,     \* the GeoLite file: the country of each address, or None
  GeoFails,      \* BOOLEAN: the GeoLite file may be missing or unreadable
  Exact,         \* the integers up to here, and down to its negative, are f64s (2^53)
  MaxTimestamp   \* u64::MAX

Underscore == "_"

IsSequence(s) == s \in Seq({s[i] : i \in DOMAIN s})

Ulps == {1, 2, 4, 8, 16, 32, 64, 128, 256, 512, 1024, 2048}

\* A JSON object as the sequence of the members in it and in the objects nested in
\* it, in the order in which flatten_properties reaches them.  Each has the number of
\* the member whose value it is in, 0 in the event's own object.  An object has one
\* member of a key, and a number is an i64 or a u64.
Document(members) ==
  /\ IsSequence(members)
  /\ \A n \in DOMAIN members :
       LET m == members[n]
       IN  /\ m.parent \in 0..(n - 1)
           /\ m.parent # 0 => members[m.parent].value.type = "object"
           /\ m.key \in Seq(Char)
           /\ m.value.type = "number" => m.value.value \in (-2048 * Exact)..(2048 * Exact)
           /\ \A o \in DOMAIN members :
                members[o].parent = m.parent /\ members[o].key = m.key => o = n

ASSUME BatchAssumption ==
  /\ GeoFails \in BOOLEAN
  /\ Exact \in Nat \ {0}
  /\ MaxTimestamp \in Nat
  /\ None \notin Id
  /\ Underscore \in Char
  /\ \A m \in Inputs :
       /\ IsSequence(m.events)
       /\ \A i \in DOMAIN m.events : Document(m.events[i].properties)
       /\ {"hash", "country"} \subseteq DOMAIN m.about

VARIABLES
  geoip,    \* the lazy_static cell GEOIP: "unset", "ready", "poisoned"
  phase,    \* where each request is
  sent,     \* the batch of each request
  device,   \* the identity in each request's context
  results,  \* the events_status of each answer
  record    \* the record made of each batch

vars == <<geoip, phase, sent, device, results, record>>

Goto(r, p) == phase' = [phase EXCEPT ![r] = p]

-----------------------------------------------------------------------------
(* Reading the JSON.                                                       *)

\* A timestamp is a text that denotes a u64; what else a batch may lack is optional
\* or has a default.  One unreadable event makes the batch unreadable.
Readable(e) == e.timestamp \in 0..MaxTimestamp

EventId(e) == IF e.id = None THEN "0" ELSE e.id

IsRegister(e) == e.name = "xorc_register"

-----------------------------------------------------------------------------
(* The properties of an event.                                             *)

Separator == <<Underscore, Underscore>>

Magnitude(n) == IF n < 0 THEN -n ELSE n

\* The distance between the f64s that are next to each other around n.
Ulp(n) == CHOOSE u \in Ulps : /\ Magnitude(n) <= u * Exact
                              /\ \A w \in Ulps : w < u => w * Exact < Magnitude(n)

\* Faulty variant, for the sensitivity of the properties: as an f32 has it.
FloatSingle(n) == IF n > Exact \div 2 THEN n - (n % 2) ELSE n

\* The f64 of an integer: the nearest one, of two the even one.
Float(n) ==
  LET u     == Ulp(n)
      below == n \div u
      over  == n % u
  IN  IF 2 * over < u \/ (2 * over = u /\ below % 2 = 0) THEN below * u ELSE (below + 1) * u

Recorded(v) == IF v.type = "number" THEN Float(v.value) ELSE v.value

\* Faulty variant: nothing between the levels.
NestedPrefixUnseparated(prefix, key) == prefix \o key

\* The prefix of the members of an object: the key has the prefix already.
NestedPrefix(prefix, key) == prefix \o key \o Separator

\* The prefix that flatten_properties passes on at each member that is an object.
Prefixes(members) ==
  LET prefix[n \in 0..Len(members)] ==
        IF n = 0 THEN <<>>
        ELSE LET outer == prefix[members[n].parent]
             IN  NestedPrefix(outer, outer \o members[n].key)
  IN  prefix

\* Members of other types (arrays, null) are logged and left out.
Supported(members) ==
  {n \in DOMAIN members : members[n].value.type \in {"string", "bool", "number"}}

\* The properties that are pushed, in the order of the members they are made of.
Flatten(members) ==
  [n \in Supported(members) |->
     [key   |-> Prefixes(members)[members[n].parent] \o members[n].key,
      type  |-> members[n].value.type,
      value |-> Recorded(members[n].value)]]

EventData(e) ==
  [id |-> EventId(e), timestamp |-> e.timestamp, name |-> e.name,
   properties |-> Flatten(e.properties)]

\* Faulty variant: the events as they came.
OrdersUnsorted(events) == {[i \in DOMAIN events |-> i]}

\* The orders in which sort_unstable_by may leave the events: events of one time
\* in any order.
Orders(events) ==
  {p \in [DOMAIN events -> DOMAIN events] :
     /\ \A i, j \in DOMAIN events : p[i] = p[j] => i = j
     /\ \A i, j \in DOMAIN events :
          i < j => events[p[i]].timestamp <= events[p[j]].timestamp}

-----------------------------------------------------------------------------
(* The device.                                                             *)

\* Faulty variant: an address that is not in the file leaves the claim.
LocatedOrClaimed(d, ip) ==
  IF ip = None THEN d
  ELSE [d EXCEPT !.hash = ip,
                 !.country = IF CountryOf[ip] = None THEN @ ELSE CountryOf[ip]]

\* set_location: what the address tells replaces what the client claims, also when
\* it tells nothing.  The hash of an address is represented by the address.
Located(d, ip) ==
  IF ip = None THEN d ELSE [d EXCEPT !.hash = ip, !.country = CountryOf[ip]]

\* The part of the locale before its underscore; without one, none.
Language(d) ==
  IF d.language # None THEN d.language
  ELSE IF d.locale # None /\ d.locale.underscore THEN d.locale.head
  ELSE None

Size(n) == IF n = None THEN -1 ELSE n

DeviceData(d) ==
  [language |-> Language(d), h |-> Size(d.h), w |-> Size(d.w),
   hash |-> d.hash, country |-> d.country]

-----------------------------------------------------------------------------
Init ==
  /\ geoip = "unset"
  /\ phase = [r \in Req |-> "idle"]
  /\ sent = [r \in Req |-> None]
  /\ device = [r \in Req |-> None]
  /\ results = [r \in Req |-> <<>>]
  /\ record = [r \in Req |-> None]

Receive(r, m) ==
  /\ phase[r] = "idle"
  /\ sent' = [sent EXCEPT ![r] = m]
  /\ IF \A i \in DOMAIN m.events : Readable(m.events[i])
       THEN /\ Goto(r, "accepted")
            /\ device' = [device EXCEPT ![r] = m.device]
       ELSE Goto(r, "refused") /\ UNCHANGED device
  /\ UNCHANGED <<geoip, results, record>>

\* The result of an event, with the identity of the device that registers.
Result(e, d) == [id |-> EventId(e), device |-> d]

Registers(m) == {i \in DOMAIN m.events : IsRegister(m.events[i])}

\* Faulty variant: the last register event.
LastRegisterEvent(m) ==
  m.events[CHOOSE i \in Registers(m) : \A j \in Registers(m) : j <= i]

\* The register event that is answered is the first.
RegisterEvent(m) ==
  m.events[CHOOSE i \in Registers(m) : \A j \in Registers(m) : i <= j]

\* One result for each event, in the order they were sent.
ListResults(r) ==
  /\ phase[r] = "accepted"
  /\ Registers(sent[r]) = {}
  /\ results' = [results EXCEPT ![r] =
       [i \in DOMAIN sent[r].events |-> Result(sent[r].events[i], None)]]
  /\ Goto(r, "resulted")
  /\ UNCHANGED <<geoip, sent, device, record>>

\* A register event is answered alone, with the device's identity: the
\* one it brought, or one that IfaMatching gives.
Register(r) ==
  /\ phase[r] = "accepted"
  /\ Registers(sent[r]) # {}
  /\ \E i \in IF sent[r].device = None THEN Id ELSE {sent[r].device} :
       /\ device' = [device EXCEPT ![r] = i]
       /\ results' = [results EXCEPT ![r] = <<Result(RegisterEvent(sent[r]), i)>>]
  /\ Goto(r, "resulted")
  /\ UNCHANGED <<geoip, sent, record>>

\* The first address that is looked up opens the file, and panics if it cannot.
OpenGeoip(r) ==
  /\ phase[r] = "resulted"
  /\ sent[r].ip # None
  /\ geoip = "unset"
  /\ \/ geoip' = "ready"
     \/ GeoFails /\ geoip' = "poisoned"
  /\ UNCHANGED <<phase, sent, device, results, record>>

\* So does every later use of the cell, after the identity has been given.
Panic(r) ==
  /\ phase[r] = "resulted"
  /\ sent[r].ip # None
  /\ geoip = "poisoned"
  /\ Goto(r, "panicked")
  /\ UNCHANGED <<geoip, sent, device, results, record>>

\* The record of a batch m from a device with identity d, its events in order p.
RecordOf(m, d, p) ==
  [source    |-> IF m.app = None THEN "" ELSE m.app,
   recipient |-> IF d # None THEN d ELSE m.recipient,
   device    |-> DeviceData(Located(m.about, m.ip)),
   events    |-> [i \in DOMAIN p |-> EventData(m.events[p[i]])]]

IntoProto(r) ==
  /\ phase[r] = "resulted"
  /\ sent[r].ip = None \/ geoip = "ready"
  /\ \E p \in Orders(sent[r].events) :
       record' = [record EXCEPT ![r] = RecordOf(sent[r], device[r], p)]
  /\ Goto(r, "recorded")
  /\ UNCHANGED <<geoip, sent, device, results>>

Next ==
  \E r \in Req :
    \/ \E m \in Inputs : Receive(r, m)
    \/ ListResults(r) \/ Register(r)
    \/ OpenGeoip(r) \/ Panic(r) \/ IntoProto(r)

Spec == Init /\ [][Next]_vars

-----------------------------------------------------------------------------
(* Properties.                                                             *)

\* The requests that have a record, which exists once into_proto has run.
Done == {r \in Req : phase[r] = "recorded"}

\* The same events, each as often as it was sent, are in the record, and they are
\* there in the order of their times, though the answer keeps the order in which
\* they came (sort_unstable_by).
RecordIsInOrderOfTime ==
  \A r \in Done :
    LET out == record[r].events
        put == [i \in DOMAIN sent[r].events |-> EventData(sent[r].events[i])]
        Times(seq, e) == Cardinality({i \in DOMAIN seq : seq[i] = e})
    IN  /\ Len(out) = Len(put)
        /\ \A i \in DOMAIN put : Times(out, put[i]) = Times(put, put[i])
        /\ \A i \in 2..Len(out) : out[i - 1].timestamp <= out[i].timestamp

\* An answer either lists every event of the record by its id, in the order sent,
\* or it is about the first register event and names the device that the record
\* is of (generate_event_results, into_proto).  Events without an id share one.
AnswersNameTheRecord ==
  \A r \in Done :
    LET es == sent[r].events
        IdOf(i) == IF es[i].id = None THEN "0" ELSE es[i].id
        registers == {i \in DOMAIN es : es[i].name = "xorc_register"}
    IN  IF registers = {}
          THEN [i \in DOMAIN results[r] |-> results[r][i].id] = [i \in DOMAIN es |-> IdOf(i)]
          ELSE /\ Len(results[r]) = 1
               /\ \E first \in registers :
                    /\ \A i \in registers : first <= i
                    /\ results[r][1].id = IdOf(first)
               /\ results[r][1].device = record[r].recipient
               /\ \E i \in DOMAIN record[r].events :
                    record[r].events[i].id = results[r][1].id

\* A number arrives as itself up to Exact, beyond as a multiple of the distance of
\* f64s that is at most half of it away.
Arrives(p, v) ==
  /\ p.type = v.type
  /\ IF v.type = "number" /\ v.value \notin (-Exact)..Exact
       THEN \E u \in Ulps :
              /\ Magnitude(v.value) <= u * Exact /\ u * Exact < 2 * Magnitude(v.value)
              /\ p.value % u = 0 /\ 2 * Magnitude(p.value - v.value) <= u
       ELSE p.value = v.value

\* The path of a member m of an object that has a path itself, the keys joined.
PathTo(m, path) == IF m.parent = 0 THEN m.key ELSE path \o Separator \o m.key

\* The path of each member.
Joined(members) ==
  LET joined[n \in 0..Len(members)] ==
        IF n = 0 THEN <<>> ELSE PathTo(members[n], joined[members[n].parent])
  IN  joined

EndsWith(key, end) ==
  /\ Len(end) <= Len(key)
  /\ \A i \in DOMAIN end : key[Len(key) - Len(end) + i] = end[i]

\* Every supported property arrives once, at a key that ends with its path, and is
\* its path where an object is in the event itself; deeper down the code repeats
\* the path's first keys (flatten_properties).
PropertiesArrive ==
  \A r \in Done : \A i \in DOMAIN sent[r].events :
    LET ms == sent[r].events[i].properties
    IN  \E e \in DOMAIN record[r].events :
          LET out == record[r].events[e].properties
          IN  /\ DOMAIN out = Supported(ms)
              /\ \A n \in Supported(ms) :
                   LET p == ms[n].parent
                   IN  /\ Arrives(out[n], ms[n].value)
                       /\ EndsWith(out[n].key, Joined(ms)[n])
                       /\ p = 0 \/ ms[p].parent = 0 => out[n].key = Joined(ms)[n]

\* No underscore at the beginning, and nowhere two in a row.
Plain(key) ==
  /\ key # <<>> => key[1] # Underscore
  /\ \A i \in 2..Len(key) : ~(key[i - 1] = Underscore /\ key[i] = Underscore)

\* Two properties of an event never come under one key, however deep they are, as
\* long as the keys the client chose are plain: the prefix of flatten_properties,
\* though it repeats itself, keeps different paths apart.
PropertiesKeepApart ==
  \A r \in Done :
    (\A e \in DOMAIN sent[r].events :
       LET ms == sent[r].events[e].properties IN \A n \in DOMAIN ms : Plain(ms[n].key)) =>
    \A e \in DOMAIN record[r].events :
      LET out == record[r].events[e].properties
      IN  \A i, j \in DOMAIN out : out[i].key = out[j].key => i = j

\* Where the proxy has passed an address on, the record says what that address
\* tells, and nothing of the location the client claims for itself; it is never
\* made in a process that could not open its GeoLite file (set_location).
LocationIsObserved ==
  \A r \in Done :
    LET d == record[r].device
    IN  IF sent[r].ip # None
          THEN geoip = "ready" /\ d.hash = sent[r].ip /\ d.country = CountryOf[sent[r].ip]
          ELSE d.hash = sent[r].about.hash /\ d.country = sent[r].about.country
=============================================================================
