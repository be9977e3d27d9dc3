------------------------------ MODULE MCEventBatch ------------------------------
(***************************************************************************)
(* A small instance of EventBatch for TLC.  The batches: event sequences   *)
(* of one to three events, in and out of order, of equal times, without    *)
(* ids, with and without register events; properties of all types, nested  *)
(* up to four levels; devices with and without claims and locales.         *)
(***************************************************************************)
EXTENDS EventBatch

CONSTANTS r1, r2, d1, d2, home, unlisted, de, fi, x, malformed

Member(parent, key, type, value) ==
  [parent |-> parent, key |-> key, value |-> [type |-> type, value |-> value]]

Text(parent, key) == Member(parent, key, "string", x)
Object(parent, key) == Member(parent, key, "object", None)

A == <<"a">>
B == <<"b">>
AB == <<"a", "b">>
A_ == <<"a", "_">>
_B == <<"_", "b">>

Flat == <<Member(0, A, "string", x), Member(0, AB, "bool", x),
          Member(0, B, "unsupported", None)>>

\* {"a": {"a": {"a": {"b"}, "b"}, "ab", "b"}, "ab", "b": {"a"}}
Deep ==
  <<Object(0, A), Object(1, A), Object(2, A), Text(3, B), Text(2, B),
    Text(1, AB), Text(1, B), Text(0, AB), Object(0, B), Text(9, A)>>

\* {"a": {"_b"}, "a_": {"b"}}: two paths that come under one key.
Ragged == <<Object(0, A), Text(1, _B), Object(0, A_), Text(3, B)>>

\* {"": {"", "a_": {"a"}}, "a_": {"": {"a"}}}: keys that are empty or end in "_".
Edges ==
  <<Object(0, <<>>), Text(1, <<>>), Object(1, A_), Text(3, A),
    Object(0, A_), Object(5, <<>>), Text(6, A)>>

Numbers == {<<Member(0, A, "number", n)>> :
              n \in {-22, -7, -4, 0, 3, 4, 5, 6, 7, 8, 9, 10, 11, 13, 14, 20, 36}}

Event(id, timestamp, name, properties) ==
  [id |-> id, timestamp |-> timestamp, name |-> name, properties |-> properties]

Plainly(id, time, name) == Event(id, time, name, <<>>)

Kinds ==
  {Plainly("e1", 1, "opened"), Plainly("e2", 2, "opened"), Plainly(None, 1, "opened"),
   Plainly("e3", 2, "xorc_register"), Plainly(None, 0, "xorc_register")}

EventLists ==
  {<<Event("e1", 1, "opened", p)>> : p \in {Flat, Deep, Ragged, Edges} \cup Numbers}
  \cup {<<Plainly("e1", t, "opened")>> : t \in {MaxTimestamp + 1, malformed}}
  \cup [1..2 -> Kinds]
  \cup {<<Plainly("e2", 2, "opened")>> \o es : es \in [1..2 -> Kinds]}

Device(language, locale, country, hash) ==
  [language |-> language, locale |-> locale, h |-> None, w |-> 100,
   country |-> country, hash |-> hash]

Plainest == Device(None, None, None, None)

DeviceKinds ==
  {Plainest, Device(None, [head |-> "de", underscore |-> TRUE], de, home),
   Device("fi", [head |-> "de", underscore |-> FALSE], de, unlisted),
   Device(None, [head |-> "de", underscore |-> FALSE], None, home)}

Batch(app, recipient, events, about, dev, ip) ==
  [app |-> app, recipient |-> recipient, events |-> events, about |-> about,
   device |-> dev, ip |-> ip]

MCInputs ==
  {Batch("app", "claimed", es, Plainest, d, None) : es \in EventLists, d \in {d1, None}}
  \cup {Batch(a, None, <<Plainly("e1", 1, n)>>, about, d1, ip) :
          a \in {"app", None}, n \in {"opened", "xorc_register"},
          about \in DeviceKinds, ip \in {home, unlisted, None}}

MCCountryOf == [ip \in {home, unlisted} |-> IF ip = home THEN fi ELSE None]
=============================================================================
