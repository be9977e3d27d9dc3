--------------------------- MODULE IfaMatchingProofs ---------------------------
(***************************************************************************)
(* Theorems about device identities, for any number of registrations,      *)
(* applications and devices: types, that two devices never share an        *)
(* identity, and that an identity changes only after a missed lookup.      *)
(***************************************************************************)
EXTENDS IfaMatching, TLAPS

\* The row of a device, if it has one, is a row of the table.
LEMMA KeyOfType == \A d \in Devices : KeyOf(d) \in Keys \cup {None}
BY IfaAssumption DEF IfaAssumption, Device, KeyOf, ParseIfa, Keys

\* One row is one device.
LEMMA SameRowSameDevice ==
  \A d, e \in Devices : KeyOf(d) = KeyOf(e) /\ KeyOf(d) # None => SameDevice(d, e)
BY IfaAssumption DEF IfaAssumption, Device, KeyOf, ParseIfa, Keys, SameDevice

-----------------------------------------------------------------------------
\* What every registration that has begun brings along.
AskedInv ==
  \A r \in Req :
    /\ step[r] = "idle" => id[r] = None /\ asked[r] = None
    /\ id[r] # None => asked[r] # None
    /\ step[r] \in {"looking", "saving"} => asked[r] # None /\ Key(r) \in Keys
    /\ step[r] \in {"waiting", "entered"} => asked[r] # None
    /\ step[r] \in {"waiting", "entered", "looking"} => id[r] = None
    /\ step[r] = "saving" => id[r] # None

\* Init establishes types and AskedInv, and every step preserves them.
LEMMA InitTyped == Init => TypeOK /\ AskedInv
<1> SUFFICES ASSUME Init PROVE TypeOK /\ AskedInv
  OBVIOUS
<1>1. known \in [Keys -> issued \cup {None}] /\ issued \in SUBSET Id
  BY IfaAssumption DEF Init, IfaAssumption
<1>2. QED
  BY <1>1 DEF Init, TypeOK, AskedInv, Steps

\* Every action of the closure, of its surroundings and of the table keeps them.
LEMMA StepTyped == TypeOK /\ AskedInv /\ [Next]_vars => TypeOK' /\ AskedInv'
<1> SUFFICES ASSUME TypeOK, AskedInv, [Next]_vars PROVE TypeOK' /\ AskedInv'
  OBVIOUS
<1> USE DEF TypeOK, AskedInv, Steps, Active, InClosure, Finished, Key, Goto
<1>1. ASSUME NEW r \in Req, NEW d \in Devices, Begin(r, d)
      PROVE  TypeOK' /\ AskedInv'
  <2>1. d # None
    BY IfaAssumption DEF IfaAssumption
  <2>2. QED
    BY <1>1, <2>1 DEF Begin
<1>2. ASSUME NEW r \in Req,
             Acquire(r) \/ Refuse(r) \/ Abandon(r) \/ OpenPool(r) \/ Panic(r)
      PROVE  TypeOK' /\ AskedInv'
  BY <1>2 DEF Acquire, Refuse, Abandon, OpenPool, Panic
<1>3. ASSUME NEW r \in Req, Anonymous(r) PROVE TypeOK' /\ AskedInv'
  <2>1. PICK i \in Id \ issued : id' = [id EXCEPT ![r] = i] /\ issued' = issued \cup {i}
    BY <1>3 DEF Anonymous, Generate
  <2>2. TypeOK'
    BY <1>3, <2>1 DEF Anonymous
  <2>3. AskedInv'
    BY <1>3, <2>1 DEF Anonymous
  <2>4. QED
    BY <2>2, <2>3
<1>4. ASSUME NEW r \in Req, SendLookup(r) PROVE TypeOK' /\ AskedInv'
  BY <1>4, KeyOfType DEF SendLookup
<1>5. ASSUME NEW r \in Req, Found(r) PROVE TypeOK' /\ AskedInv'
  BY <1>5 DEF Found
<1>6. ASSUME NEW r \in Req, Missed(r) PROVE TypeOK' /\ AskedInv'
  <2>1. PICK i \in Id \ issued : id' = [id EXCEPT ![r] = i] /\ issued' = issued \cup {i}
    BY <1>6 DEF Missed, Generate
  <2>2. TypeOK'
    BY <1>6, <2>1 DEF Missed
  <2>3. i # None
    BY IfaAssumption DEF IfaAssumption
  <2>4. AskedInv'
    BY <1>6, <2>1, <2>3 DEF Missed
  <2>5. QED
    BY <2>2, <2>4
<1>7. ASSUME NEW r \in Req, Save(r) PROVE TypeOK' /\ AskedInv'
  BY <1>7 DEF Save
<1>8. ASSUME NEW r \in Req, SaveFails(r) PROVE TypeOK' /\ AskedInv'
  BY <1>8 DEF SaveFails, Write
<1>9. ASSUME NEW w \in stray, Settle(w) PROVE TypeOK' /\ AskedInv'
  BY <1>9 DEF Settle
<1>10. CASE Crash
  BY <1>10 DEF Crash, Write
<1>11. CASE UNCHANGED vars
  BY <1>11 DEF vars
<1>12. QED
  BY <1>1, <1>2, <1>3, <1>4, <1>5, <1>6, <1>7, <1>8, <1>9, <1>10, <1>11
     DEF Next, Closure, Prepare, Query

\* Types, under failures, overlapping registrations and crashes.
THEOREM TypeCorrect == Spec => [](TypeOK /\ AskedInv)
BY InitTyped, StepTyped, PTL DEF Spec

-----------------------------------------------------------------------------
(* Where an identity is attached to a row: in the table, in a stray write, *)
(* or in a registration (None is the row of a device that has none).  No   *)
(* step attaches an identity to a second row, because each one copies a    *)
(* pair that is there or takes an identity that is nowhere yet.            *)

Attached(i, k) ==
  \/ k \in Keys /\ known[k] = i
  \/ \E w \in stray : w.key = k /\ w.id = i
  \/ \E r \in Req : asked[r] # None /\ Key(r) = k /\ id[r] = i

OneRowPerId ==
  \A i \in issued : \A j, k \in Keys \cup {None} :
    Attached(i, j) /\ Attached(i, k) => j = k

AnonymousAlone ==
  \A r, o \in Req : r # o /\ id[r] # None /\ id[r] = id[o] => Key(r) # None

\* The table begins with no identity in two rows, and nobody has one yet.
LEMMA InitAttached == Init => OneRowPerId /\ AnonymousAlone
<1> SUFFICES ASSUME Init PROVE OneRowPerId /\ AnonymousAlone
  OBVIOUS
<1>1. \A i \in issued, k \in Keys \cup {None} :
        Attached(i, k) => k \in Keys /\ known[k] = i
  BY IfaAssumption DEF Init, Attached, IfaAssumption
<1>2. \A i \in issued : i # None
  BY IfaAssumption DEF Init, IfaAssumption
<1>3. QED
  BY <1>1, <1>2 DEF Init, OneRowPerId, AnonymousAlone

\* A step that issues no identity and attaches none to a new row.
LEMMA NothingAttached ==
  ASSUME TypeOK, OneRowPerId, UNCHANGED issued,
         \A i \in issued, k \in Keys \cup {None} : Attached(i, k)' => Attached(i, k)
  PROVE  OneRowPerId'
BY DEF OneRowPerId

\* The step that generates an identity for registration r.
LEMMA GeneratedAttached ==
  ASSUME NEW r \in Req, TypeOK, AskedInv, OneRowPerId, AnonymousAlone,
         asked[r] # None, id[r] = None,
         Generate(r), UNCHANGED <<known, stray, asked>>
  PROVE  OneRowPerId' /\ AnonymousAlone'
<1>1. PICK i \in Id \ issued : id' = [id EXCEPT ![r] = i] /\ issued' = issued \cup {i}
  BY DEF Generate
<1>2. i # None
  BY IfaAssumption DEF IfaAssumption
<1>3. \A k \in Keys \cup {None} : Attached(i, k)' => k = Key(r)
  BY <1>1, <1>2 DEF TypeOK, Attached, Key
<1>4. \A h \in issued, k \in Keys \cup {None} : Attached(h, k)' => Attached(h, k)
  BY <1>1 DEF TypeOK, Attached, Key
<1>5. OneRowPerId'
  BY <1>1, <1>3, <1>4 DEF OneRowPerId
<1>6. AnonymousAlone'
  BY <1>1, <1>2 DEF AnonymousAlone, TypeOK, Key
<1>7. QED
  BY <1>5, <1>6

\* An identity moves between table, stray writes and registrations of one row only.
LEMMA StepAttached ==
  ASSUME TypeOK, AskedInv, OneRowPerId, AnonymousAlone, [Next]_vars
  PROVE  OneRowPerId' /\ AnonymousAlone'
<1> USE DEF TypeOK, Key
<1>1. ASSUME NEW r \in Req, NEW d \in Devices, Begin(r, d)
      PROVE  OneRowPerId' /\ AnonymousAlone'
  <2>1. id[r] = None /\ asked' = [asked EXCEPT ![r] = d]
        /\ UNCHANGED <<known, stray, id, issued>>
    BY <1>1 DEF Begin, AskedInv
  <2>2. \A i \in issued, k \in Keys \cup {None} : Attached(i, k)' => Attached(i, k)
    BY <2>1, IfaAssumption DEF Attached, IfaAssumption
  <2>3. AnonymousAlone'
    BY <2>1 DEF AnonymousAlone
  <2>4. QED
    BY <2>1, <2>2, <2>3, NothingAttached
<1>2. ASSUME NEW r \in Req,
             \/ Acquire(r) \/ Refuse(r) \/ Abandon(r) \/ OpenPool(r)
             \/ Panic(r) \/ SendLookup(r)
      PROVE  OneRowPerId' /\ AnonymousAlone'
  <2>1. UNCHANGED <<known, stray, asked, id, issued>>
    BY <1>2 DEF Acquire, Refuse, Abandon, OpenPool, Panic, SendLookup
  <2>2. QED
    BY <2>1 DEF OneRowPerId, AnonymousAlone, Attached
<1>3. ASSUME NEW r \in Req, Anonymous(r) \/ Missed(r), id[r] = None
      PROVE  OneRowPerId' /\ AnonymousAlone'
  BY <1>3, GeneratedAttached DEF Anonymous, Missed, AskedInv
<1>4. ASSUME NEW r \in Req, Found(r) PROVE OneRowPerId' /\ AnonymousAlone'
  <2>1. /\ Key(r) \in Keys /\ asked[r] # None
        /\ id' = [id EXCEPT ![r] = known[Key(r)]]
        /\ UNCHANGED <<known, stray, asked, issued>>
    BY <1>4 DEF Found, AskedInv
  <2>2. \A i \in issued, k \in Keys \cup {None} : Attached(i, k)' => Attached(i, k)
    BY <2>1 DEF Attached
  <2>3. ASSUME NEW p \in Req, NEW o \in Req, p # o, id'[p] # None, id'[p] = id'[o]
        PROVE  Key(p)' # None
    <3>1. id'[p] \in issued
      BY <2>1, <2>3
    <3>2. ASSUME NEW q \in Req, q # r, id[q] = known[Key(r)], id[q] # None
          PROVE  Key(q) = Key(r)
      <4>1. Attached(id[q], Key(r))
        BY <2>1, <3>2 DEF Attached
      <4>2. Attached(id[q], Key(q)) /\ Key(q) \in Keys \cup {None}
        BY <3>2, KeyOfType DEF Attached, AskedInv
      <4>3. QED
        BY <2>1, <3>2, <4>1, <4>2 DEF OneRowPerId
    <3>3. Key(r) # None
      BY <2>1, IfaAssumption DEF IfaAssumption
    <3>4. QED
      BY <2>1, <2>3, <3>2, <3>3 DEF AnonymousAlone
  <2>4. QED
    BY <2>1, <2>2, <2>3, NothingAttached DEF AnonymousAlone
<1>5. ASSUME NEW r \in Req, Save(r) \/ SaveFails(r)
      PROVE  OneRowPerId' /\ AnonymousAlone'
  <2>1. /\ Key(r) \in Keys /\ asked[r] # None
        /\ \A k \in Keys : known'[k] \in {known[k], id[r]}
        /\ \A k \in Keys : known'[k] # known[k] => k = Key(r)
        /\ stray' \in {stray, stray \cup {Write(r)}}
        /\ UNCHANGED <<asked, id, issued>>
    BY <1>5 DEF Save, SaveFails, AskedInv
  <2>2. \A i \in issued, k \in Keys \cup {None} : Attached(i, k)' => Attached(i, k)
    BY <2>1 DEF Attached, Write
  <2>3. QED
    BY <2>1, <2>2, NothingAttached DEF AnonymousAlone
<1>6. ASSUME NEW w \in stray, Settle(w) PROVE OneRowPerId' /\ AnonymousAlone'
  <2>1. /\ \A k \in Keys : known'[k] = known[k] \/ (k = w.key /\ known'[k] = w.id)
        /\ stray' \subseteq stray
        /\ UNCHANGED <<asked, id, issued>>
    BY <1>6 DEF Settle
  <2>2. \A i \in issued, k \in Keys \cup {None} : Attached(i, k)' => Attached(i, k)
    BY <2>1 DEF Attached
  <2>3. QED
    BY <2>1, <2>2, NothingAttached DEF AnonymousAlone
<1>7. CASE Crash
  <2>1. /\ \A w \in stray' : w \in stray \/ \E r \in Req : step[r] = "saving" /\ w = Write(r)
        /\ UNCHANGED <<known, asked, id, issued>>
    BY <1>7 DEF Crash
  <2>2. \A i \in issued, k \in Keys \cup {None} : Attached(i, k)' => Attached(i, k)
    BY <2>1 DEF Attached, Write, AskedInv
  <2>3. QED
    BY <2>1, <2>2, NothingAttached DEF AnonymousAlone
<1>8. CASE UNCHANGED vars
  BY <1>8 DEF vars, OneRowPerId, AnonymousAlone, Attached
<1>9. \A r \in Req : Anonymous(r) \/ Missed(r) => id[r] = None
  BY DEF Anonymous, Missed, AskedInv
<1>10. QED
  BY <1>1, <1>2, <1>3, <1>4, <1>5, <1>6, <1>7, <1>8, <1>9 DEF Next, Closure, Prepare, Query

\* Whatever fails, overlaps or crashes, devices that are not the same, and all
\* that limit tracking, keep apart.
THEOREM IdsAreNotShared == Spec => []DevicesNeverShareAnId
<1>1. TypeOK /\ AskedInv /\ OneRowPerId /\ AnonymousAlone => DevicesNeverShareAnId
  <2> SUFFICES ASSUME TypeOK, AskedInv, OneRowPerId, AnonymousAlone,
                      NEW r \in Req, NEW o \in Req,
                      r # o, id[r] # None, id[r] = id[o]
               PROVE  SameDevice(asked[r], asked[o])
    BY DEF DevicesNeverShareAnId
  <2>1. asked[r] \in Devices /\ asked[o] \in Devices
    BY DEF TypeOK, AskedInv
  <2>2. Attached(id[r], Key(r)) /\ Attached(id[r], Key(o))
    BY DEF Attached, AskedInv
  <2>3. Key(r) = Key(o) /\ Key(r) # None
    BY <2>1, <2>2, KeyOfType DEF OneRowPerId, AnonymousAlone, TypeOK, Key
  <2>4. QED
    BY <2>1, <2>3, SameRowSameDevice DEF Key
<1>2. QED
  BY <1>1, InitAttached, StepAttached, TypeCorrect, PTL DEF Spec

-----------------------------------------------------------------------------
(* As long as no lookup has missed a row, every identity under way to it   *)
(* is the one that is stored there.                                        *)

Missing(k) == \E r \in Req : asked[r] # None /\ Key(r) = k /\ lookup[r] = "missed"

AgreesUntilMissed ==
  \A k \in Keys : ~Missing(k) =>
    /\ \A w \in stray : w.key = k => w.id = known[k]
    /\ \A r \in Req : asked[r] # None /\ Key(r) = k /\ id[r] # None => id[r] = known[k]

\* A registration's lookup is decided by the step that gives it its identity.
LookupInv == \A r \in Req : id[r] = None => lookup[r] = "none"

\* No action decides a lookup without giving the registration its identity.
LEMMA StepLookup ==
  ASSUME TypeOK, AskedInv, LookupInv, [Next]_vars
  PROVE  LookupInv'
<1> USE DEF TypeOK, AskedInv, LookupInv
<1>1. ASSUME NEW r \in Req, Generate(r)
      PROVE  id'[r] # None /\ \A o \in Req \ {r} : id'[o] = id[o]
  BY <1>1, IfaAssumption DEF Generate, IfaAssumption
<1>2. ASSUME NEW r \in Req, Anonymous(r) \/ Missed(r) PROVE LookupInv'
  BY <1>1, <1>2 DEF Anonymous, Missed
<1>3. ASSUME NEW r \in Req, Found(r) PROVE LookupInv'
  BY <1>3 DEF Found, Key
<1>4. ASSUME UNCHANGED <<id, lookup>> PROVE LookupInv'
  BY <1>4
<1>5. QED
  BY <1>2, <1>3, <1>4
     DEF Next, Closure, Prepare, Query, vars, Begin, Acquire, Refuse, Abandon,
         OpenPool, Panic, SendLookup, Save, SaveFails, Settle, Crash

\* Before a lookup for a row has missed it, whatever is found in the row, written
\* to it or on its way there is the identity that is stored.
LEMMA StepAgrees ==
  ASSUME TypeOK, AskedInv, LookupInv, AgreesUntilMissed, [Next]_vars
  PROVE  /\ AgreesUntilMissed'
         /\ \A k \in Keys : known'[k] # known[k] => Missing(k) \/ known[k] = None
<1> DEFINE Goal ==
      /\ AgreesUntilMissed'
      /\ \A k \in Keys : known'[k] # known[k] => Missing(k) \/ known[k] = None
<1> USE DEF TypeOK, Key
<1>1. ASSUME NEW r \in Req, NEW d \in Devices, Begin(r, d) PROVE Goal
  <2>1. /\ id[r] = None /\ asked[r] = None /\ asked' = [asked EXCEPT ![r] = d]
        /\ UNCHANGED <<known, stray, id, lookup>>
    BY <1>1 DEF Begin, AskedInv
  <2>2. \A k \in Keys : Missing(k) => Missing(k)'
    BY <2>1 DEF Missing
  <2>3. QED
    BY <2>1, <2>2 DEF AgreesUntilMissed
<1>2. ASSUME NEW r \in Req,
             \/ Acquire(r) \/ Refuse(r) \/ Abandon(r) \/ OpenPool(r)
             \/ Panic(r) \/ SendLookup(r)
      PROVE  Goal
  <2>1. UNCHANGED <<known, stray, asked, id, lookup>>
    BY <1>2 DEF Acquire, Refuse, Abandon, OpenPool, Panic, SendLookup
  <2>2. QED
    BY <2>1 DEF AgreesUntilMissed, Missing
<1>3. ASSUME NEW r \in Req, Anonymous(r) \/ Missed(r) \/ Found(r) PROVE Goal
  <2>1. /\ asked[r] # None /\ lookup[r] = "none"
        /\ \A o \in Req \ {r} : id'[o] = id[o] /\ lookup'[o] = lookup[o]
        /\ UNCHANGED <<known, stray, asked>>
    BY <1>3 DEF Anonymous, Missed, Found, Generate, AskedInv, LookupInv
  <2>2. \/ Key(r) \notin Keys
        \/ lookup'[r] = "missed"
        \/ id'[r] = known[Key(r)]
    BY <1>3, IfaAssumption DEF Anonymous, Missed, Found, IfaAssumption
  <2>3. \A k \in Keys : Missing(k) => Missing(k)'
    BY <2>1 DEF Missing
  <2>4. \A k \in Keys : ~Missing(k)' => k # Key(r) \/ lookup'[r] # "missed"
    BY <2>1 DEF Missing
  <2>5. AgreesUntilMissed'
    BY <2>1, <2>2, <2>3, <2>4 DEF AgreesUntilMissed
  <2>6. QED
    BY <2>1, <2>5
<1>4. ASSUME NEW r \in Req, Save(r) \/ SaveFails(r) PROVE Goal
  <2>1. /\ Key(r) \in Keys /\ asked[r] # None /\ id[r] # None
        /\ \A k \in Keys : known'[k] = known[k] \/ (k = Key(r) /\ known'[k] = id[r])
        /\ stray' \in {stray, stray \cup {Write(r)}}
        /\ UNCHANGED <<asked, id, lookup>>
    BY <1>4 DEF Save, SaveFails, AskedInv
  <2>2. ASSUME NEW k \in Keys, ~Missing(k) PROVE known'[k] = known[k]
    BY <2>1, <2>2 DEF AgreesUntilMissed
  <2>3. \A k \in Keys : Missing(k)' <=> Missing(k)
    BY <2>1 DEF Missing
  <2>4. AgreesUntilMissed'
    BY <2>1, <2>2, <2>3 DEF AgreesUntilMissed, Write
  <2>5. QED
    BY <2>2, <2>4
<1>5. ASSUME NEW w \in stray, Settle(w) PROVE Goal
  <2>1. /\ \A k \in Keys : known'[k] = known[k] \/ (k = w.key /\ known'[k] = w.id)
        /\ stray' \subseteq stray
        /\ UNCHANGED <<asked, id, lookup>>
    BY <1>5 DEF Settle
  <2>2. ASSUME NEW k \in Keys, ~Missing(k) PROVE known'[k] = known[k]
    BY <2>1, <2>2 DEF AgreesUntilMissed
  <2>3. \A k \in Keys : Missing(k)' <=> Missing(k)
    BY <2>1 DEF Missing
  <2>4. AgreesUntilMissed'
    BY <2>1, <2>2, <2>3 DEF AgreesUntilMissed
  <2>5. QED
    BY <2>2, <2>4
<1>6. CASE Crash
  <2>1. /\ \A w \in stray' : w \in stray \/ \E r \in Req : step[r] = "saving" /\ w = Write(r)
        /\ UNCHANGED <<known, asked, id, lookup>>
    BY <1>6 DEF Crash
  <2>2. \A k \in Keys : Missing(k)' <=> Missing(k)
    BY <2>1 DEF Missing
  <2>3. AgreesUntilMissed'
    BY <2>1, <2>2 DEF AgreesUntilMissed, Write, AskedInv
  <2>4. QED
    BY <2>1, <2>3
<1>7. CASE UNCHANGED vars
  BY <1>7 DEF vars, AgreesUntilMissed, Missing
<1>8. QED
  BY <1>1, <1>2, <1>3, <1>4, <1>5, <1>6, <1>7 DEF Next, Closure, Prepare, Query

\* A stored identity is replaced only after a lookup for its row has missed it.
THEOREM IdsChangeOnlyAfterAMiss == Spec => ReplacedOnlyAfterAMiss
<1>1. Init => AgreesUntilMissed /\ LookupInv
  BY IfaAssumption DEF Init, AgreesUntilMissed, LookupInv
<1>2. TypeOK /\ AskedInv /\ LookupInv /\ AgreesUntilMissed /\ [Next]_vars =>
        /\ LookupInv' /\ AgreesUntilMissed'
        /\ [\A k \in Keys :
               known[k] # None /\ known'[k] # known[k] =>
                 \E r \in Req : asked[r] # None /\ Key(r) = k /\ lookup[r] = "missed"]_vars
  BY StepLookup, StepAgrees DEF Missing
<1>3. QED
  BY <1>1, <1>2, TypeCorrect, PTL DEF Spec, ReplacedOnlyAfterAMiss
=============================================================================
