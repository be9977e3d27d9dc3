----------------------------- MODULE DirectoryProofs -----------------------------
(***************************************************************************)
(* Theorems about device identities where nothing fails: the database      *)
(* answers, every blocking slot has a connection, and a device registers   *)
(* once at a time.  Then the lookup and the write of a registration look   *)
(* like one step of a directory, for any number of registrations, and in   *)
(* spite of crashes between the two.                                       *)
(***************************************************************************)
EXTENDS IfaMatchingProofs, FiniteSetTheorems

Orderly == ~DbFails /\ ~Overlap /\ MaxBlocking <= PoolSize

-----------------------------------------------------------------------------
(* The slots: no more closures run than there are connections.             *)

SlotsInv == IsFiniteSet(Busy) /\ Cardinality(Busy) <= MaxBlocking

\* No query fails for want of a connection.
LEMMA QueriesSucceed ==
  ASSUME TypeOK, Orderly, SlotsInv
  PROVE  ~QueryMayFail
<1>1. Querying \subseteq Busy
  BY DEF Querying, Busy, InClosure
<1>2. IsFiniteSet(Querying) /\ Cardinality(Querying) <= Cardinality(Busy)
  BY <1>1, FS_Subset DEF SlotsInv
<1>3. Cardinality(Querying) \in Nat /\ Cardinality(Busy) \in Nat
  BY <1>2, FS_CardinalityType DEF SlotsInv
<1>4. Cardinality(Querying) <= PoolSize
  BY <1>2, <1>3, IfaAssumption DEF SlotsInv, Orderly, IfaAssumption
<1>5. QED
  BY <1>3, <1>4, IfaAssumption DEF QueryMayFail, Orderly, IfaAssumption

\* Acquire takes a slot only if one is free; every other step keeps or returns it.
LEMMA StepSlots ==
  ASSUME TypeOK, SlotsInv, [Next]_vars
  PROVE  SlotsInv'
<1>1. ASSUME Busy' \subseteq Busy PROVE SlotsInv'
  <2>1. IsFiniteSet(Busy') /\ Cardinality(Busy') <= Cardinality(Busy)
    BY <1>1, FS_Subset DEF SlotsInv
  <2>2. Cardinality(Busy') \in Nat /\ Cardinality(Busy) \in Nat
    BY <2>1, FS_CardinalityType DEF SlotsInv
  <2>3. QED
    BY <2>1, <2>2, IfaAssumption DEF SlotsInv, IfaAssumption
<1>2. ASSUME NEW r \in Req, Acquire(r) PROVE SlotsInv'
  <2>1. Busy' = Busy \cup {r} /\ r \notin Busy /\ Cardinality(Busy) < MaxBlocking
    BY <1>2 DEF Acquire, TypeOK, Busy, InClosure, Goto
  <2>2. IsFiniteSet(Busy') /\ Cardinality(Busy') = Cardinality(Busy) + 1
    BY <2>1, FS_AddElement DEF SlotsInv
  <2>3. Cardinality(Busy) \in Nat
    BY FS_CardinalityType DEF SlotsInv
  <2>4. QED
    BY <2>1, <2>2, <2>3, IfaAssumption DEF SlotsInv, IfaAssumption
<1>3. ASSUME NEW r \in Req,
             \/ \E d \in Devices : Begin(r, d)
             \/ Refuse(r) \/ Abandon(r) \/ Closure(r)
      PROVE  Busy' \subseteq Busy
  BY <1>3 DEF Begin, Refuse, Abandon, Closure, Prepare, Query,
              OpenPool, Panic, Anonymous, SendLookup, Found, Missed, Save, SaveFails, TypeOK, Busy, InClosure, Goto
<1>4. ASSUME (\E w \in stray : Settle(w)) \/ Crash \/ UNCHANGED vars
      PROVE  Busy' \subseteq Busy
  BY <1>4 DEF Settle, Crash, vars, TypeOK, Busy, InClosure, Active
<1>5. QED
  BY <1>1, <1>2, <1>3, <1>4 DEF Next

-----------------------------------------------------------------------------
(* One registration of a row at a time.                                    *)

AloneInv ==
  /\ \A r, o \in Req :
       step[r] \in Active /\ step[o] \in Active /\ Key(r) = Key(o) /\ Key(r) # None
         => r = o
  /\ \A r \in Req, w \in stray : step[r] \in Active => w.key # Key(r)
  /\ \A w, v \in stray : w.key = v.key => w = v

\* Begin waits until nothing is under way for its row; what a crash leaves behind
\* is one stray write at most.
LEMMA StepAlone ==
  ASSUME TypeOK, AskedInv, AloneInv, Orderly, ~QueryMayFail, [Next]_vars
  PROVE  AloneInv'
<1> USE DEF TypeOK, AloneInv, Active, InClosure, Goto, Key
<1>1. ASSUME NEW r \in Req, NEW d \in Devices, Begin(r, d) PROVE AloneInv'
  <2>1. /\ step' = [step EXCEPT ![r] = "waiting"] /\ asked' = [asked EXCEPT ![r] = d]
        /\ UNCHANGED stray
        /\ KeyOf(d) = None \/ Settled(KeyOf(d))
    BY <1>1 DEF Begin, Orderly
  <2>2. \A w \in stray : w.key # None
    BY IfaAssumption DEF IfaAssumption
  <2>3. \A o \in Req : o # r /\ step[o] \in Active /\ KeyOf(d) # None => Key(o) # KeyOf(d)
    BY <2>1 DEF Settled
  <2>4. \A w \in stray : w.key # KeyOf(d)
    BY <2>1, <2>2 DEF Settled
  <2>5. QED
    BY <2>1, <2>3, <2>4
<1>2. ASSUME NEW r \in Req, Acquire(r) \/ Refuse(r) \/ Abandon(r) \/ Closure(r)
      PROVE  AloneInv'
  <2>1. UNCHANGED <<asked, stray>>
    BY <1>2 DEF Acquire, Refuse, Abandon, Closure, Prepare, Query,
                OpenPool, Panic, Anonymous, SendLookup, Found, Missed, Save, SaveFails
  <2>2. \A o \in Req : step'[o] \in Active => step[o] \in Active
    BY <1>2 DEF Acquire, Refuse, Abandon, Closure, Prepare, Query,
                OpenPool, Panic, Anonymous, SendLookup, Found, Missed, Save, SaveFails
  <2>3. QED
    BY <2>1, <2>2
<1>3. ASSUME NEW w \in stray, Settle(w) PROVE AloneInv'
  BY <1>3 DEF Settle
<1>4. CASE Crash
  <2>1. \A r \in Req : step'[r] \notin Active
    BY <1>4 DEF Crash
  <2>2. \A w \in stray' : w \in stray \/ \E r \in Req : step[r] = "saving" /\ w = Write(r)
    BY <1>4 DEF Crash
  <2>3. \A r \in Req : step[r] = "saving" => Write(r).key = Key(r) /\ Key(r) # None
    BY IfaAssumption DEF Write, AskedInv, IfaAssumption
  <2>4. \A w, v \in stray' : w.key = v.key => w = v
    BY <2>2, <2>3
  <2>5. QED
    BY <2>1, <2>4
<1>5. CASE UNCHANGED vars
  BY <1>5 DEF vars
<1>6. QED
  BY <1>1, <1>2, <1>3, <1>4, <1>5 DEF Next

-----------------------------------------------------------------------------
(* What is stored in a row is what everybody at this row has or writes.    *)

KeptInv ==
  /\ \A r \in Req : step[r] = "saving" => known[Key(r)] \in {None, id[r]}
  /\ \A w \in stray : known[w.key] \in {None, w.id}
  /\ \A r \in Req : step[r] = "done" => id[r] # None
  /\ \A r \in Req : step[r] = "done" /\ Key(r) # None => known[Key(r)] = id[r]

OrderInv == AloneInv /\ KeptInv /\ SlotsInv

\* The identity that a row is about to get is nobody's yet.
LEMMA WrittenIsFresh ==
  ASSUME TypeOK, AskedInv, OneRowPerId, KeptInv,
         NEW k \in Keys, NEW i \in issued, known[k] = None, Attached(i, k)
  PROVE  i \in Directory!Fresh
<1>1. i # None /\ i \in Id
  BY IfaAssumption DEF TypeOK, IfaAssumption
<1>2. \A j \in Keys : known[j] # i
  BY <1>1 DEF OneRowPerId, Attached
<1>3. ASSUME NEW r \in Req, step[r] = "done" PROVE id[r] # i
  <2>1. asked[r] # None /\ Key(r) \in Keys \cup {None}
    BY <1>3, KeyOfType DEF KeptInv, AskedInv, TypeOK, Key
  <2>2. SUFFICES ASSUME id[r] = i PROVE FALSE
    OBVIOUS
  <2>3. Key(r) = k
    BY <2>1, <2>2 DEF OneRowPerId, Attached
  <2>4. k # None
    BY IfaAssumption DEF IfaAssumption
  <2>5. QED
    BY <1>1, <1>3, <2>2, <2>3, <2>4 DEF KeptInv
<1>4. \A r \in Directory!Told : ToldTo[r].id # i
  BY <1>3 DEF Directory!Told, ToldTo
<1>5. QED
  BY <1>1, <1>2, <1>4 DEF Directory!Fresh

\* A step that writes an identity to a row that has none, or has this one.
LEMMA RowKept ==
  ASSUME TypeOK, AskedInv, AloneInv, KeptInv,
         NEW k \in Keys, NEW i \in issued, known[k] \in {None, i},
         known' = [known EXCEPT ![k] = i],
         UNCHANGED <<asked, id>>,
         \A r \in Req : step[r] = "saving" /\ step'[r] = "saving" => Key(r) # k,
         \A r \in Req : step'[r] = "saving" => step[r] = "saving",
         stray' \subseteq stray,
         \A w \in stray' : w.key # k,
         \A r \in Req : step'[r] = "done" =>
           step[r] = "done" \/ (Key(r) = k /\ id[r] = i)
  PROVE  KeptInv'
<1> USE DEF TypeOK, Key
<1>1. i # None /\ k # None
  BY IfaAssumption DEF TypeOK, IfaAssumption
<1>2. \A j \in Keys : known'[j] = IF j = k THEN i ELSE known[j]
  OBVIOUS
<1>3. \A r \in Req : step'[r] = "saving" => known'[Key(r)'] \in {None, id'[r]}
  BY <1>2 DEF KeptInv, AskedInv
<1>4. \A w \in stray' : known'[w.key] \in {None, w.id}
  BY <1>2 DEF KeptInv
<1>5. \A r \in Req : step'[r] = "done" => id'[r] # None
  BY <1>1 DEF KeptInv
<1>6. ASSUME NEW r \in Req, step'[r] = "done", Key(r)' # None
      PROVE  known'[Key(r)'] = id'[r]
  <2>1. Key(r)' = Key(r) /\ id'[r] = id[r]
    OBVIOUS
  <2>2. CASE step[r] = "done"
    <3>1. Key(r) \in Keys
      BY <1>6, <2>1, <2>2, KeyOfType DEF KeptInv, AskedInv
    <3>2. known[Key(r)] = id[r] /\ id[r] # None
      BY <1>6, <2>1, <2>2 DEF KeptInv
    <3>3. QED
      BY <1>2, <2>1, <3>1, <3>2
  <2>3. CASE Key(r) = k /\ id[r] = i
    BY <1>2, <2>1, <2>3
  <2>4. QED
    BY <1>6, <2>2, <2>3
<1>7. QED
  BY <1>3, <1>4, <1>5, <1>6 DEF KeptInv

\* Each step of a registration preserves KeptInv; only Save and a stray write that
\* is applied change a row.
LEMMA StepKept ==
  ASSUME TypeOK, AskedInv, AloneInv, KeptInv, Orderly, ~QueryMayFail, [Next]_vars
  PROVE  KeptInv'
<1> USE DEF TypeOK, Key, Goto
<1>1. ASSUME NEW r \in Req, NEW d \in Devices, Begin(r, d) PROVE KeptInv'
  BY <1>1 DEF Begin, KeptInv
<1>2. ASSUME NEW r \in Req,
             \/ Acquire(r) \/ Refuse(r) \/ Abandon(r) \/ OpenPool(r)
             \/ Panic(r) \/ SendLookup(r)
      PROVE  KeptInv'
  <2>1. /\ UNCHANGED <<known, stray, asked, id>>
        /\ \A o \in Req : step'[o] \in {"saving", "done"} => step[o] = step'[o]
    BY <1>2 DEF Acquire, Refuse, Abandon, OpenPool, Panic, SendLookup
  <2>2. QED
    BY <2>1 DEF KeptInv
<1>3. ASSUME NEW r \in Req, Anonymous(r) PROVE KeptInv'
  <2>1. PICK i \in Id \ issued : id' = [id EXCEPT ![r] = i]
    BY <1>3 DEF Anonymous, Generate
  <2>2. i # None
    BY IfaAssumption DEF IfaAssumption
  <2>3. Key(r) = None /\ step' = [step EXCEPT ![r] = "done"]
        /\ UNCHANGED <<known, stray, asked>>
    BY <1>3 DEF Anonymous
  <2>4. QED
    BY <2>1, <2>2, <2>3 DEF KeptInv
<1>4. ASSUME NEW r \in Req, Found(r) \/ Missed(r) PROVE KeptInv'
  <2>1. /\ step' = [step EXCEPT ![r] = "saving"]
        /\ \A o \in Req \ {r} : id'[o] = id[o]
        /\ UNCHANGED <<known, stray, asked>>
    BY <1>4 DEF Found, Missed, Generate
  <2>2. known[Key(r)] \in {None, id'[r]}
    BY <1>4 DEF Found, Missed, AskedInv
  <2>3. QED
    BY <2>1, <2>2 DEF KeptInv
<1>5. ASSUME NEW r \in Req, Save(r) PROVE KeptInv'
  <2>1. /\ known' = [known EXCEPT ![Key(r)] = id[r]]
        /\ step' = [step EXCEPT ![r] = "done"]
        /\ UNCHANGED <<stray, asked, id>>
    BY <1>5 DEF Save
  <2>2. /\ step[r] = "saving" /\ Key(r) \in Keys /\ id[r] \in issued
        /\ known[Key(r)] \in {None, id[r]}
    BY <1>5 DEF Save, AskedInv, KeptInv
  <2>3. Key(r) # None
    BY <2>2, IfaAssumption DEF IfaAssumption
  <2>4. \A o \in Req : step[o] = "saving" /\ Key(o) = Key(r) => o = r
    BY <2>2, <2>3 DEF AloneInv, Active, InClosure
  <2>5. \A w \in stray : w.key # Key(r)
    BY <2>2 DEF AloneInv, Active, InClosure
  <2>6. QED
    BY <2>1, <2>2, <2>4, <2>5, RowKept
<1>6. ASSUME NEW w \in stray, Settle(w) PROVE KeptInv'
  <2>1. stray' = stray \ {w} /\ UNCHANGED <<step, asked, id>>
    BY <1>6 DEF Settle
  <2>2. CASE known' = known
    BY <2>1, <2>2 DEF KeptInv
  <2>3. CASE known' = [known EXCEPT ![w.key] = w.id]
    <3>1. w.key \in Keys /\ w.id \in issued /\ known[w.key] \in {None, w.id}
      BY DEF KeptInv
    <3>2. \A o \in Req : step[o] = "saving" => Key(o) # w.key
      BY DEF AloneInv, Active, InClosure
    <3>3. \A v \in stray' : v.key # w.key
      BY <2>1 DEF AloneInv
    <3>4. QED
      BY <2>1, <2>3, <3>1, <3>2, <3>3, RowKept
  <2>4. QED
    BY <1>6, <2>2, <2>3 DEF Settle
<1>7. CASE Crash
  <2>1. /\ \A w \in stray' : w \in stray \/ \E r \in Req : step[r] = "saving" /\ w = Write(r)
        /\ \A r \in Req : step'[r] \in {"saving", "done"} => step[r] = step'[r]
        /\ UNCHANGED <<known, asked, id>>
    BY <1>7 DEF Crash, Active, InClosure
  <2>2. QED
    BY <2>1 DEF KeptInv, Write
<1>8. CASE UNCHANGED vars
  BY <1>8 DEF vars, KeptInv
<1>9. ASSUME NEW r \in Req, SaveFails(r) PROVE FALSE
  BY <1>9 DEF SaveFails
<1>10. QED
  BY <1>1, <1>2, <1>3, <1>4, <1>5, <1>6, <1>7, <1>8, <1>9 DEF Next, Closure, Prepare, Query

-----------------------------------------------------------------------------
(* The refinement.                                                         *)

\* A step that tells nobody and writes nothing.
LEMMA SilentStep ==
  ASSUME TypeOK, UNCHANGED known,
         \A o \in Req : step'[o] = "done" <=> step[o] = "done",
         \A o \in Req : step[o] = "done" => asked'[o] = asked[o] /\ id'[o] = id[o]
  PROVE  UNCHANGED Directory!vars
BY DEF Directory!vars, ToldTo, Key

\* The step with which a registration is done tells its row and its identity.
LEMMA TellingStep ==
  ASSUME TypeOK, NEW r \in Req, NEW k, NEW i, step[r] # "done",
         step' = [step EXCEPT ![r] = "done"],
         UNCHANGED asked, Key(r) = k, id' = [id EXCEPT ![r] = i]
  PROVE  Directory!Tell(r, k, i)
<1>1. ToldTo[r] = None
  BY DEF ToldTo
<1>2. \A o \in Req : ToldTo'[o] = IF o = r THEN [row |-> k, id |-> i] ELSE ToldTo[o]
  BY DEF ToldTo, TypeOK, Key
<1>3. ToldTo' = [ToldTo EXCEPT ![r] = [row |-> k, id |-> i]]
  BY <1>2 DEF ToldTo
<1>4. QED
  BY <1>1, <1>3 DEF Directory!Tell

\* An identity that is written to a row is the row's, or is entered there.
LEMMA WritingStep ==
  ASSUME TypeOK, AskedInv, OneRowPerId, KeptInv,
         NEW k \in Keys, NEW i \in issued, known[k] \in {None, i}, Attached(i, k),
         known' = [known EXCEPT ![k] = i]
  PROVE  \/ known[k] = i /\ i # None /\ known' = known
         \/ Directory!Enter(k, i)
<1>1. i # None
  BY IfaAssumption DEF TypeOK, IfaAssumption
<1>2. CASE known[k] = i
  BY <1>1, <1>2 DEF TypeOK
<1>3. CASE known[k] = None
  BY <1>3, WrittenIsFresh DEF Directory!Enter
<1>4. QED
  BY <1>2, <1>3

\* Every step of a registration, of a stray write and of a crash is a step of the
\* directory, or changes nothing in it.
LEMMA StepServes ==
  ASSUME TypeOK, AskedInv, OneRowPerId, AnonymousAlone, AloneInv, KeptInv,
         Orderly, ~QueryMayFail, [Next]_vars
  PROVE  [Directory!Next]_(Directory!vars)
<1> USE DEF TypeOK, Goto
<1>1. ASSUME NEW r \in Req, NEW d \in Devices, Begin(r, d)
      PROVE  UNCHANGED Directory!vars
  BY <1>1, SilentStep DEF Begin
<1>2. ASSUME NEW r \in Req,
             \/ Acquire(r) \/ Refuse(r) \/ Abandon(r) \/ OpenPool(r)
             \/ Panic(r) \/ SendLookup(r)
      PROVE  UNCHANGED Directory!vars
  BY <1>2, SilentStep DEF Acquire, Refuse, Abandon, OpenPool, Panic, SendLookup
<1>3. ASSUME NEW r \in Req, Found(r) \/ Missed(r) PROVE UNCHANGED Directory!vars
  BY <1>3, SilentStep DEF Found, Missed, Generate
<1>4. ASSUME NEW r \in Req, Anonymous(r) PROVE Directory!Next
  <2>1. PICK i \in Id \ issued : id' = [id EXCEPT ![r] = i]
    BY <1>4 DEF Anonymous, Generate
  <2>2. Directory!Tell(r, None, i) /\ UNCHANGED known
    BY <1>4, <2>1, TellingStep DEF Anonymous
  <2>3. \A k \in Keys : known[k] # i
    BY <2>1, IfaAssumption DEF IfaAssumption
  <2>4. \A o \in Directory!Told : ToldTo[o].id # i
    BY <2>1, IfaAssumption DEF Directory!Told, ToldTo, IfaAssumption
  <2>5. i \in Directory!Fresh
    BY <2>1, <2>3, <2>4 DEF Directory!Fresh
  <2>6. QED
    BY <2>2, <2>5 DEF Directory!Next, Directory!TellStranger
<1>5. ASSUME NEW r \in Req, Save(r) PROVE Directory!Next
  <2>1. /\ step[r] = "saving" /\ Key(r) \in Keys /\ id[r] \in issued
        /\ known[Key(r)] \in {None, id[r]} /\ Attached(id[r], Key(r))
        /\ known' = [known EXCEPT ![Key(r)] = id[r]]
    BY <1>5 DEF Save, AskedInv, KeptInv, Attached
  <2>2. id' = [id EXCEPT ![r] = id[r]]
    BY <1>5 DEF Save
  <2>3. Directory!Tell(r, Key(r), id[r])
    BY <1>5, <2>1, <2>2, TellingStep DEF Save
  <2>4. CASE known[Key(r)] = id[r] /\ id[r] # None /\ known' = known
    BY <2>1, <2>3, <2>4 DEF Directory!Next, Directory!Recognise
  <2>5. CASE Directory!Enter(Key(r), id[r])
    BY <2>1, <2>3, <2>5 DEF Directory!Next, Directory!Enroll
  <2>6. QED
    BY <2>1, <2>4, <2>5, WritingStep
<1>6. ASSUME NEW w \in stray, Settle(w) PROVE [Directory!Next]_(Directory!vars)
  <2>1. UNCHANGED ToldTo
    BY <1>6 DEF Settle, ToldTo, Key
  <2>2. CASE known' = known
    BY <2>1, <2>2 DEF Directory!vars
  <2>3. CASE known' = [known EXCEPT ![w.key] = w.id]
    <3>1. /\ w.key \in Keys /\ w.id \in issued /\ known[w.key] \in {None, w.id}
          /\ Attached(w.id, w.key)
      BY DEF KeptInv, Attached
    <3>2. known' = known \/ Directory!Enter(w.key, w.id)
      BY <2>3, <3>1, WritingStep
    <3>3. QED
      BY <2>1, <3>1, <3>2
         DEF Directory!Next, Directory!EnrollUnheard, Directory!vars
  <2>4. QED
    BY <1>6, <2>2, <2>3 DEF Settle
<1>7. CASE Crash
  <2>1. \A o \in Req : step'[o] = "done" <=> step[o] = "done"
    BY <1>7 DEF Crash, Active, InClosure
  <2>2. QED
    BY <1>7, <2>1, SilentStep DEF Crash
<1>8. CASE UNCHANGED vars
  BY <1>8, SilentStep DEF vars
<1>9. ASSUME NEW r \in Req, SaveFails(r) PROVE FALSE
  BY <1>9 DEF SaveFails
<1>10. QED
  BY <1>1, <1>2, <1>3, <1>4, <1>5, <1>6, <1>7, <1>8, <1>9 DEF Next, Closure, Prepare, Query

-----------------------------------------------------------------------------
\* Where nothing has begun, nothing is under way and nobody has been told.
LEMMA InitOrder == Init => OrderInv /\ Directory!Init
<1> SUFFICES ASSUME Init PROVE OrderInv /\ Directory!Init
  OBVIOUS
<1>1. Busy = {}
  BY DEF Init, Busy, InClosure
<1>2. SlotsInv
  BY <1>1, FS_EmptySet, IfaAssumption DEF SlotsInv, IfaAssumption
<1>3. AloneInv /\ KeptInv
  BY DEF Init, AloneInv, KeptInv, Active, InClosure
<1>4. Directory!Init
  BY IfaAssumption DEF Init, Directory!Init, ToldTo, IfaAssumption
<1>5. QED
  BY <1>2, <1>3, <1>4 DEF OrderInv

\* The order is kept from step to step, and so is the directory.
LEMMA StepOrder ==
  ASSUME TypeOK, AskedInv, OneRowPerId, AnonymousAlone, OrderInv, Orderly, [Next]_vars
  PROVE  OrderInv' /\ [Directory!Next]_(Directory!vars)
<1>1. ~QueryMayFail
  BY QueriesSucceed DEF OrderInv
<1>2. QED
  BY <1>1, StepSlots, StepAlone, StepKept, StepServes DEF OrderInv

\* Where nothing fails and no device overtakes itself, the lookup and the write of
\* a registration are one step of a directory of devices, whatever else is in
\* flight and wherever the process dies.
THEOREM ImplementsDirectory == Orderly => (Spec => ServesDirectory)
<1> SUFFICES ASSUME Orderly PROVE Spec => ServesDirectory
  OBVIOUS
<1>1. /\ TypeOK /\ AskedInv /\ OneRowPerId /\ AnonymousAlone /\ OrderInv
      /\ [Next]_vars
      => OrderInv' /\ [Directory!Next]_(Directory!vars)
  BY StepOrder
<1>2. QED
  BY <1>1, InitOrder, InitAttached, StepAttached, TypeCorrect, PTL
     DEF Spec, ServesDirectory, Directory!Spec

\* Under these conditions two registrations of one device that are both done have
\* been given the same identity.
THEOREM IdentitiesAreKept == Spec => []IdentityIsKept
<1> DEFINE Ordered == Orderly => OrderInv
<1>1. Init => Ordered
  BY InitOrder
<1>2. TypeOK /\ AskedInv /\ OneRowPerId /\ AnonymousAlone /\ Ordered /\ [Next]_vars
      => Ordered'
  BY StepOrder DEF Orderly
<1>3. TypeOK /\ AskedInv /\ Ordered => IdentityIsKept
  <2> SUFFICES ASSUME TypeOK, AskedInv, OrderInv,
                      NEW r \in Req, NEW o \in Req,
                      step[r] = "done", step[o] = "done",
                      SameDevice(asked[r], asked[o])
               PROVE  id[r] = id[o]
    BY DEF IdentityIsKept, Orderly
  <2>1. id[r] # None /\ id[o] # None
    BY DEF OrderInv, KeptInv
  <2>2. Key(r) = Key(o) /\ Key(r) # None
    BY IfaAssumption DEF IfaAssumption, SameDevice, Key, KeyOf, ParseIfa, Keys
  <2>3. QED
    BY <2>1, <2>2 DEF OrderInv, KeptInv
<1> HIDE DEF Ordered
<1>4. QED
  BY <1>1, <1>2, <1>3, InitAttached, StepAttached, TypeCorrect, PTL DEF Spec
=============================================================================
