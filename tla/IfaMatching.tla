------------------------------- MODULE IfaMatching -------------------------------
(***************************************************************************)
(* How a device that registers gets its identity: the closure that         *)
(* create_new_device runs on a blocking slot of the thread pool, with the  *)
(* lookup and the write it makes in the table gw_known_ifas.  The two are  *)
(* separate queries, so registrations of one device may interleave, here   *)
(* or from other replicas of the gateway.                                  *)
(*                                                                         *)
(* The database is external.  A read answers with the row, with no row, or *)
(* fails; a write is applied or fails, and one that nobody waits for any   *)
(* more may still be applied later.                                        *)
(***************************************************************************)
EXTENDS Naturals, FiniteSets

CONSTANTS
  None,
  Req,          \* registrations, each made once
  App,          \* application ids
  UuidApps,     \* the application ids that are UUIDs
  Ifa,          \* advertising identifiers (IFA) that are proper UUIDs
  NilIfa,       \* the all-zero IFA of devices that limit tracking
  Devices,      \* what the devices of this instance send
  Id,           \* device identities (version 4 UUIDs)
  PriorIds,     \* identities that earlier runs have stored
  MaxBlocking,  \* blocking slots of the thread pool
  PoolSize,     \* connections of the database pool
  DbFails,      \* BOOLEAN: the database may fail
  Overlap       \* BOOLEAN: one device may have several registrations in flight

Keys == App \X Ifa

Device == [app      : App,
           ifa      : Ifa \cup {NilIfa, "malformed", None},
           tracking : BOOLEAN]

ASSUME IfaAssumption ==
  /\ UuidApps \subseteq App
  /\ {NilIfa, "malformed", None} \cap Ifa = {}
  /\ Devices \subseteq Device
  /\ PriorIds \subseteq Id
  /\ None \notin Id
  /\ None \notin Keys
  /\ None \notin Device
  /\ None \notin [row : Keys \cup {None}, id : Id]
  /\ MaxBlocking \in Nat \ {0}
  /\ PoolSize \in Nat \ {0}
  /\ DbFails \in BOOLEAN
  /\ Overlap \in BOOLEAN

VARIABLES
  known,    \* gw_known_ifas: the identity stored for each (app_id, ifa)
  stray,    \* writes on their way that nobody waits for
  ifaPool,  \* the lazy_static cell IFA_MATCHING: "unset", "ready", "poisoned"
  step,     \* where each registration is
  asked,    \* the device each registration is for
  id,       \* the identity each registration has come to
  lookup,   \* what each registration's lookup has found
  issued    \* all identities in existence

vars == <<known, stray, ifaPool, step, asked, id, lookup, issued>>

InClosure == {"entered", "looking", "saving"}
Active    == {"waiting"} \cup InClosure
Finished  == {"done", "refused", "panicked", "gone"}
Steps     == {"idle"} \cup Active \cup Finished

-----------------------------------------------------------------------------
\* Faulty variant, for the sensitivity of the properties.
ParseIfaUntracked(d) == IF d.ifa \in Ifa THEN d.ifa ELSE None

\* The IFA, if it is a UUID, not the nil one, and the user allows tracking.
ParseIfa(d) == IF d.ifa \in Ifa /\ d.tracking THEN d.ifa ELSE None

\* The row of a device; None for a device that has no row.
KeyOf(d) == IF ParseIfa(d) # None /\ d.app \in UuidApps
              THEN <<d.app, ParseIfa(d)>>
              ELSE None

Key(r) == KeyOf(asked[r])

Goto(r, s) == step' = [step EXCEPT ![r] = s]

\* Faulty variant: a slot is not given back.
BusyForGood == {r \in Req : step[r] \in InClosure \cup {"done"}}

Busy == {r \in Req : step[r] \in InClosure}

\* Inside run_query.
Querying == {r \in Req : step[r] \in {"looking", "saving"}}

\* run_query fails if the database does, or if the pool has no connection to
\* give within its timeout.
QueryMayFail == DbFails \/ Cardinality(Querying) > PoolSize

-----------------------------------------------------------------------------
Init ==
  /\ known \in [Keys -> PriorIds \cup {None}]
  /\ \A j, k \in Keys : known[j] = known[k] => known[j] = None \/ j = k
  /\ stray = {}
  /\ ifaPool = "unset"
  /\ step = [r \in Req |-> "idle"]
  /\ asked = [r \in Req |-> None]
  /\ id = [r \in Req |-> None]
  /\ lookup = [r \in Req |-> "none"]
  /\ issued = PriorIds

\* Nothing is under way for this row: its device waits for an answer, and long
\* enough for a lost request's write, before it registers again.
Settled(k) ==
  /\ \A r \in Req : step[r] \in Active => Key(r) # k
  /\ \A w \in stray : w.key # k

\* A device without a usable XORC-Device-Id sends a register event.
Begin(r, d) ==
  /\ step[r] = "idle"
  /\ Overlap \/ KeyOf(d) = None \/ Settled(KeyOf(d))
  /\ Goto(r, "waiting")
  /\ asked' = [asked EXCEPT ![r] = d]
  /\ UNCHANGED <<known, stray, ifaPool, id, lookup, issued>>

\* blocking() is polled until the thread pool has a slot.
Acquire(r) ==
  /\ step[r] = "waiting"
  /\ Cardinality(Busy) < MaxBlocking
  /\ Goto(r, "entered")
  /\ UNCHANGED <<known, stray, ifaPool, asked, id, lookup, issued>>

\* blocking() fails; the request is answered 503.
Refuse(r) ==
  /\ step[r] = "waiting"
  /\ Goto(r, "refused")
  /\ UNCHANGED <<known, stray, ifaPool, asked, id, lookup, issued>>

\* The first use of the cell connects to the database, and panics if it cannot.
OpenPool(r) ==
  /\ step[r] = "entered"
  /\ ifaPool = "unset"
  /\ \/ ifaPool' = "ready"
     \/ DbFails /\ ifaPool' = "poisoned"
  /\ UNCHANGED <<known, stray, step, asked, id, lookup, issued>>

\* Every use of a poisoned cell panics, which ends the connection's task.
Panic(r) ==
  /\ step[r] = "entered"
  /\ ifaPool = "poisoned"
  /\ Goto(r, "panicked")
  /\ UNCHANGED <<known, stray, ifaPool, asked, id, lookup, issued>>

\* Faulty variant: random bytes that may come again.
GenerateWeak(r) ==
  \E i \in Id : id' = [id EXCEPT ![r] = i] /\ UNCHANGED issued

\* DeviceId::generate: a UUID that nobody else has.
Generate(r) ==
  \E i \in Id \ issued :
    /\ id' = [id EXCEPT ![r] = i]
    /\ issued' = issued \cup {i}

\* A device that has no row: neither query is made.
Anonymous(r) ==
  /\ step[r] = "entered"
  /\ ifaPool = "ready"
  /\ Key(r) = None
  /\ Generate(r)
  /\ lookup' = [lookup EXCEPT ![r] = "skipped"]
  /\ Goto(r, "done")
  /\ UNCHANGED <<known, stray, ifaPool, asked>>

SendLookup(r) ==
  /\ step[r] = "entered"
  /\ ifaPool = "ready"
  /\ Key(r) # None
  /\ Goto(r, "looking")
  /\ UNCHANGED <<known, stray, ifaPool, asked, id, lookup, issued>>

\* Faulty variant: a new identity whether or not there is a row.
FoundGenerates(r) ==
  /\ step[r] = "looking"
  /\ known[Key(r)] # None
  /\ Generate(r)
  /\ lookup' = [lookup EXCEPT ![r] = "found"]
  /\ Goto(r, "saving")
  /\ UNCHANGED <<known, stray, ifaPool, asked>>

Found(r) ==
  /\ step[r] = "looking"
  /\ known[Key(r)] # None
  /\ id' = [id EXCEPT ![r] = known[Key(r)]]
  /\ lookup' = [lookup EXCEPT ![r] = "found"]
  /\ Goto(r, "saving")
  /\ UNCHANGED <<known, stray, ifaPool, asked, issued>>

\* No row, or any failure on the way to it: the device gets a new identity.
Missed(r) ==
  /\ step[r] = "looking"
  /\ known[Key(r)] = None \/ QueryMayFail
  /\ Generate(r)
  /\ lookup' = [lookup EXCEPT ![r] = "missed"]
  /\ Goto(r, "saving")
  /\ UNCHANGED <<known, stray, ifaPool, asked>>

\* Faulty variant: the row is written for found identities only.
SaveFoundOnly(r) ==
  /\ step[r] = "saving"
  /\ known' = IF lookup[r] = "found" THEN [known EXCEPT ![Key(r)] = id[r]] ELSE known
  /\ Goto(r, "done")
  /\ UNCHANGED <<stray, ifaPool, asked, id, lookup, issued>>

\* put_id_for_ifa writes the identity, a found one too, over what is there now.
Save(r) ==
  /\ step[r] = "saving"
  /\ known' = [known EXCEPT ![Key(r)] = id[r]]
  /\ Goto(r, "done")
  /\ UNCHANGED <<stray, ifaPool, asked, id, lookup, issued>>

Write(r) == [key |-> Key(r), id |-> id[r]]

\* The result of put_id_for_ifa is ignored: the identity is handed out anyway.
SaveFails(r) ==
  /\ step[r] = "saving"
  /\ QueryMayFail
  /\ stray' = stray \cup {Write(r)}
  /\ Goto(r, "done")
  /\ UNCHANGED <<known, ifaPool, asked, id, lookup, issued>>

\* External: a stray write is applied, or is lost for good.
Settle(w) ==
  /\ stray' = stray \ {w}
  /\ known' \in {known, [known EXCEPT ![w.key] = w.id]}
  /\ UNCHANGED <<ifaPool, step, asked, id, lookup, issued>>

\* The client goes away.  The closure, once entered, runs to its end.
Abandon(r) ==
  /\ step[r] = "waiting"
  /\ Goto(r, "gone")
  /\ UNCHANGED <<known, stray, ifaPool, asked, id, lookup, issued>>

\* The process dies and is started again; only the table survives.
Crash ==
  /\ step' = [r \in Req |-> IF step[r] \in Active THEN "gone" ELSE step[r]]
  /\ stray' = stray \cup {Write(r) : r \in {o \in Req : step[o] = "saving"}}
  /\ ifaPool' = "unset"
  /\ UNCHANGED <<known, asked, id, lookup, issued>>

\* The closure as far as its first query.
Prepare(r) == OpenPool(r) \/ Panic(r) \/ Anonymous(r) \/ SendLookup(r)

\* run_query returns; it need not, since nothing limits how long an answer takes.
Query(r) == Found(r) \/ Missed(r) \/ Save(r) \/ SaveFails(r)

Closure(r) == Prepare(r) \/ Query(r)

Next ==
  \/ \E r \in Req :
       \/ \E d \in Devices : Begin(r, d)
       \/ Acquire(r) \/ Refuse(r) \/ Abandon(r)
       \/ Closure(r)
  \/ \E w \in stray : Settle(w)
  \/ Crash

Spec == Init /\ [][Next]_vars

\* A closure's thread runs up to its queries, and slots are given out in turn.
Fairness == \A r \in Req : WF_vars(Prepare(r)) /\ SF_vars(Acquire(r))

FairSpec == Spec /\ Fairness

-----------------------------------------------------------------------------
(* Properties.                                                             *)

\* Types; an identity that is in use anywhere has been issued.
TypeOK ==
  /\ known \in [Keys -> issued \cup {None}]
  /\ stray \in SUBSET [key : Keys, id : issued]
  /\ ifaPool \in {"unset", "ready", "poisoned"}
  /\ step \in [Req -> Steps]
  /\ asked \in [Req -> Devices \cup {None}]
  /\ id \in [Req -> issued \cup {None}]
  /\ lookup \in [Req -> {"none", "skipped", "found", "missed"}]
  /\ issued \in SUBSET Id

SameDevice(d, e) ==
  /\ d.app = e.app /\ d.ifa = e.ifa
  /\ d.ifa \in Ifa /\ d.app \in UuidApps
  /\ d.tracking /\ e.tracking

\* Two registrations come to one identity only if they are of one device of one
\* application that allows tracking (parse_ifa): users who limit tracking are
\* never merged with each other, whatever fails or overlaps.
DevicesNeverShareAnId ==
  \A r, o \in Req :
    r # o /\ id[r] # None /\ id[r] = id[o] => SameDevice(asked[r], asked[o])

\* A stored identity is replaced only when some lookup for its row came back
\* empty, by the race of two first registrations or by a failure that
\* get_id_for_ifa takes for "not found".
ReplacedOnlyAfterAMiss ==
  [][\A k \in Keys :
       known[k] # None /\ known'[k] # known[k] =>
         \E r \in Req : asked[r] # None /\ Key(r) = k /\ lookup[r] = "missed"]_vars

\* With a database that answers, connections for all blocking slots and devices
\* that register once at a time, a device keeps its identity, crashes of the
\* gateway between the lookup and the write included.  The assumptions are what
\* create_new_device itself does not ensure.
IdentityIsKept ==
  ~DbFails /\ ~Overlap /\ MaxBlocking <= PoolSize =>
    \A r, o \in Req :
      step[r] = "done" /\ step[o] = "done" /\ SameDevice(asked[r], asked[o])
        => id[r] = id[o]

\* What a registration that is done has been told.
ToldTo ==
  [r \in Req |-> IF step[r] = "done" THEN [row |-> Key(r), id |-> id[r]] ELSE None]

\* Under the same conditions the table is a directory in which each device has one
\* identity for good, and what registrations are told is what is in it: the lookup
\* and the write of create_new_device then look like one step.
Directory == INSTANCE IdentityDirectory WITH
  Rows <- Keys, directory <- known, told <- ToldTo

ServesDirectory == Directory!Spec

\* conn.query has no timeout: a query that is never answered holds its slot for
\* good.  SlotsReturn says that not all slots end that way, Answered that no query
\* of this registration does.
SlotsReturn == []<>(Cardinality(Querying) < MaxBlocking)
Answered(r) == []<>(r \notin Querying)

\* A registration that waits for a slot gets it or is turned away, unless queries
\* that are never answered hold every slot; with the slot it ends, also when the
\* cell is poisoned, unless it makes such a query itself.
RegistrationsEnd ==
  SlotsReturn =>
    \A r \in Req : Answered(r) => (step[r] = "waiting" ~> step[r] \in Finished)
=============================================================================
