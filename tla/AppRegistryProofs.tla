--------------------------- MODULE AppRegistryProofs ---------------------------
(***************************************************************************)
(* Theorems about the application registry, for every set of applications, *)
(* tables and configurations: its types, the bound on updates that begin   *)
(* after the shutdown, and that it implements AppSnapshots.                *)
(***************************************************************************)
EXTENDS AppRegistry, TLAPS

USE DEF dbVars, cellVars, updaterVars, stopVars

\* What the conversion of a table's rows yields is an application map.
LEMMA LoadedAppsType == \A t \in Tables : LoadedApps(t) \in AppMap
<1>1. \A raw \in RawSecret : CreateKey(raw) \in Secret \cup {None}
  BY DEF RawSecret, CreateKey
<1>2. \A raw \in RawApplication : CreateApp(raw) \in Application
  BY <1>1 DEF RawApplication, CreateApp, Application
<1>3. \A t \in Tables : \A x \in App : t[x] \in RawApplication \cup {None}
  BY RegistryAssumption DEF RegistryAssumption
<1>4. QED
  BY <1>2, <1>3 DEF LoadedApps, AppMap

\* So is the empty map, with which the cell begins.
LEMMA NoAppsType == NoApps \in AppMap
BY DEF NoApps, AppMap

-----------------------------------------------------------------------------
\* Types, through every interleaving of initialiser, updater and main.
THEOREM TypeCorrect == Spec => []TypeOK
<1>1. Init => TypeOK
  <2> SUFFICES ASSUME Init PROVE TypeOK
    OBVIOUS
  <2>1. apps \in AppMap /\ rows \in AppMap
    BY NoAppsType DEF Init
  <2>2. late \in 0 .. LateBound
    BY DEF Init, LateBound
  <2>3. QED
    BY <2>1, <2>2 DEF Init, TypeOK, UpdaterStates, MainStates
<1>2. TypeOK /\ [Next]_vars => TypeOK'
  <2> SUFFICES ASSUME TypeOK, [Next]_vars PROVE TypeOK'
    OBVIOUS
  <2> USE DEF TypeOK, UpdaterStates, MainStates, LateBound
  <2>1. CASE Initialize
    BY <2>1, LoadedAppsType, NoAppsType, RegistryAssumption
       DEF Initialize, Ready, RegistryAssumption
  <2>2. CASE StartUpdater
    BY <2>2 DEF StartUpdater
  <2>3. CASE CheckControl
    BY <2>3 DEF CheckControl
  <2>4. CASE KeepApps
    BY <2>4 DEF KeepApps
  <2>5. CASE FetchRows
    BY <2>5, LoadedAppsType DEF FetchRows
  <2>6. CASE FetchNoRows
    BY <2>6, NoAppsType DEF FetchNoRows
  <2>7. CASE SwapApps
    BY <2>7 DEF SwapApps
  <2>8. CASE Unparked
    BY <2>8 DEF Unparked
  <2>9. CASE StoreControl \/ Unpark \/ Join
    BY <2>9 DEF StoreControl, Unpark, Join
  <2>10. CASE \E t \in Tables : ChangeTable(t)
    BY <2>10 DEF ChangeTable
  <2>11. CASE UNCHANGED vars
    BY <2>11 DEF vars
  <2>12. QED
    BY <2>1, <2>2, <2>3, <2>4, <2>5, <2>6, <2>7, <2>8, <2>9, <2>10, <2>11
       DEF Next, Updater
<1>3. QED
  BY <1>1, <1>2, PTL DEF Spec

-----------------------------------------------------------------------------
(* The bound on late updates.  A count of one is as far as it goes because *)
(* an updater that is back at the check has parked since, and the token it *)
(* found there carries main's store of the flag with it.                   *)

ShutdownInv ==
  /\ main # "serving" => ~control
  /\ main = "serving" \/ main = "stopping" => late = 0 /\ ~token /\ ~synced
  /\ main # "serving" /\ main # "stopping" => token \/ synced
  /\ updater = "start" => late = 0
  /\ late # 0 /\ updater = "check" => synced
  /\ late <= 1

\* main waits for at most one update that begins after its unpark, in spite of
\* the relaxed load of the control flag.
THEOREM LateUpdatesBounded == Spec => []OneLateUpdate
<1>1. Init => ShutdownInv
  BY DEF Init, ShutdownInv
<1>2. TypeOK /\ ShutdownInv /\ [Next]_vars => ShutdownInv'
  <2> SUFFICES ASSUME TypeOK, ShutdownInv, [Next]_vars PROVE ShutdownInv'
    OBVIOUS
  <2> USE DEF ShutdownInv, TypeOK, UpdaterStates, MainStates, LateBound
  <2>1. CASE Initialize
    BY <2>1 DEF Initialize
  <2>2. CASE StartUpdater
    BY <2>2 DEF StartUpdater
  <2>3. CASE CheckControl
    <3>1. PICK running \in ControlSeen :
             /\ updater' = IF running THEN "update" ELSE "exited"
             /\ late' = IF running /\ main = "joining" /\ late < LateBound
                          THEN late + 1 ELSE late
      BY <2>3 DEF CheckControl
    <3>2. main = "joining" /\ running => ~synced
      BY <3>1 DEF ControlSeen
    <3>3. late' <= 1 /\ (late' # 0 => late' = late \/ main = "joining")
      BY <2>3, <3>1, <3>2 DEF CheckControl
    <3>4. updater' # "check" /\ updater' # "start"
      BY <3>1
    <3>5. UNCHANGED <<control, token, synced, main>>
      BY <2>3 DEF CheckControl
    <3>6. QED
      BY <3>3, <3>4, <3>5
  <2>4. CASE FetchRows \/ KeepApps \/ FetchNoRows \/ SwapApps
    BY <2>4 DEF FetchRows, KeepApps, FetchNoRows, SwapApps
  <2>5. CASE Unparked
    BY <2>5 DEF Unparked
  <2>6. CASE StoreControl
    BY <2>6 DEF StoreControl
  <2>7. CASE Unpark
    BY <2>7 DEF Unpark
  <2>8. CASE Join
    BY <2>8 DEF Join
  <2>9. CASE \E t \in Tables : ChangeTable(t)
    BY <2>9 DEF ChangeTable
  <2>10. CASE UNCHANGED vars
    BY <2>10 DEF vars
  <2>11. QED
    BY <2>1, <2>2, <2>3, <2>4, <2>5, <2>6, <2>7, <2>8, <2>9, <2>10
       DEF Next, Updater
<1>3. ShutdownInv => OneLateUpdate
  BY DEF ShutdownInv, OneLateUpdate
<1>4. QED
  BY <1>1, <1>2, <1>3, TypeCorrect, PTL DEF Spec

-----------------------------------------------------------------------------
(* The refinement.  Between a fetch and its swap the rows are a complete   *)
(* table content, and an updater that runs has found the cell ready.       *)

UpdateInv ==
  /\ updater = "swap" => ManageApps /\ rows \in Snapshots
  /\ updater \in {"check", "update", "swap", "park", "exited"} => registry = "ready"

\* The registry implements the cell that the request handlers rely on.
THEOREM ImplementsSnapshots == Spec => ServesSnapshots
<1>1. Init => UpdateInv /\ Snap!Init
  BY DEF Init, UpdateInv, Snap!Init
<1>2. TypeOK /\ UpdateInv /\ [Next]_vars => UpdateInv' /\ [Snap!Next]_(Snap!vars)
  <2> SUFFICES ASSUME TypeOK, UpdateInv, [Next]_vars
               PROVE  UpdateInv' /\ [Snap!Next]_(Snap!vars)
    OBVIOUS
  <2> USE DEF UpdateInv, Snap!vars
  <2>1. CASE Initialize
    <3>1. UpdateInv'
      BY <2>1, RegistryAssumption
         DEF Initialize, Ready, TypeOK, RegistryAssumption
    <3>2. \A m \in Snapshots : Ready(m) => Snap!Load(m)
      BY <2>1 DEF Initialize, Ready, Snap!Load
    <3>3. Snap!Next
      BY <2>1, <3>2, RegistryAssumption
         DEF Initialize, Snapshots, Snap!Next, Snap!Poison, TypeOK,
             RegistryAssumption
    <3>4. QED
      BY <3>1, <3>3
  <2>2. CASE SwapApps
    BY <2>2 DEF SwapApps, Snap!Next, Snap!Swap
  <2>3. CASE FetchRows
    BY <2>3, RegistryAssumption
       DEF FetchRows, Snapshots, TypeOK, RegistryAssumption
  <2>4. CASE FetchNoRows
    BY <2>4 DEF FetchNoRows, Snapshots
  <2>5. CASE StartUpdater \/ CheckControl \/ KeepApps \/ Unparked
    BY <2>5 DEF StartUpdater, CheckControl, KeepApps, Unparked,
                TypeOK
  <2>6. CASE StoreControl \/ Unpark \/ Join
    BY <2>6 DEF StoreControl, Unpark, Join
  <2>7. CASE \E t \in Tables : ChangeTable(t)
    BY <2>7 DEF ChangeTable
  <2>8. CASE UNCHANGED vars
    BY <2>8 DEF vars
  <2>9. QED
    BY <2>1, <2>2, <2>3, <2>4, <2>5, <2>6, <2>7, <2>8 DEF Next, Updater
<1>3. QED
  BY <1>1, <1>2, TypeCorrect, PTL DEF Spec, ServesSnapshots, Snap!Spec
=============================================================================
