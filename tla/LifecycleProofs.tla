----------------------------- MODULE LifecycleProofs -----------------------------
(***************************************************************************)
(* Theorems about the life of the process, for any number of connections,  *)
(* any configuration and any registry: an orderly end cuts no request off, *)
(* and the registry within the process is what AppRegistryProofs shows.    *)
(***************************************************************************)
EXTENDS Lifecycle, TLAPS

USE DEF registryVars, serverVars, Running, Open, ConnStates

\* What an orderly end rests on: open connections keep the gateway thread from
\* ending, main panics for the updater's panic only, and nothing runs on when
\* the process is over.
DrainInv ==
  /\ conn \in [Conn -> ConnStates]
  /\ process \in {"running", "exited", "killed"}
  /\ \A c \in Conn : conn[c] \in Open => Running /\ gateway \in {"serving", "draining"}
  /\ \A c \in Conn : conn[c] = "cut" => ~Running
  /\ main = "panicked" => updater = "panicked"
  /\ ShutdownDrains

\* The steps of the registry's parts as far as the shutdown depends on them.
LEMMA RegistryStep ==
  ASSUME main = "panicked" => updater = "panicked",
         Registry!Initialize \/ Registry!Updater \/ Registry!StoreControl
           \/ Registry!Unpark \/ Registry!Join
  PROVE  /\ main' = "panicked" => updater' = "panicked"
         /\ updater = "panicked" => updater' = "panicked"
<1> USE DEF Registry!dbVars, Registry!cellVars, Registry!updaterVars, Registry!stopVars
<1>1. CASE Registry!Initialize \/ Registry!StoreControl \/ Registry!Unpark
  BY <1>1 DEF Registry!Initialize, Registry!StoreControl, Registry!Unpark
<1>2. CASE Registry!Join
  BY <1>2 DEF Registry!Join
<1>3. CASE Registry!Updater
  <2>1. main' = main
    BY <1>3 DEF Registry!Updater, Registry!StartUpdater, Registry!CheckControl,
       Registry!FetchRows, Registry!KeepApps,
       Registry!FetchNoRows, Registry!SwapApps, Registry!Unparked
  <2>2. updater # "panicked"
    BY <1>3 DEF Registry!Updater, Registry!StartUpdater, Registry!CheckControl,
       Registry!FetchRows, Registry!KeepApps,
       Registry!FetchNoRows, Registry!SwapApps, Registry!Unparked
  <2>3. QED
    BY <2>1, <2>2
<1>4. QED
  BY <1>1, <1>2, <1>3

\* A connection that changes its state without the end of the process.
LEMMA ConnStep ==
  ASSUME DrainInv, NEW c \in Conn,
         Connect(c) \/ Request(c) \/ Reply(c) \/ Close(c)
  PROVE  DrainInv'
<1> USE DEF DrainInv, ShutdownDrains
<1>1. PICK to \in {"idle", "busy", "closed"} :
        /\ conn' = [conn EXCEPT ![c] = to]
        /\ UNCHANGED <<main, updater, gateway, process, watch>>
  BY DEF Connect, Request, Reply, Close, Move
<1>2. Running /\ gateway \in {"serving", "draining"}
  BY DEF Connect, Request, Reply, Close, Move
<1>3. \A d \in Conn : d # c => conn'[d] = conn[d]
  BY <1>1
<1>4. conn'[c] = to
  BY <1>1
<1>5. conn' \in [Conn -> ConnStates]
  BY <1>1
<1>6. QED
  BY <1>1, <1>2, <1>3, <1>4, <1>5

\* The end of the process: what is open then is cut off, and something is only if
\* the end was not the orderly one.
LEMMA EndStep ==
  ASSUME DrainInv, Exit \/ Kill
  PROVE  DrainInv'
<1> USE DEF DrainInv, ShutdownDrains
<1>1. /\ CutOff /\ Running /\ process' \in {"exited", "killed"}
      /\ UNCHANGED <<main, updater, gateway, watch>>
  BY DEF Exit, Kill
<1>2. conn' \in [Conn -> ConnStates]
  BY <1>1 DEF CutOff
<1>3. \A c \in Conn : conn'[c] \notin Open /\ (conn'[c] = "cut" => conn[c] = "busy")
  BY <1>1 DEF CutOff
<1>4. ASSUME NEW c \in Conn, conn'[c] = "cut"
      PROVE  process' = "killed" \/ watch' = "failed" \/ updater' = "panicked"
  <2>1. conn[c] = "busy"
    BY <1>3, <1>4
  <2>2. gateway \in {"serving", "draining"}
    BY <2>1
  <2>3. CASE Kill
    BY <2>3 DEF Kill
  <2>4. CASE Exit
    BY <1>1, <2>2, <2>4 DEF Exit, MainIsOver
  <2>5. QED
    BY <2>3, <2>4
<1>5. QED
  BY <1>1, <1>2, <1>3, <1>4

-----------------------------------------------------------------------------
\* The invariant holds throughout.
LEMMA DrainInvariant == Spec => []DrainInv
<1>1. Init => DrainInv
  BY DEF Init, DrainInv, ShutdownDrains, Registry!Init
<1>2. DrainInv /\ [Next]_vars => DrainInv'
  <2> SUFFICES ASSUME DrainInv, [Next]_vars PROVE DrainInv'
    OBVIOUS
  <2>1. CASE Initialize \/ Update \/ StopUpdater \/ JoinUpdater
    <3>1. /\ main' = "panicked" => updater' = "panicked"
          /\ updater = "panicked" => updater' = "panicked"
      BY <2>1, RegistryStep
         DEF DrainInv, Initialize, Update, StopUpdater, JoinUpdater
    <3>2. UNCHANGED <<conn, process, gateway, watch>>
      BY <2>1 DEF Initialize, Update, StopUpdater, JoinUpdater
    <3>3. QED
      BY <3>1, <3>2 DEF DrainInv, ShutdownDrains
  <2>2. CASE StartGateway \/ ServerFails \/ HearMain
    BY <2>2 DEF StartGateway, ServerFails, HearMain, DrainInv, ShutdownDrains
  <2>3. CASE Drained
    BY <2>3 DEF Drained, DrainInv, ShutdownDrains
  <2>4. CASE \E c \in Conn : Connect(c) \/ Request(c) \/ Reply(c) \/ Close(c)
    BY <2>4, ConnStep
  <2>5. CASE InstallHandler \/ CatchSigint \/ TellGateway
    BY <2>5 DEF InstallHandler, CatchSigint, TellGateway, DrainInv, ShutdownDrains
  <2>6. CASE Exit \/ Kill
    BY <2>6, EndStep
  <2>7. CASE UNCHANGED vars
    BY <2>7 DEF vars, DrainInv, ShutdownDrains
  <2>8. QED
    BY <2>1, <2>2, <2>3, <2>4, <2>5, <2>6, <2>7 DEF Next, MainStep
<1>3. QED
  BY <1>1, <1>2, PTL DEF Spec

\* A request is cut off only by a signal nobody catches, or if main ends early: an
\* orderly shutdown answers all of them (main's joins, shutdown_on_idle).
THEOREM RequestsAreDrained == Spec => []ShutdownDrains
<1>1. DrainInv => ShutdownDrains
  BY DEF DrainInv
<1>2. QED
  BY <1>1, DrainInvariant, PTL

-----------------------------------------------------------------------------
(* The registry within the process: a step of the process is one of the    *)
(* registry or leaves it alone, so that AppRegistryProofs speaks of it.    *)

Alone == INSTANCE AppRegistryProofs WITH ConfigFails <- TRUE

\* The constants are those the registry's theorems are about.
LEMMA AloneAssumption ==
  Alone!RulesAssumption /\ Alone!NoneIsNoApplication /\ Alone!RegistryAssumption
<1>1. Alone!RulesAssumption
  BY RulesAssumption DEF RulesAssumption, Alone!RulesAssumption
<1>2. Alone!NoneIsNoApplication
  BY NoneIsNoApplication
     DEF NoneIsNoApplication, Alone!NoneIsNoApplication, Application, Alone!Application
<1>3. Alone!RegistryAssumption
  BY RegistryParameters
     DEF RegistryParameters, Alone!RegistryAssumption, Registry!RegistryAssumption,
         Alone!RawApplication, Registry!RawApplication, Alone!RawSecret, Registry!RawSecret
<1>4. QED
  BY <1>1, <1>2, <1>3

\* Each part of the process that touches the registry is a step of it.
LEMMA StepOfRegistry == [Next]_vars => [Registry!Next]_(Registry!vars)
<1> USE DEF Registry!vars, Registry!dbVars, Registry!cellVars, Registry!updaterVars,
            Registry!stopVars
<1>1. CASE Initialize \/ Update \/ StopUpdater \/ JoinUpdater
  BY <1>1 DEF Initialize, Update, StopUpdater, JoinUpdater, Registry!Next
<1>2. ASSUME [Next]_vars, ~(Initialize \/ Update \/ StopUpdater \/ JoinUpdater)
      PROVE  UNCHANGED registryVars
  BY <1>2 DEF Next, MainStep, StartGateway, ServerFails, HearMain, Drained, Connect,
     Request, Reply, Close, Move, InstallHandler, CatchSigint, TellGateway, Exit, Kill, vars
<1>3. QED
  BY <1>1, <1>2

\* The definitions of AppRegistry in its two instances are the same.
LEMMA AloneInit == Registry!Init => Alone!Init
BY DEF Registry!Init, Alone!Init, Registry!NoApps, Alone!NoApps

\* And so are the steps.
LEMMA AloneNext == [Registry!Next]_(Registry!vars) => [Alone!Next]_(Alone!vars)
BY DEF Registry!vars, Alone!vars, Registry!dbVars, Alone!dbVars, Registry!cellVars,
  Alone!cellVars, Registry!updaterVars, Alone!updaterVars, Registry!stopVars, Alone!stopVars,
  Registry!Next, Alone!Next, Registry!Initialize, Alone!Initialize, Registry!Ready, Alone!Ready,
  Registry!LoadedApps, Alone!LoadedApps, Registry!CreateApp, Alone!CreateApp,
  Registry!CreateKey, Alone!CreateKey, Registry!RowsReadable, Alone!RowsReadable,
  Registry!ReadColumns, Alone!ReadColumns, Registry!NoApps, Alone!NoApps,
  Registry!Updater, Alone!Updater, Registry!StartUpdater, Alone!StartUpdater,
  Registry!CheckControl, Alone!CheckControl, Registry!ControlSeen, Alone!ControlSeen,
  Registry!LateBound, Alone!LateBound, Registry!FetchRows, Alone!FetchRows,
  Registry!KeepApps, Alone!KeepApps, Registry!FetchNoRows, Alone!FetchNoRows,
  Registry!SwapApps, Alone!SwapApps, Registry!Unparked, Alone!Unparked,
  Registry!StoreControl, Alone!StoreControl, Registry!Unpark, Alone!Unpark,
  Registry!Join, Alone!Join, Registry!ChangeTable, Alone!ChangeTable

\* Every behaviour of the process is one of the registry.
LEMMA DrivesAlone == Spec => Alone!Spec
<1>1. Init => Alone!Init
  BY AloneInit DEF Init
<1>2. [Next]_vars => [Alone!Next]_(Alone!vars)
  BY StepOfRegistry, AloneNext
<1>3. QED
  BY <1>1, <1>2, PTL DEF Spec, Alone!Spec

\* In the process, too, request handlers see a cell that is initialised once and
\* then keeps one complete map at a time, until the process is over.
THEOREM ProcessServesSnapshots == Spec => SnapshotsAreServed
<1>1. Alone!Spec => Alone!ServesSnapshots
  BY AloneAssumption, Alone!ImplementsSnapshots
<1>2. Alone!Snap!Init => Registry!Snap!Init
  BY DEF Alone!Snap!Init, Registry!Snap!Init, Alone!NoApps, Registry!NoApps
<1>3. [Alone!Snap!Next]_(Alone!Snap!vars) => [Registry!Snap!Next]_(Registry!Snap!vars)
  BY DEF Alone!Snap!Next, Registry!Snap!Next, Alone!Snap!vars, Registry!Snap!vars,
         Alone!Snap!Load, Registry!Snap!Load, Alone!Snap!Swap, Registry!Snap!Swap,
         Alone!Snap!Poison, Registry!Snap!Poison, Alone!Snap!Restart, Registry!Snap!Restart,
         Alone!Snapshots, Registry!Snapshots, Alone!NoApps, Registry!NoApps,
         Alone!LoadedApps, Registry!LoadedApps, Alone!CreateApp, Registry!CreateApp,
         Alone!CreateKey, Registry!CreateKey
<1>4. QED
  BY <1>1, <1>2, <1>3, DrivesAlone, PTL
     DEF Alone!ServesSnapshots, Registry!ServesSnapshots, SnapshotsAreServed,
         Alone!Snap!Spec, Registry!Snap!Spec

\* Types of the process: those of the registry, and what the drain rests on.
THEOREM TypeCorrect == Spec => []TypeOK
<1> DEFINE ProcessInv == /\ file \in Files
                         /\ watch \in WatchStates
                         /\ gateway \in GatewayStates
<1>1. Alone!Spec => []Alone!TypeOK
  BY AloneAssumption, Alone!TypeCorrect
<1>2. Alone!TypeOK => Registry!TypeOK
  BY DEF Alone!TypeOK, Registry!TypeOK, Alone!AppMap, Registry!AppMap,
         Alone!Application, Registry!Application, Alone!UpdaterStates,
         Registry!UpdaterStates, Alone!MainStates, Registry!MainStates,
         Alone!LateBound, Registry!LateBound
<1>3. Init => ProcessInv
  BY DEF Init, WatchStates, GatewayStates
<1>4. ProcessInv /\ [Next]_vars => ProcessInv'
  BY DEF Next, MainStep, Initialize, Update, StopUpdater, JoinUpdater, StartGateway,
     ServerFails, HearMain, Drained, Connect, Request, Reply, Close, Move, InstallHandler,
     CatchSigint, TellGateway, Exit, Kill, vars, WatchStates, GatewayStates
<1>5. Registry!TypeOK /\ ProcessInv /\ DrainInv => TypeOK
  BY DEF TypeOK, DrainInv
<1>6. QED
  BY <1>1, <1>2, <1>3, <1>4, <1>5, DrivesAlone, DrainInvariant, PTL DEF Spec
=============================================================================
