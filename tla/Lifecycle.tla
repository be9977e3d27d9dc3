--------------------------------- MODULE Lifecycle ---------------------------------
(***************************************************************************)
(* The life of the process: main, the gateway thread with its runtime and  *)
(* the connections it serves, and the configuration both threads read.     *)
(* The registry and the updater thread are those of AppRegistry, whose     *)
(* steps of main are the middle part of the shutdown here.                 *)
(*                                                                         *)
(* A process ends when main returns or panics, whatever its other threads  *)
(* are doing then.  SIGINT is caught once main has its handler; SIGTERM    *)
(* never is.                                                               *)
(***************************************************************************)
EXTENDS RequestRules, Naturals

CONSTANTS
  Conn,         \* connections of clients, each opened once
  Development,  \* BOOLEAN: RUST_ENV is "development", or not set
  ManageApps, Tables, ConfiguredApps, RowColumns, DbFails  \* see AppRegistry

ASSUME LifecycleAssumption == Development \in BOOLEAN

VARIABLES
  table, registry, apps, rows, updater, control, token, synced, late,
  main,     \* see AppRegistry
  file,     \* what the configuration file is like
  watch,    \* where main is in waiting for SIGINT
  gateway,  \* where the gateway thread is
  conn,     \* where each connection is
  process   \* "running", "exited" or "killed"

Registry == INSTANCE AppRegistry WITH ConfigFails <- TRUE

\* The registry's own assumptions on the constants it shares.
ASSUME RegistryParameters == Registry!RegistryAssumption

registryVars == <<table, registry, apps, rows, updater, control, token, synced, late, main>>
serverVars   == <<gateway, conn>>
vars         == <<registryVars, file, watch, serverVars, process>>

Files         == {"complete", "no test_apps", "unreadable"}
WatchStates   == {"starting", "waiting", "caught", "told", "failed"}
GatewayStates == {"start", "serving", "draining", "ended", "panicked"}
Open          == {"idle", "busy"}
ConnStates    == {"new", "closed", "cut"} \cup Open

Running == process = "running"

-----------------------------------------------------------------------------
(* The configuration.                                                      *)

\* Config::parse panics; the lazy cell CONFIG stays poisoned.
Refused ==
  \/ file = "unreadable"
  \/ ~Development /\ (AllowEmptySignature \/ ManageApps)

\* AppRegistry::new panics before it asks a database.
NoRegistry == Refused \/ (~ManageApps /\ file = "no test_apps")

-----------------------------------------------------------------------------
Init ==
  /\ Registry!Init
  /\ file \in Files
  /\ watch = "starting"
  /\ gateway = "start"
  /\ conn = [c \in Conn |-> "new"]
  /\ process = "running"

-----------------------------------------------------------------------------
(* The registry and its thread, while there is a process.                  *)

Initialize ==
  /\ Running
  /\ Registry!Initialize
  /\ NoRegistry => registry' = "poisoned"
  /\ registry' = "poisoned" => NoRegistry \/ ManageApps
  /\ UNCHANGED <<file, watch, serverVars, process>>

Update ==
  /\ Running
  /\ Registry!Updater
  /\ UNCHANGED <<file, watch, serverVars, process>>

-----------------------------------------------------------------------------
(* The gateway thread: Gateway::run.                                       *)

\* The runtime is built from the configuration; the Kafka producer and the
\* port may not be had.
StartGateway ==
  /\ Running
  /\ gateway = "start"
  /\ \/ ~Refused /\ gateway' = "serving"
     \/ gateway' = "panicked"
  /\ UNCHANGED <<registryVars, file, watch, conn, process>>

\* External: the listener fails.  The error is logged, the server future is over.
ServerFails ==
  /\ Running
  /\ gateway = "serving"
  /\ gateway' = "draining"
  /\ UNCHANGED <<registryVars, file, watch, conn, process>>

\* select2 ends with the message of main, and drops the listener with the server.
HearMain ==
  /\ Running
  /\ gateway = "serving"
  /\ watch = "told"
  /\ gateway' = "draining"
  /\ UNCHANGED <<registryVars, file, watch, conn, process>>

\* shutdown_on_idle: every task of the runtime has ended.
Drained ==
  /\ Running
  /\ gateway = "draining"
  /\ \A c \in Conn : conn[c] \notin Open
  /\ gateway' = "ended"
  /\ UNCHANGED <<registryVars, file, watch, conn, process>>

-----------------------------------------------------------------------------
(* Connections.  Each is a task of the runtime, and lives on when the      *)
(* listener is gone; it serves one request after the other.                *)

Move(c, from, to) ==
  /\ Running
  /\ conn[c] \in from
  /\ conn' = [conn EXCEPT ![c] = to]
  /\ UNCHANGED <<registryVars, file, watch, gateway, process>>

\* Faulty variant, for the sensitivity of the properties: connections are accepted
\* when the server is gone.
ConnectAnyTime(c) == gateway \in {"serving", "draining", "ended"} /\ Move(c, {"new"}, "idle")

Connect(c) == gateway = "serving" /\ Move(c, {"new"}, "idle")

Request(c) == Move(c, {"idle"}, "busy")
Reply(c)   == Move(c, {"busy"}, "idle")

\* The client closes the connection, or a panic in the handler does.
Close(c) == Move(c, Open, "closed")

-----------------------------------------------------------------------------
(* main.                                                                   *)

InstallHandler ==
  /\ Running
  /\ watch = "starting"
  /\ watch' \in {"waiting", "failed"}
  /\ UNCHANGED <<registryVars, file, serverVars, process>>

\* The first SIGINT.  The handler stays, and later ones change nothing.
CatchSigint ==
  /\ Running
  /\ watch = "waiting"
  /\ watch' = "caught"
  /\ UNCHANGED <<registryVars, file, serverVars, process>>

\* server_tx.send: without a receiver it fails, which is logged.
TellGateway ==
  /\ Running
  /\ watch = "caught"
  /\ watch' = "told"
  /\ UNCHANGED <<registryVars, file, serverVars, process>>

\* Faulty variant: the flag is not stored.
StopUpdaterFlagLeft ==
  /\ Running
  /\ watch = "told"
  /\ main = "serving"
  /\ main' = "stopping"
  /\ UNCHANGED <<table, registry, apps, rows, updater, control, token, synced, late>>
  /\ UNCHANGED <<file, watch, serverVars, process>>

StopUpdater ==
  /\ Running
  /\ watch = "told"
  /\ Registry!StoreControl
  /\ UNCHANGED <<file, watch, serverVars, process>>

\* The updater's panic ends main here.
JoinUpdater ==
  /\ Running
  /\ Registry!Unpark \/ Registry!Join
  /\ UNCHANGED <<file, watch, serverVars, process>>

\* Faulty variant: main joins the updater only.
MainIsOverAfterUpdater == watch = "failed" \/ main \in {"panicked", "joined"}

\* main returns or panics: its handler could not be installed, the updater has
\* panicked, or both threads are joined (the gateway's panic is main's as well).
MainIsOver ==
  \/ watch = "failed"
  \/ main = "panicked"
  \/ main = "joined" /\ gateway \in {"ended", "panicked"}

\* What the end of the process does to the connections.
CutOff ==
  conn' = [c \in Conn |-> CASE conn[c] = "busy" -> "cut"
                            [] conn[c] = "idle" -> "closed"
                            [] OTHER -> conn[c]]

Exit ==
  /\ Running
  /\ MainIsOver
  /\ process' = "exited"
  /\ CutOff
  /\ UNCHANGED <<registryVars, file, watch, gateway>>

\* External: SIGTERM at any time, or SIGINT before the handler is there.
Kill ==
  /\ Running
  /\ process' = "killed"
  /\ CutOff
  /\ UNCHANGED <<registryVars, file, watch, gateway>>

-----------------------------------------------------------------------------
MainStep == InstallHandler \/ TellGateway \/ StopUpdater \/ JoinUpdater \/ Exit

Next ==
  \/ Initialize \/ Update
  \/ StartGateway \/ ServerFails \/ HearMain \/ Drained
  \/ \E c \in Conn : Connect(c) \/ Request(c) \/ Reply(c) \/ Close(c)
  \/ MainStep
  \/ CatchSigint
  \/ Kill

Spec == Init /\ [][Next]_vars

\* The threads are scheduled as far as they do not wait for the database, and the
\* runtime polls the select2 that main's message has woken.  Signals, clients and
\* failures may never come.
Fairness ==
  /\ WF_vars(Initialize /\ ~ManageApps)
  /\ WF_vars(Update /\ ~Registry!Querying)
  /\ WF_vars(StartGateway)
  /\ WF_vars(HearMain)
  /\ WF_vars(Drained)
  /\ WF_vars(MainStep)

FairSpec == Spec /\ Fairness

\* What the code relies on but does not ensure: a query has no timeout.
QueriesReturn == WF_vars(Initialize) /\ WF_vars(Update)

-----------------------------------------------------------------------------
(* Properties.                                                             *)

\* Types.  A connection is open in a runtime only, which the gateway thread waits
\* for, and requests are cut off by the end of the process only.
TypeOK ==
  /\ Registry!TypeOK
  /\ file \in Files
  /\ watch \in WatchStates
  /\ gateway \in GatewayStates
  /\ conn \in [Conn -> ConnStates]
  /\ process \in {"running", "exited", "killed"}
  /\ \A c \in Conn : conn[c] \in Open => Running /\ gateway \in {"serving", "draining"}
  /\ \A c \in Conn : conn[c] = "cut" => ~Running

\* A request that is being handled is cut off only if the process is killed, if
\* main has no signal handler, or if the updater has panicked, which main's
\* unwrap() spreads before it waits for the gateway thread.
ShutdownDrains ==
  \A c \in Conn :
    conn[c] = "cut" => process = "killed" \/ watch = "failed" \/ updater = "panicked"

\* After a SIGINT the process ends, whatever has become of the server, the
\* updater or the configuration, once the clients have closed their connections
\* and the updater's queries have returned: nothing limits the time of either.
ShutdownEnds ==
  QueriesReturn /\ <>[](\A c \in Conn : conn[c] \notin Open)
    => (watch = "caught" ~> ~Running)

\* With the applications of the configuration, too, request handlers see a cell
\* that is initialised once and then keeps its map, as AppSnapshots promises:
\* neither the updater thread nor the shutdown takes it away.
SnapshotsAreServed == Registry!ServesSnapshots

-----------------------------------------------------------------------------
(* What the source says of the configuration.                              *)

\* Config::parse: "Cannot allow manage_apps to be false outside of development
\* environment."
UnmanagedOnlyInDevelopment == gateway = "serving" /\ ~Development => ManageApps
=============================================================================
