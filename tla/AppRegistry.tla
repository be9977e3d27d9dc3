------------------------------- MODULE AppRegistry -------------------------------
(***************************************************************************)
(* The application registry: its lazy initialisation, the thread that      *)
(* refreshes it from the applications table, and the part of the shutdown  *)
(* in which main stops that thread.                                        *)
(*                                                                         *)
(* Shared state: the cell and the map behind it (read by every request     *)
(* handler), the control flag and the park token of the updater thread     *)
(* (written by main).  The applications table is external and may change   *)
(* at any time.                                                            *)
(***************************************************************************)
EXTENDS RequestRules, Naturals

CONSTANTS
  ManageApps,      \* CONFIG.cassandra.manage_apps
  Tables,          \* contents the applications table, or [[test_apps]], may have
  ConfiguredApps,  \* the content of [[test_apps]]
  RowColumns,      \* the column names the driver reports in a result row
  ConfigFails,     \* BOOLEAN: the configuration may be refused, or lack [[test_apps]]
  DbFails          \* BOOLEAN: the database may fail

\* A secret as stored: a string that may not be hexadecimal.
RawSecret == Secret \cup {None, "not hex"}

RawApplication == [token   : Token \cup {None},
                   ios     : RawSecret,
                   android : RawSecret,
                   web     : RawSecret]

ASSUME RegistryAssumption ==
  /\ ManageApps \in BOOLEAN
  /\ ConfigFails \in BOOLEAN
  /\ DbFails \in BOOLEAN
  /\ None \notin RawApplication
  /\ Tables \subseteq [App -> RawApplication \cup {None}]
  /\ ConfiguredApps \in Tables
  /\ "not hex" \notin Secret

VARIABLES
  table,     \* the content of the applications table
  registry,  \* the lazy_static cell APP_REGISTRY
  apps,      \* the map behind the ArcCell
  rows,      \* the table content the update in progress has read
  updater,   \* where the updater thread is
  control,   \* the AtomicBool shared with main
  token,     \* the park token of the updater thread
  synced,    \* the updater has synchronised with main's unpark
  late,      \* how many updates the updater started after main's unpark
  main       \* where main is in stopping the updater

dbVars      == <<table>>
cellVars    == <<registry, apps>>
updaterVars == <<rows, updater, late>>
stopVars    == <<control, token, synced, main>>
vars        == <<dbVars, cellVars, updaterVars, stopVars>>

UpdaterStates == {"start", "check", "update", "swap", "park", "exited", "panicked"}
MainStates    == {"serving", "stopping", "joining", "joined", "panicked"}

-----------------------------------------------------------------------------
(* From rows to the application map.                                       *)

\* Faulty variant, for the sensitivity of the properties: no hex::decode.
CreateKeyUndecoded(raw) == raw

CreateKey(raw) == IF raw \in Secret THEN raw ELSE None

CreateApp(raw) == [token   |-> raw.token,
                   ios     |-> CreateKey(raw.ios),
                   android |-> CreateKey(raw.android),
                   web     |-> CreateKey(raw.web)]

LoadedApps(content) ==
  [a \in App |-> IF content[a] = None THEN None ELSE CreateApp(content[a])]

\* The names in the SELECT list, which are the names of the result's columns.
SelectedColumns ==
  {"id", "sdk_token", "ios_api_secret", "android_api_secret", "web_api_secret"}

\* The names each row is read by, every read followed by an unwrap().
ReadColumns ==
  {"app_id", "sdk_token", "ios_api_secret", "android_api_secret", "web_api_secret"}

RowsReadable(content) ==
  (\E a \in App : content[a] # None) => ReadColumns \subseteq RowColumns

\* The maps an update can install.  A reply without a rows body empties the map.
Snapshots ==
  IF ManageApps THEN {LoadedApps(t) : t \in Tables} \cup {NoApps}
                ELSE {LoadedApps(ConfiguredApps)}
-----------------------------------------------------------------------------
Init ==
  /\ table \in Tables
  /\ registry = "unset"
  /\ apps = NoApps
  /\ rows = NoApps
  /\ updater = "start"
  /\ late = 0
  /\ control = TRUE
  /\ token = FALSE
  /\ synced = FALSE
  /\ main = "serving"

-----------------------------------------------------------------------------
(* The lazy cell.  The first thread to use it, the updater or a request    *)
(* handler, runs AppRegistry::new and every other user waits; nobody sees  *)
(* a step between its query and the publication of the cell.               *)

Ready(snapshot) == registry' = "ready" /\ apps' = snapshot

Initialize ==
  /\ registry = "unset"
  /\ \/ /\ ~ManageApps
        /\ Ready(LoadedApps(ConfiguredApps))
     \/ /\ ManageApps
        /\ RowsReadable(table)
        /\ Ready(LoadedApps(table))
     \/ /\ ManageApps
        /\ DbFails
        /\ Ready(NoApps)
     \/ /\ ConfigFails \/ (ManageApps /\ (DbFails \/ ~RowsReadable(table)))
        /\ registry' = "poisoned"
        /\ UNCHANGED apps
  /\ UNCHANGED <<dbVars, updaterVars, stopVars>>

-----------------------------------------------------------------------------
(* The updater thread: run_updater and the update_apps it calls.           *)

\* The thread's first use of the cell returns, or panics if it is poisoned.
StartUpdater ==
  /\ updater = "start"
  /\ registry # "unset"
  /\ updater' = IF registry = "ready" THEN "check" ELSE "panicked"
  /\ UNCHANGED <<dbVars, cellVars, stopVars, rows, late>>

\* The count of late updates ends here: 2 stands for any number above one.
LateBound == 2

\* A relaxed load may still see the old TRUE until the thread has synchronised
\* with main through the park token.
ControlSeen == IF ~control /\ ~synced THEN BOOLEAN ELSE {control}

CheckControl ==
  /\ updater = "check"
  /\ \E running \in ControlSeen :
       /\ updater' = IF running THEN "update" ELSE "exited"
       /\ late' = IF running /\ main = "joining" /\ late < LateBound
                    THEN late + 1 ELSE late
  /\ UNCHANGED <<dbVars, cellVars, stopVars, rows>>

\* The query answers: its rows are converted one by one.
FetchRows ==
  /\ updater = "update"
  /\ ManageApps
  /\ IF RowsReadable(table)
       THEN updater' = "swap" /\ rows' = LoadedApps(table)
       ELSE updater' = "panicked" /\ UNCHANGED rows
  /\ UNCHANGED <<dbVars, cellVars, stopVars, late>>

\* Faulty variant: the first error ends the thread.
KeepAppsOnce ==
  /\ updater = "update"
  /\ ~ManageApps \/ DbFails
  /\ updater' = IF ManageApps THEN "exited" ELSE "park"
  /\ UNCHANGED <<dbVars, cellVars, stopVars, rows, late>>

\* Faulty variant: no answer is taken for an empty table.
KeepNoApps ==
  /\ updater = "update"
  /\ ~ManageApps \/ DbFails
  /\ updater' = "swap"
  /\ rows' = NoApps
  /\ UNCHANGED <<dbVars, cellVars, stopVars, late>>

\* The map stays: without a pool there is nothing to update, and without a
\* connection or an answer the error is logged.
KeepApps ==
  /\ updater = "update"
  /\ ~ManageApps \/ DbFails
  /\ updater' = "park"
  /\ UNCHANGED <<dbVars, cellVars, stopVars, rows, late>>

\* An answer whose body holds no rows is taken for an empty table.
FetchNoRows ==
  /\ updater = "update"
  /\ ManageApps
  /\ DbFails
  /\ updater' = "swap"
  /\ rows' = NoApps
  /\ UNCHANGED <<dbVars, cellVars, stopVars, late>>

\* Faulty variant: the rows are inserted into the map that is being served.
SwapAppsMerged ==
  /\ updater = "swap"
  /\ apps' = [a \in App |-> IF rows[a] = None THEN apps[a] ELSE rows[a]]
  /\ updater' = "park"
  /\ UNCHANGED <<dbVars, registry, stopVars, rows, late>>

SwapApps ==
  /\ updater = "swap"
  /\ apps' = rows
  /\ updater' = "park"
  /\ UNCHANGED <<dbVars, registry, stopVars, rows, late>>

\* Faulty variant: thread::sleep, which knows of no token.
Slept ==
  /\ updater = "park"
  /\ updater' = "check"
  /\ UNCHANGED <<dbVars, cellVars, stopVars, rows, late>>

\* park_timeout returns at once if the token is there, and consumes it;
\* otherwise it returns after 60 seconds at the latest.
Unparked ==
  /\ updater = "park"
  /\ updater' = "check"
  /\ token' = FALSE
  /\ synced' = (synced \/ token)
  /\ UNCHANGED <<dbVars, cellVars, rows, late, control, main>>

-----------------------------------------------------------------------------
(* main, on SIGINT.                                                        *)

StoreControl ==
  /\ main = "serving"
  /\ main' = "stopping"
  /\ control' = FALSE
  /\ UNCHANGED <<dbVars, cellVars, updaterVars, token, synced>>

Unpark ==
  /\ main = "stopping"
  /\ main' = "joining"
  /\ token' = TRUE
  /\ UNCHANGED <<dbVars, cellVars, updaterVars, control, synced>>

\* join().unwrap(): the updater's panic becomes main's.
Join ==
  /\ main = "joining"
  /\ updater \in {"exited", "panicked"}
  /\ main' = IF updater = "exited" THEN "joined" ELSE "panicked"
  /\ UNCHANGED <<dbVars, cellVars, updaterVars, control, token, synced>>

-----------------------------------------------------------------------------
\* External: somebody edits the applications table.
ChangeTable(content) ==
  /\ ManageApps
  /\ table' = content
  /\ UNCHANGED <<cellVars, updaterVars, stopVars>>

\* The updater waits for a query.
Querying == ManageApps /\ updater = "update"

Updater ==
  \/ StartUpdater \/ CheckControl \/ FetchRows \/ KeepApps
  \/ FetchNoRows \/ SwapApps \/ Unparked

Next ==
  \/ Initialize
  \/ Updater
  \/ StoreControl \/ Unpark \/ Join
  \/ \E t \in Tables : ChangeTable(t)

Spec == Init /\ [][Next]_vars

\* The updater and the initialiser are scheduled as far as they do not wait for the
\* database, park_timeout times out, and main runs on once the signal is there
\* (which may never come).
Fairness ==
  /\ WF_vars(Initialize /\ ~ManageApps)
  /\ WF_vars(Updater /\ ~Querying)
  /\ WF_vars(Unpark)
  /\ WF_vars(Join)

\* What the code relies on but does not ensure: no query has a timeout, so the
\* initialiser and the updater go on only if the database answers or fails.
QueriesReturn ==
  /\ WF_vars(Initialize)
  /\ WF_vars(Updater)

\* And a query that is made again and again is answered now and then.
QueriesSucceed == SF_vars(FetchRows)

FairSpec == Spec /\ Fairness

-----------------------------------------------------------------------------
(* Properties.                                                             *)

\* Types.  The map never holds a secret that hex::decode has not accepted.
TypeOK ==
  /\ table \in Tables
  /\ registry \in {"unset", "ready", "poisoned"}
  /\ apps \in AppMap
  /\ rows \in AppMap
  /\ updater \in UpdaterStates
  /\ late \in 0 .. LateBound
  /\ control \in BOOLEAN
  /\ token \in BOOLEAN
  /\ synced \in BOOLEAN
  /\ main \in MainStates

\* The control flag is loaded with Ordering::Relaxed, and still main waits for
\* no more than one update that begins after it called unpark: the next park
\* takes the token, and with it sees the flag.
OneLateUpdate == late <= 1

\* Request handlers see a cell that is initialised once and then, in single
\* steps, one complete table content after the other (swap_apps).
Snap == INSTANCE AppSnapshots WITH Managed <- ManageApps

ServesSnapshots == Snap!Spec

\* An edit of the applications table reaches the request handlers without a
\* restart (run_updater), errors of single updates notwithstanding, if queries are
\* answered now and then.
EditsAreServed ==
  ManageApps /\ QueriesSucceed =>
    \A t \in Tables :
      <>[](table = t /\ registry = "ready" /\ main = "serving")
        => []<>(apps = LoadedApps(t))

\* main's join of the updater returns, whether the thread ended or panicked, unless
\* the thread is in a query that is never answered.
UpdaterIsJoined ==
  QueriesReturn => (main = "joining" ~> main \in {"joined", "panicked"})

\* The registry's documentation: the system loads the applications from the
\* database.  While the database answers, loading therefore does not panic.
DatabaseAppsLoad == ~DbFails => registry # "poisoned"
=============================================================================
