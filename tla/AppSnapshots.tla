------------------------------ MODULE AppSnapshots ------------------------------
(***************************************************************************)
(* What the application registry promises to the request handlers: a lazy  *)
(* cell that is initialised at most once, and, from then on, an atomic     *)
(* pointer that always shows one complete application map.                 *)
(*                                                                         *)
(* A request handler sees nothing else of the registry, so this is also    *)
(* the registry the request pipeline is composed with.                     *)
(***************************************************************************)
CONSTANTS
  NoApps,     \* the empty map
  Snapshots,  \* the complete maps a load can produce
  Managed     \* BOOLEAN: the maps come from the database, not from the config

VARIABLES
  registry,   \* the lazy_static cell: "unset", "ready" or "poisoned"
  apps        \* the map behind the ArcCell

vars == <<registry, apps>>

Init ==
  /\ registry = "unset"
  /\ apps = NoApps

\* The first use of the cell ran its initialiser to the end.
Load(snapshot) ==
  /\ registry = "unset"
  /\ registry' = "ready"
  /\ apps' = snapshot

\* The initialiser panicked: whoever uses the cell from now on panics too.
Poison ==
  /\ registry = "unset"
  /\ registry' = "poisoned"
  /\ UNCHANGED apps

\* swap_apps: the whole map changes in one store.
Swap(snapshot) ==
  /\ Managed
  /\ registry = "ready"
  /\ apps' = snapshot
  /\ UNCHANGED registry

\* A new process starts with a new cell.
Restart ==
  /\ registry' = "unset"
  /\ apps' = NoApps

Next ==
  \/ \E s \in Snapshots : Load(s) \/ Swap(s)
  \/ Poison
  \/ Restart

Spec == Init /\ [][Next]_vars
=============================================================================
