--------------------------- MODULE EngineMigration ---------------------------
(***************************************************************************)
(* `engine-unify`: the stores of the local agent and of the HTTP service   *)
(* are copied into one new store, and both entrances are switched to it    *)
(* (engine_migration, state_migration, engine_selection).  The switch      *)
(* takes six writes to two directories and may die after any of them; the  *)
(* entrances, stopped when it begins, start and stop as they like while it *)
(* does not run, and record operations in whatever store they open.        *)
(***************************************************************************)
EXTENDS Integers, FiniteSets

CONSTANTS Key,      \* operation IDs
          Target,   \* directories under engines/
          None

Entrance == {"local", "http"}
Store == Entrance \cup Target

VARIABLES
    store,        \* the rows of each store: an ID and the entrance that wrote it
    staged,       \* targets that exist
    localPending, \* engine-migration.pending.json of the local directory
    httpPending,  \* the same, of the HTTP directory
    chosen,       \* engine-selection.json
    config,       \* the HTTP service's config.json
    opened,       \* the store each entrance has open; "agent": HTTP asks the agent
    migration,    \* the running command
    recorded      \* history: the rows each entrance has recorded

pendings == <<localPending, httpPending>>
migrationVars == <<store, staged, pendings, chosen, config, opened, migration, recorded>>

NoMigration == [pc |-> "idle", target |-> None]

MigrationInit ==
    /\ store = [s \in Store |-> {}] /\ staged = {}
    /\ localPending = None /\ httpPending = None /\ chosen = None
    /\ config = [shared |-> FALSE, tools |-> 1]
    /\ opened = [e \in Entrance |-> None]
    /\ migration = NoMigration
    /\ recorded = [e \in Entrance |-> {}]

-----------------------------------------------------------------------------
(* The entrances *)

\* agent.lock and http-server.lock are held by the services or by the migration.
Unlocked(e) == opened[e] = None /\ migration.pc = "idle"

\* engine_directory
Directory == IF chosen = None THEN "local" ELSE chosen

StartLocal ==
    /\ Unlocked("local") /\ localPending = None
    /\ opened' = [opened EXCEPT !["local"] = Directory]
    /\ UNCHANGED <<store, staged, pendings, chosen, config, migration, recorded>>

\* The HTTP service looks only for its own marker; a shared configuration needs an agent.
StartHttp ==
    /\ Unlocked("http") /\ httpPending = None
    /\ IF config.shared
       THEN /\ opened["local"] # None
            /\ opened' = [opened EXCEPT !["http"] = "agent"]
       ELSE opened' = [opened EXCEPT !["http"] = "http"]
    /\ UNCHANGED <<store, staged, pendings, chosen, config, migration, recorded>>

Close(e) ==
    /\ opened[e] # None
    /\ opened' = [opened EXCEPT ![e] = None]
    /\ UNCHANGED <<store, staged, pendings, chosen, config, migration, recorded>>

\* Where an operation of an entrance is recorded and looked up.
Where(e) == IF opened[e] = "agent" THEN opened["local"] ELSE opened[e]

Record(e) ==
    /\ Where(e) # None
    /\ \E k \in Key :
          /\ \A row \in store[Where(e)] : row[1] # k
          /\ store' = [store EXCEPT ![Where(e)] = @ \cup {<<k, e>>}]
          /\ recorded' = [recorded EXCEPT ![e] = @ \cup {<<k, e>>}]
    /\ UNCHANGED <<staged, pendings, chosen, config, opened, migration>>

\* http-add-tools rewrites the configuration, whatever is pending.
AddTools ==
    /\ Unlocked("http") /\ config.tools = 1
    /\ config' = [config EXCEPT !.tools = 2]
    /\ UNCHANGED <<store, staged, pendings, chosen, opened, migration, recorded>>

-----------------------------------------------------------------------------
(* migrate_engine *)

Goto(pc) == migration' = [migration EXCEPT !.pc = pc]
Leave == migration' = NoMigration

\* A running service or another migration holds a lock.
Begin ==
    /\ \A e \in Entrance : Unlocked(e)
    /\ IF localPending # None
       THEN migration' = [pc |-> "mark", target |-> localPending.target]
       ELSE /\ chosen = None /\ ~config.shared /\ httpPending = None
            /\ migration' = [pc |-> "stage", target |-> None]
    /\ UNCHANGED <<store, staged, pendings, chosen, config, opened, recorded>>

\* Two rows of one ID from different entrances are a conflict, not a choice.
Mergeable == \A r \in store["local"], q \in store["http"] : r[1] = q[1] => r = q

Stage ==
    /\ migration.pc = "stage"
    /\ IF Mergeable
       THEN \E t \in Target \ staged :
               /\ staged' = staged \cup {t}
               /\ store' = [store EXCEPT ![t] = store["local"] \cup store["http"]]
               /\ migration' = [pc |-> "intend", target |-> t]
       ELSE Leave /\ UNCHANGED <<store, staged>>
    /\ UNCHANGED <<pendings, chosen, config, opened, recorded>>

\* The record of what was staged from what: everything later is compared with it.
Sources == [e \in Entrance |-> store[e]]

Intend ==
    /\ migration.pc = "intend" /\ Goto("mark")
    /\ localPending' = [target |-> migration.target, before |-> config,
                        sources |-> Sources, content |-> store[migration.target]]
    /\ UNCHANGED <<store, staged, httpPending, chosen, config, opened, recorded>>

Mark ==
    /\ migration.pc = "mark"
    /\ IF httpPending \in {None, localPending}
       THEN httpPending' = localPending /\ Goto("compare")
       ELSE Leave /\ UNCHANGED httpPending
    /\ UNCHANGED <<store, staged, localPending, chosen, config, opened, recorded>>

\* What was written after the staging would be lost: the migration stays paused.
Unchanged ==
    /\ localPending.sources = Sources
    /\ localPending.content = store[localPending.target]

Compare ==
    /\ migration.pc = "compare"
    /\ IF Unchanged THEN Goto("configure") ELSE Leave
    /\ UNCHANGED <<store, staged, pendings, chosen, config, opened, recorded>>

Updated == [localPending.before EXCEPT !.shared = TRUE]

Configure ==
    /\ migration.pc = "configure"
    /\ IF config \in {Updated, localPending.before}
       THEN config' = Updated /\ Goto("choose")
       ELSE Leave /\ UNCHANGED config
    /\ UNCHANGED <<store, staged, pendings, chosen, opened, recorded>>

Choose ==
    /\ migration.pc = "choose"
    /\ IF chosen \in {None, migration.target}
       THEN chosen' = migration.target /\ Goto("finish")
       ELSE Leave /\ UNCHANGED chosen
    /\ UNCHANGED <<store, staged, pendings, config, opened, recorded>>

\* First the HTTP marker, then the agent's, the final gate.
Finish ==
    /\ migration.pc = "finish"
    /\ IF httpPending # None
       THEN httpPending' = None /\ UNCHANGED <<localPending, migration>>
       ELSE localPending' = None /\ Leave /\ UNCHANGED httpPending
    /\ UNCHANGED <<store, staged, chosen, config, opened, recorded>>

Die ==
    /\ migration.pc # "idle" /\ Leave
    /\ UNCHANGED <<store, staged, pendings, chosen, config, opened, recorded>>

Migrate ==
    \/ Begin \/ Stage \/ Intend \/ Mark \/ Compare \/ Configure \/ Choose \/ Finish \/ Die

MigrationNext ==
    \/ StartLocal \/ StartHttp \/ AddTools \/ Migrate
    \/ \E e \in Entrance : Close(e) \/ Record(e)

MigrationSpec == MigrationInit /\ [][MigrationNext]_migrationVars

-----------------------------------------------------------------------------
\* Whatever an entrance has recorded it finds again: neither a copy made before the
\* record nor a store that was left behind is ever opened in place of the store that
\* has it, however the migration was interrupted and resumed.
RowsKept == \A e \in Entrance : Where(e) # None => recorded[e] \subseteq store[Where(e)]

\* The entrances are never split over the shared store and one that was left behind.
NoSplit == opened["http"] = "http" => opened["local"] \in {None, "local"}
=============================================================================
