---------------------------- MODULE ActiveContext ----------------------------
(***************************************************************************)
(* The active project and environment of crates/fox-tauri: AppState::active *)
(* (state.rs), the commands that read and change it (commands/project.rs,   *)
(* commands/environment.rs), the rows they depend on and the settings that  *)
(* survive a restart.                                                       *)
(*                                                                          *)
(* Commands run concurrently; a step of a command is the code between two   *)
(* of its awaits, so at most one query or one locked section.  The lock     *)
(* `active` is never held across an await, so a locked section is one step. *)
(*                                                                          *)
(* Left out: names, variables and base URLs (a row's content is its         *)
(* version), validation of names, and queries that only list rows.          *)
(***************************************************************************)
EXTENDS Naturals, FiniteSets

CONSTANTS
  Project, Env,   \* ids
  Owner,          \* the project an environment belongs to
  None,           \* no id, nothing cached
  Caller,         \* command invocations that may overlap
  Ops,            \* commands the callers use
  MaxCommands,    \* bound: commands issued
  MaxOverlapping, \* bound: commands, with the restarts before the last of
                  \* them, in a history where some overlap or are cut off
  MaxRestarts     \* bound: process restarts

Command == {"SetProject", "SetEnv", "Variables", "SaveProject", "SaveEnv",
            "DeleteProject", "DeleteEnv"}
Place == {"ReadProject", "ReadSetting", "CheckEnv", "ReadEnv", "Write",
          "Persist", "GetProject", "FetchProject", "FillProject", "GetEnv",
          "FetchEnv", "FillEnv", "Check", "Store", "Refresh", "Drop", "Look",
          "Clear"}
ProjectRow == [id : Project, version : Nat]
EnvRow == [id : Env, version : Nat]

ASSUME ContextAssumption ==
  /\ None \notin Project \cup Env \cup ProjectRow \cup EnvRow
  /\ Ops \subseteq Command
  /\ Owner \in [Env -> Project]
  /\ {MaxCommands, MaxOverlapping, MaxRestarts} \subseteq Nat

VARIABLES
  projects, envs,       \* rows: id -> version, 0 when there is no row
  edits,                \* versions written so far
  savedProject,         \* setting active_project_id
  savedEnv,             \* settings active_environment_id:{project}
  activeProject, projectCache,  \* ActiveContext::project_id, ::project
  activeEnv, envCache,          \* ActiveContext::environment_id, ::environment
  op, step,             \* each caller's command and where it is
  pid, eid,             \* its ids: arguments, then what it read
  prow, erow,           \* rows it holds
  merged,               \* project and environment the last variables_for used
  commands, restarts,   \* counters for the bounds
  history               \* "serial": every command so far ran alone to its end,
                        \* and none stored a deleted row again

rowVars     == <<projects, envs, edits>>
settingVars == <<savedProject, savedEnv>>
memoryVars  == <<activeProject, projectCache, activeEnv, envCache>>
callVars    == <<op, step, pid, eid, prow, erow>>
bounds      == <<commands, restarts, history>>
vars == <<rowVars, settingVars, memoryVars, callVars, merged, bounds>>

-----------------------------------------------------------------------------

Row(i, v) == [id |-> i, version |-> v]

At(c, command, place) == op[c] = command /\ step[c] = place

\* The caller moves to another step, or returns (with or without an error).
Goto(c, place) ==
  /\ step' = [step EXCEPT ![c] = place]
  /\ UNCHANGED <<op, pid, eid, prow, erow>>

Return(c) ==
  /\ op' = [op EXCEPT ![c] = "idle"]
  /\ step' = [step EXCEPT ![c] = "idle"]
  /\ pid' = [pid EXCEPT ![c] = None] /\ eid' = [eid EXCEPT ![c] = None]
  /\ prow' = [prow EXCEPT ![c] = None] /\ erow' = [erow EXCEPT ![c] = None]

\* It goes on with an id or a row.
WithProject(c, place, row) ==
  /\ step' = [step EXCEPT ![c] = place] /\ prow' = [prow EXCEPT ![c] = row]
  /\ UNCHANGED <<op, pid, eid, erow>>

WithEnv(c, place, row) ==
  /\ step' = [step EXCEPT ![c] = place] /\ erow' = [erow EXCEPT ![c] = row]
  /\ UNCHANGED <<op, pid, eid, prow>>

ForProject(c, place, p) ==
  /\ step' = [step EXCEPT ![c] = place] /\ pid' = [pid EXCEPT ![c] = p]
  /\ UNCHANGED <<op, eid, prow, erow>>

ForEnv(c, place, e) ==
  /\ step' = [step EXCEPT ![c] = place] /\ eid' = [eid EXCEPT ![c] = e]
  /\ UNCHANGED <<op, pid, prow, erow>>

\* Slip: the environment is not looked up.
RememberedUnchecked(p) == savedEnv[p]

\* load_project_environment_id: the remembered environment, if it still exists
\* and belongs to the project.
Remembered(p) ==
  IF savedEnv[p] # None /\ envs[savedEnv[p]] > 0 /\ Owner[savedEnv[p]] = p
  THEN savedEnv[p] ELSE None

\* restore_active.
RestoredProject ==
  IF savedProject # None /\ projects[savedProject] > 0
  THEN savedProject ELSE None

RestoredEnv ==
  IF RestoredProject = None THEN None ELSE Remembered(RestoredProject)

\* The process has started on what earlier runs stored.
Init ==
  /\ projects = [p \in Project |-> 1] /\ envs = [e \in Env |-> 1] /\ edits = 1
  /\ savedProject \in Project \cup {None}
  /\ savedEnv \in [Project -> Env \cup {None}]
  /\ \A p \in Project : savedEnv[p] # None => Owner[savedEnv[p]] = p
  /\ activeProject = RestoredProject /\ projectCache = None
  /\ activeEnv = RestoredEnv /\ envCache = None
  /\ op = [c \in Caller |-> "idle"] /\ step = [c \in Caller |-> "idle"]
  /\ pid = [c \in Caller |-> None] /\ eid = [c \in Caller |-> None]
  /\ prow = [c \in Caller |-> None] /\ erow = [c \in Caller |-> None]
  /\ merged = [project |-> None, env |-> None]
  /\ commands = 0 /\ restarts = 0 /\ history = "serial"

-----------------------------------------------------------------------------
(* A command starts.  Commands that take an id are given any id, or none    *)
(* where the command accepts none.                                          *)

FirstStep(o, p) ==
  IF o = "SetProject" THEN IF p = None THEN "Write" ELSE "ReadProject"
  ELSE IF o \in {"SetEnv", "Variables"} THEN "GetProject"
  ELSE IF o \in {"DeleteProject", "DeleteEnv"} THEN "Drop"
  ELSE IF o = "SaveEnv" THEN "Check" ELSE "Store"

AtRest == \A c \in Caller : op[c] = "idle"

Begin(c) ==
  /\ op[c] = "idle"
  /\ history' = IF AtRest THEN history ELSE "overlapping"
  /\ IF history' = "serial" THEN commands < MaxCommands
     ELSE commands + restarts < MaxOverlapping
  /\ commands' = commands + 1
  /\ \E o \in Ops, p \in Project \cup {None}, e \in Env \cup {None} :
       /\ o \in {"SaveProject", "DeleteProject"} => p # None
       /\ o \in {"SaveEnv", "DeleteEnv"} => e # None
       /\ o \notin {"SetProject", "SaveProject", "DeleteProject"} => p = None
       /\ o \notin {"SetEnv", "SaveEnv", "DeleteEnv"} => e = None
       /\ op' = [op EXCEPT ![c] = o]
       /\ step' = [step EXCEPT ![c] = FirstStep(o, p)]
       /\ pid' = [pid EXCEPT ![c] = p] /\ eid' = [eid EXCEPT ![c] = e]
  /\ UNCHANGED <<rowVars, settingVars, memoryVars, prow, erow, merged,
                 restarts>>

-----------------------------------------------------------------------------
(* set_active_project *)

ReadProject(c) ==
  /\ At(c, "SetProject", "ReadProject")
  /\ LET p == pid[c] IN
       \/ projects[p] = 0 /\ Return(c)
       \/ /\ projects[p] > 0
          /\ WithProject(c, "ReadSetting", Row(p, projects[p]))
  /\ UNCHANGED <<rowVars, settingVars, memoryVars, merged, bounds>>

\* load_project_environment_id, from here: the setting, then the environment.
ReadSetting(c) ==
  /\ At(c, "SetProject", "ReadSetting")
  /\ LET e == savedEnv[pid[c]] IN
       ForEnv(c, IF e = None THEN "Write" ELSE "CheckEnv", e)
  /\ UNCHANGED <<rowVars, settingVars, memoryVars, merged, bounds>>

CheckEnv(c) ==
  /\ At(c, "SetProject", "CheckEnv")
  /\ IF envs[eid[c]] > 0 /\ Owner[eid[c]] = pid[c]
     THEN Goto(c, "ReadEnv") ELSE ForEnv(c, "Write", None)
  /\ UNCHANGED <<rowVars, settingVars, memoryVars, merged, bounds>>

\* The second query of the environment; set_active_environment uses the same
\* query and also checks the owner.
ReadEnv(c) ==
  /\ op[c] \in {"SetProject", "SetEnv"} /\ step[c] = "ReadEnv"
  /\ LET e == eid[c]
         ok == envs[e] > 0 /\ Owner[e] = pid[c]
     IN \/ ~ok /\ Return(c)
        \/ ok /\ WithEnv(c, "Write", Row(e, envs[e]))
  /\ UNCHANGED <<rowVars, settingVars, memoryVars, merged, bounds>>

WriteProject(c) ==
  /\ At(c, "SetProject", "Write")
  /\ activeProject' = pid[c] /\ projectCache' = prow[c]
  /\ activeEnv' = eid[c] /\ envCache' = erow[c]
  /\ Goto(c, "Persist")
  /\ UNCHANGED <<rowVars, settingVars, merged, bounds>>

PersistProject(c) ==
  /\ At(c, "SetProject", "Persist")
  /\ savedProject' = pid[c]
  /\ Goto(c, "GetProject")
  /\ UNCHANGED <<rowVars, savedEnv, memoryVars, merged, bounds>>

-----------------------------------------------------------------------------
(* active_project: the answer, and what the caller does with it.            *)

UseProject(c, row) ==
  \/ op[c] = "SetEnv" /\ row = None /\ Return(c)
  \/ /\ op[c] = "SetEnv" /\ row # None
     /\ ForProject(c, IF eid[c] = None THEN "Write" ELSE "ReadEnv", row.id)
  \/ op[c] = "Variables" /\ WithProject(c, "GetEnv", row)
  \/ op[c] \notin {"SetEnv", "Variables"} /\ Return(c)

GetProject(c) ==
  /\ step[c] = "GetProject"
  /\ \/ projectCache # None /\ UseProject(c, projectCache)
     \/ /\ projectCache = None /\ activeProject = None
        /\ UseProject(c, None)
     \/ /\ projectCache = None /\ activeProject # None
        /\ ForProject(c, "FetchProject", activeProject)
  /\ UNCHANGED <<rowVars, settingVars, memoryVars, merged, bounds>>

FetchProject(c) ==
  /\ step[c] = "FetchProject"
  /\ LET p == pid[c] IN
       \/ projects[p] = 0 /\ Return(c)
       \/ /\ projects[p] > 0
          /\ WithProject(c, "FillProject", Row(p, projects[p]))
  /\ UNCHANGED <<rowVars, settingVars, memoryVars, merged, bounds>>

\* Slip: the id is not compared again after the query.
FillProjectUnchecked(c) ==
  /\ step[c] = "FillProject"
  /\ projectCache' = IF projectCache = None THEN prow[c] ELSE projectCache
  /\ UseProject(c, prow[c])
  /\ UNCHANGED <<rowVars, settingVars, activeProject, activeEnv, envCache,
                 merged, bounds>>

\* Slip: the reader starts over until somebody else has filled the cache.
FillProjectWaits(c) ==
  /\ step[c] = "FillProject"
  /\ \/ projectCache = None /\ Goto(c, "GetProject")
     \/ projectCache # None /\ UseProject(c, projectCache)
  /\ UNCHANGED <<rowVars, settingVars, memoryVars, merged, bounds>>

\* Back under the lock: start over if the id changed, fill an empty cache only.
FillProject(c) ==
  /\ step[c] = "FillProject"
  /\ \/ /\ activeProject # pid[c]
        /\ Goto(c, "GetProject")
        /\ UNCHANGED projectCache
     \/ /\ activeProject = pid[c]
        /\ projectCache' = IF projectCache = None THEN prow[c]
                           ELSE projectCache
        /\ UseProject(c, prow[c])
  /\ UNCHANGED <<rowVars, settingVars, activeProject, activeEnv, envCache,
                 merged, bounds>>

-----------------------------------------------------------------------------
(* active_environment *)

UseEnv(c, row) ==
  /\ Return(c)
  /\ merged' = IF op[c] = "Variables"
               THEN [project |-> prow[c], env |-> row] ELSE merged

GetEnv(c) ==
  /\ step[c] = "GetEnv"
  /\ \/ envCache # None /\ UseEnv(c, envCache)
     \/ envCache = None /\ activeEnv = None /\ UseEnv(c, None)
     \/ /\ envCache = None /\ activeEnv # None
        /\ ForEnv(c, "FetchEnv", activeEnv)
        /\ UNCHANGED merged
  /\ UNCHANGED <<rowVars, settingVars, memoryVars, bounds>>

FetchEnv(c) ==
  /\ step[c] = "FetchEnv"
  /\ LET e == eid[c] IN
       \/ envs[e] = 0 /\ Return(c)
       \/ /\ envs[e] > 0
          /\ WithEnv(c, "FillEnv", Row(e, envs[e]))
  /\ UNCHANGED <<rowVars, settingVars, memoryVars, merged, bounds>>

FillEnv(c) ==
  /\ step[c] = "FillEnv"
  /\ \/ /\ activeEnv # eid[c]
        /\ Goto(c, "GetEnv")
        /\ UNCHANGED <<envCache, merged>>
     \/ /\ activeEnv = eid[c]
        /\ envCache' = IF envCache = None THEN erow[c] ELSE envCache
        /\ UseEnv(c, erow[c])
  /\ UNCHANGED <<rowVars, settingVars, activeProject, projectCache, activeEnv,
                 bounds>>

-----------------------------------------------------------------------------
(* set_active_environment, after active_project and the query *)

WriteEnv(c) ==
  /\ At(c, "SetEnv", "Write")
  /\ activeEnv' = eid[c] /\ envCache' = erow[c]
  /\ Goto(c, "Persist")
  /\ UNCHANGED <<rowVars, settingVars, activeProject, projectCache, merged,
                 bounds>>

PersistEnv(c) ==
  /\ At(c, "SetEnv", "Persist")
  /\ savedEnv' = [savedEnv EXCEPT ![pid[c]] = eid[c]]
  /\ Goto(c, "GetEnv")
  /\ UNCHANGED <<rowVars, savedProject, memoryVars, merged, bounds>>

-----------------------------------------------------------------------------
(* save_project and save_environment: an upsert, then the refresh of the    *)
(* cache.  save_environment first looks for the project, and the foreign    *)
(* key looks again.                                                         *)

Stored(version) ==
  history' = IF version = 0 /\ history = "serial" THEN "stored again"
             ELSE history

StoreProject(c) ==
  /\ At(c, "SaveProject", "Store")
  /\ edits' = edits + 1
  /\ projects' = [projects EXCEPT ![pid[c]] = edits']
  /\ Stored(projects[pid[c]])
  /\ WithProject(c, "Refresh", Row(pid[c], edits'))
  /\ UNCHANGED <<envs, settingVars, memoryVars, merged, commands, restarts>>

RefreshProject(c) ==
  /\ At(c, "SaveProject", "Refresh")
  /\ projectCache' = IF activeProject = pid[c] THEN prow[c]
                     ELSE projectCache
  /\ Return(c)
  /\ UNCHANGED <<rowVars, settingVars, activeProject, activeEnv, envCache,
                 merged, bounds>>

CheckOwner(c) ==
  /\ At(c, "SaveEnv", "Check")
  /\ IF projects[Owner[eid[c]]] = 0 THEN Return(c) ELSE Goto(c, "Store")
  /\ UNCHANGED <<rowVars, settingVars, memoryVars, merged, bounds>>

StoreEnv(c) ==
  /\ At(c, "SaveEnv", "Store")
  /\ \/ projects[Owner[eid[c]]] = 0 /\ Return(c)
        /\ UNCHANGED <<envs, edits, history>>
     \/ /\ projects[Owner[eid[c]]] > 0
        /\ edits' = edits + 1
        /\ envs' = [envs EXCEPT ![eid[c]] = edits']
        /\ Stored(envs[eid[c]])
        /\ WithEnv(c, "Refresh", Row(eid[c], edits'))
  /\ UNCHANGED <<projects, settingVars, memoryVars, merged, commands, restarts>>

RefreshEnv(c) ==
  /\ At(c, "SaveEnv", "Refresh")
  /\ envCache' = IF activeEnv = eid[c] THEN erow[c] ELSE envCache
  /\ Return(c)
  /\ UNCHANGED <<rowVars, settingVars, activeProject, projectCache, activeEnv,
                 merged, bounds>>

-----------------------------------------------------------------------------
(* delete_project: the row with its environments (ON DELETE CASCADE), then  *)
(* the context, then the settings.                                          *)

DropProject(c) ==
  /\ At(c, "DeleteProject", "Drop")
  /\ projects' = [projects EXCEPT ![pid[c]] = 0]
  /\ envs' = [e \in Env |-> IF Owner[e] = pid[c] THEN 0 ELSE envs[e]]
  /\ Goto(c, "Clear")
  /\ UNCHANGED <<edits, settingVars, memoryVars, merged, bounds>>

ClearProject(c) ==
  /\ At(c, "DeleteProject", "Clear")
  /\ \/ /\ activeProject = pid[c]
        /\ activeProject' = None /\ projectCache' = None
        /\ activeEnv' = None /\ envCache' = None
        /\ Goto(c, "Persist")
     \/ activeProject # pid[c] /\ Return(c) /\ UNCHANGED memoryVars
  /\ UNCHANGED <<rowVars, settingVars, merged, bounds>>

PersistCleared(c) ==
  /\ At(c, "DeleteProject", "Persist")
  /\ savedProject' = None
  /\ savedEnv' = [savedEnv EXCEPT ![pid[c]] = None]
  /\ Return(c)
  /\ UNCHANGED <<rowVars, memoryVars, merged, bounds>>

-----------------------------------------------------------------------------
(* delete_environment: the row, a look under the read lock, then the write  *)
(* lock, then the setting of the project seen at the look.                  *)

DropEnv(c) ==
  /\ At(c, "DeleteEnv", "Drop")
  /\ envs' = [envs EXCEPT ![eid[c]] = 0]
  /\ Goto(c, "Look")
  /\ UNCHANGED <<projects, edits, settingVars, memoryVars, merged, bounds>>

LookEnv(c) ==
  /\ At(c, "DeleteEnv", "Look")
  /\ \/ /\ activeEnv = eid[c]
        /\ ForProject(c, "Clear", activeProject)
     \/ activeEnv # eid[c] /\ Return(c)
  /\ UNCHANGED <<rowVars, settingVars, memoryVars, merged, bounds>>

ClearEnv(c) ==
  /\ At(c, "DeleteEnv", "Clear")
  /\ activeEnv' = None /\ envCache' = None
  /\ IF pid[c] = None THEN Return(c) ELSE Goto(c, "Persist")
  /\ UNCHANGED <<rowVars, settingVars, activeProject, projectCache, merged,
                 bounds>>

PersistEnvCleared(c) ==
  /\ At(c, "DeleteEnv", "Persist")
  /\ savedEnv' = [savedEnv EXCEPT ![pid[c]] = None]
  /\ Return(c)
  /\ UNCHANGED <<rowVars, savedProject, memoryVars, merged, bounds>>

-----------------------------------------------------------------------------
(* The process ends at any point and starts again: restore_active runs      *)
(* before any command is served.                                            *)

Restart ==
  /\ restarts < MaxRestarts /\ restarts' = restarts + 1
  /\ history' = IF AtRest THEN history ELSE "cut off"
  /\ activeProject' = RestoredProject /\ activeEnv' = RestoredEnv
  /\ projectCache' = None /\ envCache' = None
  /\ op' = [c \in Caller |-> "idle"] /\ step' = [c \in Caller |-> "idle"]
  /\ pid' = [c \in Caller |-> None] /\ eid' = [c \in Caller |-> None]
  /\ prow' = [c \in Caller |-> None] /\ erow' = [c \in Caller |-> None]
  /\ UNCHANGED <<rowVars, settingVars, merged, commands>>

-----------------------------------------------------------------------------

Step(c) ==
  \/ ReadProject(c) \/ ReadSetting(c) \/ CheckEnv(c) \/ ReadEnv(c)
  \/ WriteProject(c) \/ PersistProject(c)
  \/ GetProject(c) \/ FetchProject(c) \/ FillProject(c)
  \/ GetEnv(c) \/ FetchEnv(c) \/ FillEnv(c)
  \/ WriteEnv(c) \/ PersistEnv(c)
  \/ StoreProject(c) \/ RefreshProject(c)
  \/ CheckOwner(c) \/ StoreEnv(c) \/ RefreshEnv(c)
  \/ DropProject(c) \/ ClearProject(c) \/ PersistCleared(c)
  \/ DropEnv(c) \/ LookEnv(c) \/ ClearEnv(c) \/ PersistEnvCleared(c)

Next == Restart \/ \E c \in Caller : Begin(c) \/ Step(c)

Spec == Init /\ [][Next]_vars

\* The runtime drives every command that was started.
FairSpec == Spec /\ \A c \in Caller : WF_vars(Step(c))

-----------------------------------------------------------------------------
(* Properties *)

TypeOK ==
  /\ projects \in [Project -> Nat] /\ envs \in [Env -> Nat] /\ edits \in Nat
  /\ savedProject \in Project \cup {None}
  /\ savedEnv \in [Project -> Env \cup {None}]
  /\ activeProject \in Project \cup {None}
  /\ projectCache \in ProjectRow \cup {None}
  /\ activeEnv \in Env \cup {None}
  /\ envCache \in EnvRow \cup {None}
  /\ op \in [Caller -> Command \cup {"idle"}]
  /\ step \in [Caller -> Place \cup {"idle"}]
  /\ pid \in [Caller -> Project \cup {None}]
  /\ eid \in [Caller -> Env \cup {None}]
  /\ prow \in [Caller -> ProjectRow \cup {None}]
  /\ erow \in [Caller -> EnvRow \cup {None}]
  /\ merged \in [project : ProjectRow \cup {None}, env : EnvRow \cup {None}]
  /\ commands \in Nat /\ restarts \in Nat
  /\ history \in {"serial", "overlapping", "cut off",
                 "stored again"}

\* A cached row is the row of the active id, whatever switches happen while a
\* reader that missed the cache is at the database.
CacheOfActiveId ==
  /\ projectCache # None => projectCache.id = activeProject
  /\ envCache # None => envCache.id = activeEnv

\* The environment remembered for a project is one of its own.
RememberedEnvIsOwn == \A p \in Project :
  savedEnv[p] # None => Owner[savedEnv[p]] = p

\* What restore_active puts in place exists, and the environment belongs to the
\* project, wherever the previous run was cut off.
RestoredContextValid ==
  [][restarts' # restarts =>
       /\ activeProject' # None => projects[activeProject'] > 0
       /\ activeEnv' # None => envs[activeEnv'] > 0
                              /\ Owner[activeEnv'] = activeProject']_vars

\* Every command returns, although a reader starts over whenever the context
\* was switched under it.
CommandsReturn == \A c \in Caller : (op[c] # "idle") ~> (op[c] = "idle")

\* The active environment belongs to the active project.
EnvOfActiveProject ==
  activeEnv # None => activeProject # None /\ Owner[activeEnv] = activeProject

\* Once every command has returned, a cached row is the row in the database.
CacheIsFresh ==
  AtRest =>
    /\ projectCache # None => projectCache.version = projects[projectCache.id]
    /\ envCache # None => envCache.version = envs[envCache.id]

\* Once every command has returned, a restart would bring back the context the
\* user sees.
RestartKeepsContext ==
  AtRest => RestoredProject = activeProject /\ RestoredEnv = activeEnv

\* The variables of one request come from one project: the environment merged
\* over the project's variables belongs to that project.
VariablesOfOneProject ==
  merged.project # None /\ merged.env # None =>
    Owner[merged.env.id] = merged.project.id

\* The same four where no command overlapped another or was cut off.

\* A switch rebinds the environment, a deletion clears it.
SerialEnvOfActiveProject == history = "serial" => EnvOfActiveProject

\* A save reaches the cache, whether it was filled or not.
SerialCacheIsFresh == history = "serial" => CacheIsFresh

\* Every command leaves the settings saying what the memory says.
SerialRestartKeepsContext == history = "serial" => RestartKeepsContext

\* A request between two switches sees one project.
SerialVariablesOfOneProject == history = "serial" => VariablesOfOneProject

\* Caches and settings fit each other, whatever overlaps or is cut off; and while
\* commands do not overlap, memory, caches, settings and requests see one context.
ContextFits ==
  /\ TypeOK /\ CacheOfActiveId /\ RememberedEnvIsOwn
  /\ SerialEnvOfActiveProject /\ SerialCacheIsFresh
  /\ SerialRestartKeepsContext /\ SerialVariablesOfOneProject
=============================================================================
