-------------------------- MODULE ActiveContext_proofs --------------------------
(***************************************************************************)
(* Theorems of ActiveContext, for any projects, environments, callers and   *)
(* bounds.                                                                  *)
(***************************************************************************)
EXTENDS ActiveContext, TLAPS

(***************************************************************************)
(* The inductive invariant, by what each part is about.                     *)
(***************************************************************************)

\* The ids a caller works with, at the steps that use them.
Ids ==
  \A c \in Caller :
    /\ op[c] = "idle" <=> step[c] = "idle"
    /\ op[c] \in {"SaveProject", "DeleteProject"} => pid[c] \in Project
    /\ op[c] \in {"SaveEnv", "DeleteEnv"} => eid[c] \in Env
    /\ step[c] \in {"ReadProject", "ReadSetting", "CheckEnv", "FetchProject",
                     "FillProject", "ReadEnv"} => pid[c] \in Project
    /\ op[c] = "SetEnv" /\ step[c] \in {"Write", "Persist"} => pid[c] \in Project
    /\ op[c] = "DeleteEnv" /\ step[c] = "Persist" => pid[c] \in Project
    /\ step[c] \in {"CheckEnv", "ReadEnv", "FetchEnv", "FillEnv"} => eid[c] \in Env

\* The rows it holds are those of its ids, when it writes them to the cache.
Rows ==
  \A c \in Caller :
    /\ op[c] = "idle" => prow[c] = None /\ erow[c] = None
    /\ op[c] = "SetProject" /\ step[c] \in {"ReadProject", "ReadSetting", "CheckEnv",
                                            "ReadEnv", "Write"} =>
         (prow[c] # None => prow[c].id = pid[c])
    /\ op[c] = "SetProject" /\ step[c] \in {"ReadProject", "ReadSetting", "CheckEnv",
                                            "ReadEnv"} => erow[c] = None
    /\ op[c] = "SetEnv" /\ step[c] \in {"GetProject", "FetchProject", "FillProject",
                                        "ReadEnv"} => erow[c] = None
    /\ step[c] = "Write" => (erow[c] # None => erow[c].id = eid[c])
    /\ step[c] = "FillProject" \/ (op[c] = "SaveProject" /\ step[c] = "Refresh") =>
         prow[c] # None /\ prow[c].id = pid[c]
    /\ step[c] = "FillEnv" \/ (op[c] = "SaveEnv" /\ step[c] = "Refresh") =>
         erow[c] # None /\ erow[c].id = eid[c]

\* What is about to be remembered for a project is one of its environments.
OwnPersisted ==
  \A c \in Caller :
    op[c] = "SetEnv" /\ step[c] \in {"Write", "Persist"} /\ eid[c] # None =>
      Owner[eid[c]] = pid[c]

(***************************************************************************)
(* Rows, which the steps need not be taken apart for.                       *)
(***************************************************************************)

\* A row made of an id and a version.
LEMMA RowFacts ==
  ASSUME NEW i, NEW v \in Nat
  PROVE  /\ Row(i, v).id = i /\ Row(i, v).version = v
         /\ i \in Project => Row(i, v) \in ProjectRow
         /\ i \in Env => Row(i, v) \in EnvRow
  BY DEF Row, ProjectRow, EnvRow

\* A row is of an id, and is not the absence of one.
LEMMA RowIds ==
  /\ \A r \in ProjectRow : r # None /\ r.id \in Project /\ r.version \in Nat
  /\ \A r \in EnvRow : r # None /\ r.id \in Env /\ r.version \in Nat
  BY ContextAssumption DEF ProjectRow, EnvRow

\* The types of rows, memory, settings and calls ...
Typed ==
  /\ op \in [Caller -> Command \cup {"idle"}] /\ step \in [Caller -> Place \cup {"idle"}]
  /\ pid \in [Caller -> Project \cup {None}] /\ eid \in [Caller -> Env \cup {None}]
  /\ activeProject \in Project \cup {None} /\ activeEnv \in Env \cup {None}
  /\ savedProject \in Project \cup {None} /\ savedEnv \in [Project -> Env \cup {None}]
  /\ projects \in [Project -> Nat] /\ envs \in [Env -> Nat] /\ edits \in Nat
  /\ projectCache \in ProjectRow \cup {None} /\ envCache \in EnvRow \cup {None}
  /\ prow \in [Caller -> ProjectRow \cup {None}] /\ erow \in [Caller -> EnvRow \cup {None}]

\* A step keeps the ids.
LEMMA IdStep ==
  ASSUME Typed, CacheOfActiveId, Ids, [Next]_vars
  PROVE  Ids'
<1> USE ContextAssumption, RowFacts, RowIds
    DEF Typed, CacheOfActiveId, Ids, Command, Place, At, Goto, Return,
        WithProject, WithEnv, ForProject, ForEnv, UseProject, UseEnv, Stored,
        rowVars, settingVars, memoryVars, callVars, bounds
<1>1. ASSUME NEW c \in Caller, Step(c) PROVE Ids'
  <2>1. CASE ReadProject(c) BY <2>1 DEF ReadProject
  <2>2. CASE ReadSetting(c) BY <2>2 DEF ReadSetting
  <2>3. CASE CheckEnv(c) BY <2>3 DEF CheckEnv
  <2>4. CASE ReadEnv(c) BY <2>4 DEF ReadEnv
  <2>5. CASE WriteProject(c) BY <2>5 DEF WriteProject
  <2>6. CASE PersistProject(c) BY <2>6 DEF PersistProject
  <2>7. CASE GetProject(c) BY <2>7 DEF GetProject
  <2>8. CASE FetchProject(c) BY <2>8 DEF FetchProject
  <2>9. CASE FillProject(c) BY <2>9 DEF FillProject
  <2>10. CASE GetEnv(c) BY <2>10 DEF GetEnv
  <2>11. CASE FetchEnv(c) BY <2>11 DEF FetchEnv
  <2>12. CASE FillEnv(c) BY <2>12 DEF FillEnv
  <2>13. CASE WriteEnv(c) BY <2>13 DEF WriteEnv
  <2>14. CASE PersistEnv(c) BY <2>14 DEF PersistEnv
  <2>15. CASE StoreProject(c)
    <3>1. op[c] = "SaveProject" /\ UNCHANGED <<settingVars, memoryVars>>
      BY <2>15 DEF StoreProject
    <3>2. WithProject(c, "Refresh", Row(pid[c], edits + 1))
      BY ONLY <2>15 DEF StoreProject
    <3>3. Row(pid[c], edits + 1) # None /\ Row(pid[c], edits + 1).id = pid[c]
      BY <3>1 DEF ProjectRow
    <3> QED BY <3>1, <3>2, <3>3
  <2>16. CASE RefreshProject(c) BY <2>16 DEF RefreshProject
  <2>17. CASE CheckOwner(c) BY <2>17 DEF CheckOwner
  <2>18. CASE StoreEnv(c)
    <3>1. op[c] = "SaveEnv" /\ UNCHANGED <<settingVars, memoryVars>>
      BY <2>18 DEF StoreEnv
    <3>2. CASE Return(c) BY <3>1, <3>2
    <3>3. CASE WithEnv(c, "Refresh", Row(eid[c], edits + 1))
      <4>1. Row(eid[c], edits + 1) # None /\ Row(eid[c], edits + 1).id = eid[c]
        BY <3>1 DEF EnvRow
      <4> QED BY <3>1, <3>3, <4>1
    <3> QED BY <2>18, <3>2, <3>3 DEF StoreEnv
  <2>19. CASE RefreshEnv(c) BY <2>19 DEF RefreshEnv
  <2>20. CASE DropProject(c) BY <2>20 DEF DropProject
  <2>21. CASE ClearProject(c) BY <2>21 DEF ClearProject
  <2>22. CASE PersistCleared(c) BY <2>22 DEF PersistCleared
  <2>23. CASE DropEnv(c) BY <2>23 DEF DropEnv
  <2>24. CASE LookEnv(c) BY <2>24 DEF LookEnv
  <2>25. CASE ClearEnv(c) BY <2>25 DEF ClearEnv
  <2>26. CASE PersistEnvCleared(c) BY <2>26 DEF PersistEnvCleared
  <2> QED
    BY <1>1, <2>1, <2>2, <2>3, <2>4, <2>5, <2>6, <2>7, <2>8, <2>9, <2>10, <2>11,
       <2>12, <2>13, <2>14, <2>15, <2>16, <2>17, <2>18, <2>19, <2>20, <2>21,
       <2>22, <2>23, <2>24, <2>25, <2>26 DEF Step
<1>2. ASSUME NEW c \in Caller, Begin(c) PROVE Ids'
  BY <1>2 DEF Begin, FirstStep, Command, Place
<1>3. CASE Restart BY <1>3 DEF Restart, RestoredProject, RestoredEnv, Remembered
<1>4. CASE UNCHANGED vars BY <1>4 DEF vars
<1> QED BY <1>1, <1>2, <1>3, <1>4 DEF Next

\* A step keeps rows and caches apart from other ids.
LEMMA CacheStep ==
  ASSUME Typed, Ids, Rows, CacheOfActiveId, [Next]_vars
  PROVE  Rows' /\ CacheOfActiveId'
<1> USE ContextAssumption, RowFacts, RowIds
    DEF Typed, Ids, Rows, CacheOfActiveId, At, Goto, Return, WithProject,
        WithEnv, ForProject, ForEnv, UseProject, UseEnv, Stored, rowVars,
        settingVars, memoryVars, callVars, bounds
<1>1. ASSUME NEW c \in Caller, Step(c) PROVE Rows' /\ CacheOfActiveId'
  <2>1. CASE ReadProject(c) BY <2>1 DEF ReadProject
  <2>2. CASE ReadSetting(c) BY <2>2 DEF ReadSetting
  <2>3. CASE CheckEnv(c) BY <2>3 DEF CheckEnv
  <2>4. CASE ReadEnv(c) BY <2>4 DEF ReadEnv
  <2>5. CASE WriteProject(c) BY <2>5 DEF WriteProject
  <2>6. CASE PersistProject(c) BY <2>6 DEF PersistProject
  <2>7. CASE GetProject(c) BY <2>7 DEF GetProject
  <2>8. CASE FetchProject(c) BY <2>8 DEF FetchProject
  <2>9. CASE FillProject(c)
    <3>1. Rows'
      BY <2>9 DEF FillProject
    <3>2. /\ projectCache' # projectCache => projectCache' = prow[c] /\ activeProject = pid[c]
          /\ UNCHANGED <<activeProject, activeEnv, envCache>> /\ step[c] = "FillProject"
      <4> HIDE DEF UseProject, UseEnv, Goto
      <4> QED BY ONLY <2>9 DEF FillProject
    <3>3. prow[c].id = pid[c]
      BY ONLY Rows, <3>2, c \in Caller DEF Rows
    <3>4. CacheOfActiveId'
      BY <3>2, <3>3
    <3> QED BY <3>1, <3>4
  <2>10. CASE GetEnv(c) BY <2>10 DEF GetEnv
  <2>11. CASE FetchEnv(c) BY <2>11 DEF FetchEnv
  <2>12. CASE FillEnv(c)
    <3>1. Rows'
      BY <2>12 DEF FillEnv
    <3>2. /\ envCache' # envCache => envCache' = erow[c] /\ activeEnv = eid[c]
          /\ UNCHANGED <<activeEnv, activeProject, projectCache>> /\ step[c] = "FillEnv"
      <4> HIDE DEF UseProject, UseEnv, Goto
      <4> QED BY ONLY <2>12 DEF FillEnv
    <3>3. erow[c].id = eid[c]
      BY ONLY Rows, <3>2, c \in Caller DEF Rows
    <3>4. CacheOfActiveId'
      BY <3>2, <3>3
    <3> QED BY <3>1, <3>4
  <2>13. CASE WriteEnv(c) BY <2>13 DEF WriteEnv
  <2>14. CASE PersistEnv(c) BY <2>14 DEF PersistEnv
  <2>15. CASE StoreProject(c)
    <3>1. op[c] = "SaveProject" /\ UNCHANGED <<settingVars, memoryVars>>
      BY <2>15 DEF StoreProject
    <3>2. WithProject(c, "Refresh", Row(pid[c], edits + 1))
      BY ONLY <2>15 DEF StoreProject
    <3>3. Row(pid[c], edits + 1) # None /\ Row(pid[c], edits + 1).id = pid[c]
      BY <3>1 DEF ProjectRow
    <3> QED BY <3>1, <3>2, <3>3
  <2>16. CASE RefreshProject(c) BY <2>16 DEF RefreshProject
  <2>17. CASE CheckOwner(c) BY <2>17 DEF CheckOwner
  <2>18. CASE StoreEnv(c)
    <3>1. op[c] = "SaveEnv" /\ UNCHANGED <<settingVars, memoryVars>>
      BY <2>18 DEF StoreEnv
    <3>2. CASE Return(c) BY <3>1, <3>2
    <3>3. CASE WithEnv(c, "Refresh", Row(eid[c], edits + 1))
      <4>1. Row(eid[c], edits + 1) # None /\ Row(eid[c], edits + 1).id = eid[c]
        BY <3>1 DEF EnvRow
      <4> QED BY <3>1, <3>3, <4>1
    <3> QED BY <2>18, <3>2, <3>3 DEF StoreEnv
  <2>19. CASE RefreshEnv(c) BY <2>19 DEF RefreshEnv
  <2>20. CASE DropProject(c) BY <2>20 DEF DropProject
  <2>21. CASE ClearProject(c) BY <2>21 DEF ClearProject
  <2>22. CASE PersistCleared(c) BY <2>22 DEF PersistCleared
  <2>23. CASE DropEnv(c) BY <2>23 DEF DropEnv
  <2>24. CASE LookEnv(c) BY <2>24 DEF LookEnv
  <2>25. CASE ClearEnv(c) BY <2>25 DEF ClearEnv
  <2>26. CASE PersistEnvCleared(c) BY <2>26 DEF PersistEnvCleared
  <2> QED
    BY <1>1, <2>1, <2>2, <2>3, <2>4, <2>5, <2>6, <2>7, <2>8, <2>9, <2>10, <2>11,
       <2>12, <2>13, <2>14, <2>15, <2>16, <2>17, <2>18, <2>19, <2>20, <2>21,
       <2>22, <2>23, <2>24, <2>25, <2>26 DEF Step
<1>2. ASSUME NEW c \in Caller, Begin(c) PROVE Rows' /\ CacheOfActiveId'
  BY <1>2 DEF Begin, FirstStep, Command, Place
<1>3. CASE Restart BY <1>3 DEF Restart, RestoredProject, RestoredEnv, Remembered
<1>4. CASE UNCHANGED vars BY <1>4 DEF vars
<1> QED BY <1>1, <1>2, <1>3, <1>4 DEF Next

\* A step remembers own environments only.
LEMMA OwnStep ==
  ASSUME Typed, Ids, OwnPersisted, RememberedEnvIsOwn, [Next]_vars
  PROVE  OwnPersisted' /\ RememberedEnvIsOwn'
<1> USE ContextAssumption, RowFacts, RowIds
    DEF Typed, Ids, OwnPersisted, RememberedEnvIsOwn, At, Goto, Return,
        WithProject, WithEnv, ForProject, ForEnv, UseProject, UseEnv, Stored,
        rowVars, settingVars, memoryVars, callVars, bounds
<1>1. ASSUME NEW c \in Caller, Step(c) PROVE OwnPersisted' /\ RememberedEnvIsOwn'
  <2>1. CASE ReadProject(c) BY <2>1 DEF ReadProject
  <2>2. CASE ReadSetting(c) BY <2>2 DEF ReadSetting
  <2>3. CASE CheckEnv(c) BY <2>3 DEF CheckEnv
  <2>4. CASE ReadEnv(c) BY <2>4 DEF ReadEnv
  <2>5. CASE WriteProject(c) BY <2>5 DEF WriteProject
  <2>6. CASE PersistProject(c) BY <2>6 DEF PersistProject
  <2>7. CASE GetProject(c) BY <2>7 DEF GetProject
  <2>8. CASE FetchProject(c) BY <2>8 DEF FetchProject
  <2>9. CASE FillProject(c) BY <2>9 DEF FillProject
  <2>10. CASE GetEnv(c) BY <2>10 DEF GetEnv
  <2>11. CASE FetchEnv(c) BY <2>11 DEF FetchEnv
  <2>12. CASE FillEnv(c) BY <2>12 DEF FillEnv
  <2>13. CASE WriteEnv(c) BY <2>13 DEF WriteEnv
  <2>14. CASE PersistEnv(c) BY <2>14 DEF PersistEnv
  <2>15. CASE StoreProject(c) BY <2>15 DEF StoreProject
  <2>16. CASE RefreshProject(c) BY <2>16 DEF RefreshProject
  <2>17. CASE CheckOwner(c) BY <2>17 DEF CheckOwner
  <2>18. CASE StoreEnv(c)
    <3>1. op[c] = "SaveEnv" /\ UNCHANGED <<settingVars, memoryVars>>
      BY <2>18 DEF StoreEnv
    <3>2. CASE Return(c) BY <3>1, <3>2
    <3>3. CASE WithEnv(c, "Refresh", Row(eid[c], edits + 1))
      <4>1. Row(eid[c], edits + 1) # None /\ Row(eid[c], edits + 1).id = eid[c]
        BY <3>1 DEF EnvRow
      <4> QED BY <3>1, <3>3, <4>1
    <3> QED BY <2>18, <3>2, <3>3 DEF StoreEnv
  <2>19. CASE RefreshEnv(c) BY <2>19 DEF RefreshEnv
  <2>20. CASE DropProject(c) BY <2>20 DEF DropProject
  <2>21. CASE ClearProject(c) BY <2>21 DEF ClearProject
  <2>22. CASE PersistCleared(c) BY <2>22 DEF PersistCleared
  <2>23. CASE DropEnv(c) BY <2>23 DEF DropEnv
  <2>24. CASE LookEnv(c) BY <2>24 DEF LookEnv
  <2>25. CASE ClearEnv(c) BY <2>25 DEF ClearEnv
  <2>26. CASE PersistEnvCleared(c) BY <2>26 DEF PersistEnvCleared
  <2> QED
    BY <1>1, <2>1, <2>2, <2>3, <2>4, <2>5, <2>6, <2>7, <2>8, <2>9, <2>10, <2>11,
       <2>12, <2>13, <2>14, <2>15, <2>16, <2>17, <2>18, <2>19, <2>20, <2>21,
       <2>22, <2>23, <2>24, <2>25, <2>26 DEF Step
<1>2. ASSUME NEW c \in Caller, Begin(c) PROVE OwnPersisted' /\ RememberedEnvIsOwn'
  BY <1>2 DEF Begin, FirstStep, Command, Place
<1>3. CASE Restart BY <1>3 DEF Restart, RestoredProject, RestoredEnv, Remembered
<1>4. CASE UNCHANGED vars BY <1>4 DEF vars
<1> QED BY <1>1, <1>2, <1>3, <1>4 DEF Next

\* A step keeps the types of what it changes ...
LEMMA TypedStep ==
  ASSUME Typed, Ids, [Next]_vars
  PROVE  Typed'
<1> USE RowFacts
    DEF Typed, Ids, Command, Place, At, Goto, Return, WithProject, WithEnv,
        ForProject, ForEnv, UseProject, UseEnv, Stored, rowVars, settingVars,
        memoryVars, callVars, bounds
<1>1. ASSUME NEW c \in Caller, Step(c) PROVE Typed'
  <2>1. CASE ReadProject(c) BY <2>1 DEF ReadProject
  <2>2. CASE ReadSetting(c) BY <2>2 DEF ReadSetting
  <2>3. CASE CheckEnv(c) BY <2>3 DEF CheckEnv
  <2>4. CASE ReadEnv(c) BY <2>4 DEF ReadEnv
  <2>5. CASE WriteProject(c) BY <2>5 DEF WriteProject
  <2>6. CASE PersistProject(c) BY <2>6 DEF PersistProject
  <2>7. CASE GetProject(c)
    <3>0. UNCHANGED <<rowVars, settingVars, memoryVars>> BY ONLY <2>7 DEF GetProject
    <3>1. CASE projectCache # None /\ UseProject(c, projectCache)
      <4>1. projectCache \in ProjectRow /\ projectCache.id \in Project BY <3>1, RowIds
      <4> QED BY ONLY Typed, <3>0, <3>1, <4>1 DEF Typed, UseProject, Return, ForProject,
            WithProject, rowVars, settingVars, memoryVars, Place
    <3>2. CASE UseProject(c, None) BY <3>0, <3>2
    <3>3. CASE ForProject(c, "FetchProject", activeProject) BY <3>0, <3>3
    <3> QED BY ONLY <2>7, <3>1, <3>2, <3>3 DEF GetProject
  <2>8. CASE FetchProject(c) BY <2>8 DEF FetchProject
  <2>9. CASE FillProject(c)
    <3>1. UNCHANGED <<rowVars, settingVars, activeProject, activeEnv, envCache>>
      BY ONLY <2>9 DEF FillProject
    <3>2. projectCache' \in ProjectRow \cup {None}
      <4> HIDE DEF UseProject, Goto
      <4> QED BY ONLY Typed, <2>9, c \in Caller DEF Typed, FillProject
    <3>3. CASE Goto(c, "GetProject")
      BY ONLY Typed, <3>1, <3>2, <3>3 DEF Typed, Goto, rowVars, settingVars, Place
    <3>4. CASE UseProject(c, prow[c])
      <4>1. prow[c] # None => prow[c] \in ProjectRow /\ prow[c].id \in Project BY RowIds
      <4>2. prow[c] \in ProjectRow \cup {None} BY ONLY Typed, c \in Caller DEF Typed
      <4> QED BY ONLY Typed, <3>1, <3>2, <3>4, <4>1, <4>2 DEF Typed, UseProject, Return,
            ForProject, WithProject, rowVars, settingVars, Place
    <3> HIDE DEF UseProject, Goto
    <3> QED BY ONLY <2>9, <3>3, <3>4 DEF FillProject
  <2>10. CASE GetEnv(c) BY <2>10 DEF GetEnv
  <2>11. CASE FetchEnv(c) BY <2>11 DEF FetchEnv
  <2>12. CASE FillEnv(c) BY <2>12 DEF FillEnv
  <2>13. CASE WriteEnv(c) BY <2>13 DEF WriteEnv
  <2>14. CASE PersistEnv(c) BY <2>14 DEF PersistEnv
  <2>15. CASE StoreProject(c)
    <3>1. PICK n \in Nat : /\ edits' = n /\ projects' = [projects EXCEPT ![pid[c]] = n]
                         /\ WithProject(c, "Refresh", Row(pid[c], n))
                         /\ UNCHANGED <<envs, settingVars, memoryVars>> /\ op[c] = "SaveProject"
      <4> HIDE DEF WithProject, Stored, settingVars, memoryVars
      <4>1. edits + 1 \in Nat BY Typed
      <4> QED BY ONLY <2>15, <4>1 DEF StoreProject, At
    <3>2. pid[c] \in Project BY ONLY <3>1, Ids, c \in Caller DEF Ids
    <3>3. Row(pid[c], n) \in ProjectRow BY <3>2
    <3> QED BY ONLY Typed, <3>1, <3>2, <3>3 DEF Typed, WithProject, settingVars, memoryVars, Place
  <2>16. CASE RefreshProject(c) BY <2>16 DEF RefreshProject
  <2>17. CASE CheckOwner(c) BY <2>17 DEF CheckOwner
  <2>18. CASE StoreEnv(c)
    <3>1. CASE Return(c) /\ UNCHANGED <<projects, envs, edits, settingVars, memoryVars>>
      BY ONLY Typed, <3>1 DEF Typed, Return, settingVars, memoryVars
    <3>2. ASSUME NEW n \in Nat, edits' = n, envs' = [envs EXCEPT ![eid[c]] = n],
                 WithEnv(c, "Refresh", Row(eid[c], n)), op[c] = "SaveEnv",
                 UNCHANGED <<projects, settingVars, memoryVars>>
          PROVE  Typed'
      <4>1. eid[c] \in Env BY ONLY <3>2, Ids, c \in Caller DEF Ids
      <4>2. Row(eid[c], n) \in EnvRow BY <4>1
      <4> QED BY ONLY Typed, <3>2, <4>1, <4>2 DEF Typed, WithEnv, settingVars, memoryVars, Place
    <3>3. edits + 1 \in Nat BY Typed
    <3> HIDE DEF WithEnv, Return, Stored, settingVars, memoryVars, Typed
    <3> QED BY ONLY <2>18, <3>1, <3>2, <3>3 DEF StoreEnv, At
  <2>19. CASE RefreshEnv(c) BY <2>19 DEF RefreshEnv
  <2>20. CASE DropProject(c) BY <2>20 DEF DropProject
  <2>21. CASE ClearProject(c) BY <2>21 DEF ClearProject
  <2>22. CASE PersistCleared(c) BY <2>22 DEF PersistCleared
  <2>23. CASE DropEnv(c) BY <2>23 DEF DropEnv
  <2>24. CASE LookEnv(c) BY <2>24 DEF LookEnv
  <2>25. CASE ClearEnv(c) BY <2>25 DEF ClearEnv
  <2>26. CASE PersistEnvCleared(c) BY <2>26 DEF PersistEnvCleared
  <2> QED
    BY <1>1, <2>1, <2>2, <2>3, <2>4, <2>5, <2>6, <2>7, <2>8, <2>9, <2>10, <2>11,
       <2>12, <2>13, <2>14, <2>15, <2>16, <2>17, <2>18, <2>19, <2>20, <2>21,
       <2>22, <2>23, <2>24, <2>25, <2>26 DEF Step
<1>2. ASSUME NEW c \in Caller, Begin(c) PROVE Typed'
  <2>1. PICK o \in Ops, p \in Project \cup {None}, e \in Env \cup {None} :
          /\ op' = [op EXCEPT ![c] = o] /\ step' = [step EXCEPT ![c] = FirstStep(o, p)]
          /\ pid' = [pid EXCEPT ![c] = p] /\ eid' = [eid EXCEPT ![c] = e]
          /\ UNCHANGED <<rowVars, settingVars, memoryVars, prow, erow>>
    <3> HIDE DEF rowVars, settingVars, memoryVars
    <3> QED BY ONLY <1>2 DEF Begin
  <2>2. FirstStep(o, p) \in Place /\ o \in Command
    BY ONLY ContextAssumption, o \in Ops DEF FirstStep, Place, ContextAssumption
  <2> QED BY ONLY Typed, <2>1, <2>2 DEF Typed, rowVars, settingVars, memoryVars
<1>3. CASE Restart
  <2>1. RestoredProject \in Project \cup {None} /\ RestoredEnv \in Env \cup {None}
    BY ONLY Typed DEF Typed, RestoredProject, RestoredEnv, Remembered
  <2>2. /\ activeProject' = RestoredProject /\ activeEnv' = RestoredEnv
        /\ projectCache' = None /\ envCache' = None
        /\ op' = [x \in Caller |-> "idle"] /\ step' = [x \in Caller |-> "idle"]
        /\ pid' = [x \in Caller |-> None] /\ eid' = [x \in Caller |-> None]
        /\ prow' = [x \in Caller |-> None] /\ erow' = [x \in Caller |-> None]
        /\ UNCHANGED <<rowVars, settingVars>>
    <3> HIDE DEF RestoredProject, RestoredEnv, AtRest, rowVars, settingVars
    <3> QED BY ONLY <1>3 DEF Restart
  <2> QED BY ONLY Typed, <2>1, <2>2 DEF Typed, rowVars, settingVars
<1>4. CASE UNCHANGED vars BY <1>4 DEF vars
<1> QED BY <1>1, <1>2, <1>3, <1>4 DEF Next

\* ... and of the variables only few steps change.
Others ==
  /\ merged \in [project : ProjectRow \cup {None}, env : EnvRow \cup {None}]
  /\ commands \in Nat /\ restarts \in Nat
  /\ history \in {"serial", "overlapping", "cut off", "stored again"}

\* A project row and an environment row, or the absence of either, make a pair.
LEMMA MergedPair ==
  ASSUME NEW p \in ProjectRow \cup {None}, NEW e \in EnvRow \cup {None}
  PROVE  [project |-> p, env |-> e] \in [project : ProjectRow \cup {None}, env : EnvRow \cup {None}]
  OBVIOUS

\* What a request merges is such a pair.
LEMMA UsedEnv ==
  ASSUME NEW c \in Caller, NEW e \in EnvRow \cup {None}, UseEnv(c, e), Typed, Others
  PROVE  merged' \in [project : ProjectRow \cup {None}, env : EnvRow \cup {None}]
<1> DEFINE Pairs == [project : ProjectRow \cup {None}, env : EnvRow \cup {None}]
<1>1. prow[c] \in ProjectRow \cup {None} /\ merged \in Pairs BY DEF Typed, Others
<1>2. [project |-> prow[c], env |-> e] \in Pairs BY <1>1, MergedPair
<1>3. merged' = [project |-> prow[c], env |-> e] \/ merged' = merged BY ONLY UseEnv(c, e) DEF UseEnv
<1> HIDE DEF Pairs
<1>4. merged' \in Pairs BY ONLY <1>1, <1>2, <1>3
<1> QED BY ONLY <1>4 DEF Pairs

\* ... and of what only few steps change.
LEMMA OthersStep ==
  ASSUME Typed, Ids, Others, [Next]_vars
  PROVE  Others'
<1> USE ContextAssumption, RowFacts, RowIds
    DEF Typed, Ids, Others, At, Goto, Return, WithProject, WithEnv, ForProject,
        ForEnv, UseProject, UseEnv, Stored, rowVars, settingVars, memoryVars,
        callVars, bounds
<1>1. ASSUME NEW c \in Caller, Step(c) PROVE Others'
  <2>1. CASE ReadProject(c) BY <2>1 DEF ReadProject
  <2>2. CASE ReadSetting(c) BY <2>2 DEF ReadSetting
  <2>3. CASE CheckEnv(c) BY <2>3 DEF CheckEnv
  <2>4. CASE ReadEnv(c) BY <2>4 DEF ReadEnv
  <2>5. CASE WriteProject(c) BY <2>5 DEF WriteProject
  <2>6. CASE PersistProject(c) BY <2>6 DEF PersistProject
  <2>7. CASE GetProject(c) BY <2>7 DEF GetProject
  <2>8. CASE FetchProject(c) BY <2>8 DEF FetchProject
  <2>9. CASE FillProject(c) BY <2>9 DEF FillProject
  <2>10. CASE GetEnv(c)
    <3> HIDE DEF UseEnv, Return, WithEnv, ForEnv, Goto, Typed, Others
    <3>1. \/ UNCHANGED merged \/ UseEnv(c, envCache) \/ UseEnv(c, None) \/ UseEnv(c, erow[c])
      BY ONLY <2>10 DEF GetEnv, FillEnv
    <3>2. envCache \in EnvRow \cup {None} /\ erow[c] \in EnvRow \cup {None}
      BY ONLY Typed, c \in Caller DEF Typed
    <3>3. UNCHANGED <<commands, restarts, history>>
      BY ONLY <2>10 DEF GetEnv, FillEnv, settingVars, bounds
    <3>4. merged' \in [project : ProjectRow \cup {None}, env : EnvRow \cup {None}]
      <4>1. CASE UNCHANGED merged BY ONLY <4>1, Others DEF Others
      <4> QED BY <3>1, <3>2, <4>1, UsedEnv
    <3> QED BY ONLY Others, <3>3, <3>4 DEF Others
  <2>11. CASE FetchEnv(c) BY <2>11 DEF FetchEnv
  <2>12. CASE FillEnv(c)
    <3> HIDE DEF UseEnv, Return, WithEnv, ForEnv, Goto, Typed, Others
    <3>1. \/ UNCHANGED merged \/ UseEnv(c, envCache) \/ UseEnv(c, None) \/ UseEnv(c, erow[c])
      BY ONLY <2>12 DEF GetEnv, FillEnv
    <3>2. envCache \in EnvRow \cup {None} /\ erow[c] \in EnvRow \cup {None}
      BY ONLY Typed, c \in Caller DEF Typed
    <3>3. UNCHANGED <<commands, restarts, history>>
      BY ONLY <2>12 DEF GetEnv, FillEnv, settingVars, bounds
    <3>4. merged' \in [project : ProjectRow \cup {None}, env : EnvRow \cup {None}]
      <4>1. CASE UNCHANGED merged BY ONLY <4>1, Others DEF Others
      <4> QED BY <3>1, <3>2, <4>1, UsedEnv
    <3> QED BY ONLY Others, <3>3, <3>4 DEF Others
  <2>13. CASE WriteEnv(c) BY <2>13 DEF WriteEnv
  <2>14. CASE PersistEnv(c) BY <2>14 DEF PersistEnv
  <2>15. CASE StoreProject(c)
    <3>1. history' \in {history, "stored again"} /\ UNCHANGED <<merged, commands, restarts>>
      BY ONLY <2>15 DEF StoreProject, StoreEnv, Stored, settingVars
    <3> QED BY ONLY Others, <3>1 DEF Others
  <2>16. CASE RefreshProject(c) BY <2>16 DEF RefreshProject
  <2>17. CASE CheckOwner(c) BY <2>17 DEF CheckOwner
  <2>18. CASE StoreEnv(c)
    <3>1. history' \in {history, "stored again"} /\ UNCHANGED <<merged, commands, restarts>>
      BY ONLY <2>18 DEF StoreProject, StoreEnv, Stored, settingVars
    <3> QED BY ONLY Others, <3>1 DEF Others
  <2>19. CASE RefreshEnv(c) BY <2>19 DEF RefreshEnv
  <2>20. CASE DropProject(c) BY <2>20 DEF DropProject
  <2>21. CASE ClearProject(c) BY <2>21 DEF ClearProject
  <2>22. CASE PersistCleared(c) BY <2>22 DEF PersistCleared
  <2>23. CASE DropEnv(c) BY <2>23 DEF DropEnv
  <2>24. CASE LookEnv(c) BY <2>24 DEF LookEnv
  <2>25. CASE ClearEnv(c) BY <2>25 DEF ClearEnv
  <2>26. CASE PersistEnvCleared(c) BY <2>26 DEF PersistEnvCleared
  <2> QED
    BY <1>1, <2>1, <2>2, <2>3, <2>4, <2>5, <2>6, <2>7, <2>8, <2>9, <2>10, <2>11,
       <2>12, <2>13, <2>14, <2>15, <2>16, <2>17, <2>18, <2>19, <2>20, <2>21,
       <2>22, <2>23, <2>24, <2>25, <2>26 DEF Step
<1>2. ASSUME NEW c \in Caller, Begin(c) PROVE Others'
  <2>1. /\ commands' = commands + 1 /\ history' \in {history, "overlapping"}
        /\ UNCHANGED <<merged, restarts>>
    BY ONLY <1>2 DEF Begin, settingVars
  <2>2. commands' \in Nat
    <3>1. commands' = commands + 1 BY ONLY <2>1
    <3>2. commands \in Nat BY ONLY Others DEF Others
    <3> QED BY ONLY <3>1, <3>2
  <2>3. history' \in {"serial", "overlapping", "cut off", "stored again"}
    <3>1. history' \in {history, "overlapping"} BY ONLY <2>1
    <3> QED BY ONLY <3>1, Others DEF Others
  <2>4. UNCHANGED <<merged, restarts>> BY ONLY <2>1
  <2> QED BY ONLY Others, <2>2, <2>3, <2>4 DEF Others
<1>3. CASE Restart
  <2>1. /\ restarts' = restarts + 1 /\ history' \in {history, "cut off"}
        /\ UNCHANGED <<merged, commands>>
    BY ONLY <1>3 DEF Restart, settingVars
  <2>2. restarts' \in Nat
    <3>1. restarts' = restarts + 1 BY ONLY <2>1
    <3>2. restarts \in Nat BY ONLY Others DEF Others
    <3> QED BY ONLY <3>1, <3>2
  <2>3. history' \in {"serial", "overlapping", "cut off", "stored again"}
    <3>1. history' \in {history, "cut off"} BY ONLY <2>1
    <3> QED BY ONLY <3>1, Others DEF Others
  <2>4. UNCHANGED <<merged, commands>> BY ONLY <2>1
  <2> QED BY ONLY Others, <2>2, <2>3, <2>4 DEF Others
<1>4. CASE UNCHANGED vars BY <1>4 DEF vars
<1> QED BY <1>1, <1>2, <1>3, <1>4 DEF Next

(***************************************************************************)
(* While commands do not overlap, what each of them has found and done so   *)
(* far fits what memory, settings and database say.                         *)
(***************************************************************************)

\* What is active exists, its cached rows are those of the database, and a restart
\* would restore it.
Exists ==
  /\ activeProject # None => projects[activeProject] > 0
  /\ activeEnv # None => envs[activeEnv] > 0
FreshProject == projectCache # None => projectCache.version = projects[projectCache.id]
FreshEnv == envCache # None => envCache.version = envs[envCache.id]
SavedProject == RestoredProject = activeProject
SavedEnv == RestoredEnv = activeEnv

\* Between two commands.
Good == Exists /\ FreshProject /\ FreshEnv /\ SavedProject /\ SavedEnv

\* The row a caller holds is the one in the database.
FoundProject(c) ==
  projects[pid[c]] > 0 /\ prow[c] = Row(pid[c], projects[pid[c]])
FoundEnv(c) ==
  envs[eid[c]] > 0 /\ erow[c] = Row(eid[c], envs[eid[c]])

\* Where a command has begun to change things.
Between(c) ==
  \/ op[c] \in {"SetProject", "SetEnv"} /\ step[c] = "Persist"
  \/ op[c] \in {"SaveProject", "SaveEnv"} /\ step[c] = "Refresh"
  \/ op[c] = "DeleteProject" /\ step[c] \in {"Clear", "Persist"}
  \/ op[c] = "DeleteEnv" /\ step[c] \in {"Look", "Clear", "Persist"}

\* set_active_project, by what it has read and written so far.
InSetProject(c) ==
  op[c] = "SetProject" =>
    /\ step[c] \in {"ReadSetting", "CheckEnv", "ReadEnv"} => FoundProject(c)
    /\ step[c] = "CheckEnv" => eid[c] = savedEnv[pid[c]]
    /\ step[c] = "ReadEnv" => eid[c] = Remembered(pid[c])
    /\ step[c] = "Write" /\ pid[c] = None => eid[c] = None
    /\ step[c] = "Write" /\ pid[c] # None => FoundProject(c) /\ eid[c] = Remembered(pid[c])
    /\ step[c] = "Write" /\ eid[c] # None => FoundEnv(c)
    /\ step[c] = "Persist" =>
         /\ Exists /\ FreshProject /\ FreshEnv /\ activeProject = pid[c]
         /\ activeEnv = IF pid[c] = None THEN None ELSE Remembered(pid[c])

\* set_active_environment.
InSetEnv(c) ==
  op[c] = "SetEnv" =>
    /\ step[c] \in {"ReadEnv", "Write", "Persist"} => pid[c] = activeProject
    /\ step[c] = "Write" /\ eid[c] # None => FoundEnv(c)
    /\ step[c] = "Persist" =>
         Exists /\ FreshProject /\ FreshEnv /\ SavedProject /\ activeEnv = eid[c]

\* A reader that missed a cache.
InRead(c) ==
  /\ step[c] \in {"FetchProject", "FillProject"} => pid[c] = activeProject
  /\ step[c] = "FillProject" => FoundProject(c)
  /\ step[c] \in {"FetchEnv", "FillEnv"} => eid[c] = activeEnv
  /\ step[c] = "FillEnv" => FoundEnv(c)
  /\ op[c] = "Variables" /\ step[c] \in {"GetEnv", "FetchEnv", "FillEnv"} =>
       (prow[c] # None => prow[c].id = activeProject)

\* save_project and save_environment between the row and the cache.
InSave(c) ==
  /\ op[c] = "SaveProject" /\ step[c] = "Refresh" =>
       /\ Exists /\ FreshEnv /\ SavedProject /\ SavedEnv /\ FoundProject(c)
       /\ projectCache # None /\ projectCache.id # pid[c] => FreshProject
  /\ op[c] = "SaveEnv" /\ step[c] = "Refresh" =>
       /\ Exists /\ FreshProject /\ SavedProject /\ SavedEnv /\ FoundEnv(c)
       /\ envCache # None /\ envCache.id # eid[c] => FreshEnv

\* delete_project between the row, the context and the settings.
InDeleteProject(c) ==
  op[c] = "DeleteProject" =>
    /\ step[c] = "Clear" => (activeProject # pid[c] => Good)
    /\ step[c] = "Persist" => activeProject = None /\ activeEnv = None

\* delete_environment, likewise.
InDeleteEnv(c) ==
  op[c] = "DeleteEnv" =>
    /\ step[c] = "Look" => (activeEnv # eid[c] => Good)
    /\ step[c] \in {"Clear", "Persist"} => pid[c] = activeProject
    /\ step[c] = "Clear" => activeEnv = eid[c]
    /\ step[c] = "Persist" => activeEnv = None
    /\ step[c] \in {"Look", "Clear", "Persist"} =>
         /\ activeProject # None => projects[activeProject] > 0
         /\ FreshProject /\ SavedProject

\* A command that runs alone, at any of its steps.
Sound(c) ==
  /\ ~Between(c) => Good
  /\ InSetProject(c) /\ InSetEnv(c) /\ InRead(c) /\ InSave(c)
  /\ InDeleteProject(c) /\ InDeleteEnv(c)

\* One command at a time, each from a consistent context to another.
SerialInv ==
  history = "serial" =>
    /\ EnvOfActiveProject /\ VariablesOfOneProject
    /\ \A c, d \in Caller : op[c] # "idle" /\ op[d] # "idle" => c = d
    /\ AtRest => Good
    /\ \A c \in Caller : op[c] # "idle" => Sound(c)


\* The inductive invariant.
IInv == /\ Typed /\ Others /\ Ids /\ Rows /\ OwnPersisted
        /\ CacheOfActiveId /\ RememberedEnvIsOwn /\ SerialInv

\* A step of a command that runs alone.
LEMMA SerialStep ==
  ASSUME NEW c \in Caller, Typed, Ids, Rows, OwnPersisted, CacheOfActiveId,
         RememberedEnvIsOwn, EnvOfActiveProject, VariablesOfOneProject, Sound(c),
         Step(c), history' = "serial"
  PROVE  /\ EnvOfActiveProject' /\ VariablesOfOneProject'
         /\ op'[c] = "idle" => Good'
         /\ op'[c] # "idle" => Sound(c)'
<1> USE ContextAssumption, RowFacts, RowIds
    DEF Typed, Ids, Rows, OwnPersisted, CacheOfActiveId, RememberedEnvIsOwn,
        EnvOfActiveProject, VariablesOfOneProject, Sound, Between, Good, Exists,
        FreshProject, FreshEnv, SavedProject, SavedEnv, RestoredProject,
        RestoredEnv, Remembered, FoundProject, FoundEnv, InSetProject, InSetEnv,
        InRead, InSave, InDeleteProject, InDeleteEnv, At, Goto, Return,
        WithProject, WithEnv, ForProject, ForEnv, UseProject, UseEnv, Stored,
        rowVars, settingVars, memoryVars, callVars, bounds
<1>1. CASE ReadProject(c) BY <1>1 DEF ReadProject
<1>2. CASE ReadSetting(c) BY <1>2 DEF ReadSetting
<1>3. CASE CheckEnv(c) BY <1>3 DEF CheckEnv
<1>4. CASE ReadEnv(c) BY <1>4 DEF ReadEnv
<1>5. CASE WriteProject(c) BY <1>5 DEF WriteProject
<1>6. CASE PersistProject(c) BY <1>6 DEF PersistProject
<1>7. CASE GetProject(c) BY <1>7 DEF GetProject
<1>8. CASE FetchProject(c) BY <1>8 DEF FetchProject
<1>9. CASE FillProject(c) BY <1>9 DEF FillProject
<1>10. CASE GetEnv(c) BY <1>10 DEF GetEnv
<1>11. CASE FetchEnv(c) BY <1>11 DEF FetchEnv
<1>12. CASE FillEnv(c) BY <1>12 DEF FillEnv
<1>13. CASE WriteEnv(c) BY <1>13 DEF WriteEnv
<1>14. CASE PersistEnv(c) BY <1>14 DEF PersistEnv
<1>15. CASE StoreProject(c) BY <1>15 DEF StoreProject
<1>16. CASE RefreshProject(c) BY <1>16 DEF RefreshProject
<1>17. CASE CheckOwner(c) BY <1>17 DEF CheckOwner
<1>18. CASE StoreEnv(c) BY <1>18 DEF StoreEnv
<1>19. CASE RefreshEnv(c) BY <1>19 DEF RefreshEnv
<1>20. CASE DropProject(c) BY <1>20 DEF DropProject
<1>21. CASE ClearProject(c) BY <1>21 DEF ClearProject
<1>22. CASE PersistCleared(c) BY <1>22 DEF PersistCleared
<1>23. CASE DropEnv(c) BY <1>23 DEF DropEnv
<1>24. CASE LookEnv(c) BY <1>24 DEF LookEnv
<1>25. CASE ClearEnv(c) BY <1>25 DEF ClearEnv
<1>26. CASE PersistEnvCleared(c) BY <1>26 DEF PersistEnvCleared
<1> QED
  BY ONLY Step(c), <1>1, <1>2, <1>3, <1>4, <1>5, <1>6, <1>7, <1>8, <1>9, <1>10,
     <1>11, <1>12, <1>13, <1>14, <1>15, <1>16, <1>17, <1>18, <1>19, <1>20,
     <1>21, <1>22, <1>23, <1>24, <1>25, <1>26 DEF Step

\* A step is of a command that runs, and leaves the other callers where they are.
LEMMA StepOfOne ==
  ASSUME NEW c \in Caller, Typed, Ids, Step(c)
  PROVE  /\ op[c] # "idle" /\ UNCHANGED restarts
         /\ \A d \in Caller : d # c => op'[d] = op[d]
         /\ history' = "serial" => history = "serial"
<1> USE DEF Typed, Ids, At, Goto, Return, WithProject, WithEnv, ForProject, ForEnv,
            UseProject, UseEnv, Stored, bounds
<1>1. CASE ReadProject(c) BY <1>1 DEF ReadProject
<1>2. CASE ReadSetting(c) BY <1>2 DEF ReadSetting
<1>3. CASE CheckEnv(c) BY <1>3 DEF CheckEnv
<1>4. CASE ReadEnv(c) BY <1>4 DEF ReadEnv
<1>5. CASE WriteProject(c) BY <1>5 DEF WriteProject
<1>6. CASE PersistProject(c) BY <1>6 DEF PersistProject
<1>7. CASE GetProject(c) BY <1>7 DEF GetProject
<1>8. CASE FetchProject(c) BY <1>8 DEF FetchProject
<1>9. CASE FillProject(c) BY <1>9 DEF FillProject
<1>10. CASE GetEnv(c) BY <1>10 DEF GetEnv
<1>11. CASE FetchEnv(c) BY <1>11 DEF FetchEnv
<1>12. CASE FillEnv(c) BY <1>12 DEF FillEnv
<1>13. CASE WriteEnv(c) BY <1>13 DEF WriteEnv
<1>14. CASE PersistEnv(c) BY <1>14 DEF PersistEnv
<1>15. CASE StoreProject(c) BY <1>15 DEF StoreProject
<1>16. CASE RefreshProject(c) BY <1>16 DEF RefreshProject
<1>17. CASE CheckOwner(c) BY <1>17 DEF CheckOwner
<1>18. CASE StoreEnv(c) BY <1>18 DEF StoreEnv
<1>19. CASE RefreshEnv(c) BY <1>19 DEF RefreshEnv
<1>20. CASE DropProject(c) BY <1>20 DEF DropProject
<1>21. CASE ClearProject(c) BY <1>21 DEF ClearProject
<1>22. CASE PersistCleared(c) BY <1>22 DEF PersistCleared
<1>23. CASE DropEnv(c) BY <1>23 DEF DropEnv
<1>24. CASE LookEnv(c) BY <1>24 DEF LookEnv
<1>25. CASE ClearEnv(c) BY <1>25 DEF ClearEnv
<1>26. CASE PersistEnvCleared(c) BY <1>26 DEF PersistEnvCleared
<1> QED
  BY ONLY Step(c), <1>1, <1>2, <1>3, <1>4, <1>5, <1>6, <1>7, <1>8, <1>9, <1>10,
     <1>11, <1>12, <1>13, <1>14, <1>15, <1>16, <1>17, <1>18, <1>19, <1>20,
     <1>21, <1>22, <1>23, <1>24, <1>25, <1>26 DEF Step

\* Serial commands keep to one context: whole commands and restarts between them.
LEMMA SerialNext ==
  ASSUME IInv, [Next]_vars
  PROVE  SerialInv'
<1> USE ContextAssumption DEF IInv
<1>1. ASSUME NEW c \in Caller, Step(c), history' = "serial" PROVE SerialInv'
  <2>1. /\ op[c] # "idle" /\ history = "serial"
        /\ \A d \in Caller : d # c => op'[d] = op[d]
    BY <1>1, StepOfOne
  <2>2. \A d \in Caller : d # c => op[d] = "idle" /\ op'[d] = "idle"
    BY <2>1 DEF SerialInv
  <2>3. EnvOfActiveProject /\ VariablesOfOneProject /\ Sound(c)
    BY <2>1 DEF SerialInv
  <2>4. /\ EnvOfActiveProject' /\ VariablesOfOneProject'
        /\ op'[c] = "idle" => Good'
        /\ op'[c] # "idle" => Sound(c)'
    BY <1>1, <2>3, SerialStep
  <2>5. \A d \in Caller : op'[d] # "idle" => Sound(d)'
    BY ONLY <2>2, <2>4
  <2>6. AtRest' => Good'
    BY ONLY <2>4, c \in Caller DEF AtRest
  <2> QED BY ONLY <2>2, <2>4, <2>5, <2>6 DEF SerialInv
<1>2. ASSUME NEW c \in Caller, Begin(c), history' = "serial" PROVE SerialInv'
  <2>1. AtRest /\ history = "serial"
    BY ONLY <1>2 DEF Begin, AtRest
  <2>2. EnvOfActiveProject /\ VariablesOfOneProject /\ Good
    BY <2>1 DEF SerialInv
  <2>3. UNCHANGED <<rowVars, settingVars, memoryVars, merged, prow, erow>>
    BY ONLY <1>2 DEF Begin
  <2>4. EnvOfActiveProject' /\ VariablesOfOneProject' /\ Good'
    BY ONLY <2>2, <2>3 DEF EnvOfActiveProject, VariablesOfOneProject, Good, Exists,
      FreshProject, FreshEnv, SavedProject, SavedEnv, RestoredProject, RestoredEnv,
      Remembered, rowVars, settingVars, memoryVars
  <2>5. PICK o \in Ops, p \in Project \cup {None}, e \in Env \cup {None} :
          /\ o \notin {"SetEnv", "SaveEnv", "DeleteEnv"} => e = None
          /\ op' = [op EXCEPT ![c] = o] /\ step' = [step EXCEPT ![c] = FirstStep(o, p)]
          /\ pid' = [pid EXCEPT ![c] = p] /\ eid' = [eid EXCEPT ![c] = e]
    BY ONLY <1>2 DEF Begin
  <2>6. o \in Command
    BY DEF ContextAssumption
  <2>7. /\ op'[c] = o /\ step'[c] = FirstStep(o, p) /\ pid'[c] = p /\ eid'[c] = e
        /\ \A d \in Caller : d # c => op'[d] = "idle"
    BY <2>1, <2>5 DEF Typed, AtRest
  <2>8. Sound(c)'
    <3>1. ~Between(c)'
      BY ONLY <2>6, <2>7 DEF Between, FirstStep, Command
    <3>2. InSetProject(c)' /\ InSetEnv(c)' /\ InDeleteProject(c)' /\ InDeleteEnv(c)'
      BY ONLY <2>5, <2>6, <2>7 DEF InSetProject, InSetEnv, InDeleteProject, InDeleteEnv,
        FirstStep, Command
    <3>3. InRead(c)' /\ InSave(c)'
      BY ONLY <2>6, <2>7 DEF InRead, InSave, FirstStep, Command
    <3> QED BY ONLY <2>4, <3>1, <3>2, <3>3 DEF Sound
  <2>9. ~AtRest'
    BY ONLY <2>6, <2>7, c \in Caller DEF AtRest, Command
  <2> QED BY ONLY <2>4, <2>7, <2>8, <2>9 DEF SerialInv
<1>3. ASSUME Restart, history' = "serial" PROVE SerialInv'
  <2>1. AtRest /\ history = "serial"
    BY ONLY <1>3 DEF Restart, AtRest
  <2>2. /\ activeProject' = RestoredProject /\ activeEnv' = RestoredEnv
        /\ projectCache' = None /\ envCache' = None
        /\ op' = [d \in Caller |-> "idle"] /\ UNCHANGED <<rowVars, settingVars, merged>>
    BY ONLY <1>3 DEF Restart
  <2>3. EnvOfActiveProject' /\ VariablesOfOneProject'
    BY <2>1, <2>2 DEF EnvOfActiveProject, VariablesOfOneProject, SerialInv, RestoredProject,
      RestoredEnv, Remembered, Typed
  <2>4. Good'
    BY <2>2 DEF Good, Exists, FreshProject, FreshEnv, SavedProject, SavedEnv, Typed,
      RestoredProject, RestoredEnv, Remembered, rowVars, settingVars
  <2> QED BY ONLY <2>2, <2>3, <2>4 DEF SerialInv
<1>4. CASE UNCHANGED vars
  <2> USE <1>4 DEF vars, rowVars, settingVars, memoryVars, callVars, bounds
  <2>1. (AtRest' <=> AtRest) /\ (Good' <=> Good)
    BY DEF AtRest, Good, Exists, FreshProject, FreshEnv, SavedProject, SavedEnv,
      RestoredProject, RestoredEnv, Remembered
  <2>2. (EnvOfActiveProject' <=> EnvOfActiveProject) /\ (VariablesOfOneProject' <=> VariablesOfOneProject)
    BY DEF EnvOfActiveProject, VariablesOfOneProject
  <2>3. \A c \in Caller : Sound(c) => Sound(c)'
    BY <2>1 DEF Sound, Between, Exists, FreshProject, FreshEnv, SavedProject, SavedEnv,
      RestoredProject, RestoredEnv, Remembered, FoundProject, FoundEnv, InSetProject, InSetEnv,
      InRead, InSave, InDeleteProject, InDeleteEnv
  <2> QED
    BY <2>1, <2>2, <2>3 DEF SerialInv
<1> QED
  <2>1. SUFFICES ASSUME history' = "serial" PROVE SerialInv'
    BY DEF SerialInv
  <2> QED BY ONLY [Next]_vars, <1>1, <1>2, <1>3, <1>4, <2>1 DEF Next

-----------------------------------------------------------------------------

\* It holds at the start, ...
LEMMA InitInv == Init => IInv
<1> SUFFICES ASSUME Init PROVE IInv
  OBVIOUS
<1> USE ContextAssumption DEF ContextAssumption
<1>1. Typed
  BY DEF Init, Typed, RestoredProject, RestoredEnv, Remembered
<1>2. Others
  <2>1. merged = [project |-> None, env |-> None] /\ history = "serial"
    BY DEF Init
  <2>2. commands \in Nat /\ restarts \in Nat
    BY DEF Init
  <2> QED BY ONLY <2>1, <2>2 DEF Others
<1>3. Ids /\ Rows /\ OwnPersisted /\ CacheOfActiveId /\ RememberedEnvIsOwn
  BY DEF Init, Ids, Rows, OwnPersisted, CacheOfActiveId, RememberedEnvIsOwn
<1>4. SerialInv
  <2>1. EnvOfActiveProject
    BY DEF Init, EnvOfActiveProject, RestoredProject, RestoredEnv, Remembered
  <2>2. VariablesOfOneProject
    BY DEF Init, VariablesOfOneProject
  <2>3. Good
    BY DEF Init, Good, Exists, FreshProject, FreshEnv, SavedProject, SavedEnv,
      RestoredProject, RestoredEnv, Remembered
  <2>4. \A c \in Caller : op[c] = "idle"
    BY DEF Init
  <2> QED BY ONLY <2>1, <2>2, <2>3, <2>4 DEF SerialInv
<1> QED BY <1>1, <1>2, <1>3, <1>4 DEF IInv

\* ... every step keeps it, ...
LEMMA NextInv == IInv /\ [Next]_vars => IInv'
<1> SUFFICES ASSUME IInv, [Next]_vars PROVE IInv'
  OBVIOUS
<1>1. Typed' /\ Others' /\ Ids'
  BY TypedStep, OthersStep, IdStep DEF IInv
<1>2. Rows' /\ CacheOfActiveId'
  BY CacheStep DEF IInv
<1>3. OwnPersisted' /\ RememberedEnvIsOwn'
  BY OwnStep DEF IInv
<1>4. SerialInv'
  BY SerialNext
<1> QED BY <1>1, <1>2, <1>3, <1>4 DEF IInv

\* ... so it holds always.
LEMMA AlwaysInv == Spec => []IInv
  BY InitInv, NextInv, PTL DEF Spec

(***************************************************************************)
(* The theorems.                                                            *)
(***************************************************************************)

\* Caches and settings fit each other however commands overlap and wherever the
\* process ends; while commands run one after another, the active environment is of
\* the active project, no cache is stale, a restart changes nothing, and a request
\* sees the variables of one project (commands/project.rs, commands/environment.rs).
THEOREM ContextAlwaysFits == Spec => []ContextFits
<1>1. IInv => TypeOK
  BY DEF IInv, Typed, Others, TypeOK
<1>2. IInv => SerialEnvOfActiveProject /\ SerialVariablesOfOneProject
  BY DEF IInv, SerialInv, SerialEnvOfActiveProject, SerialVariablesOfOneProject
<1>3. IInv => SerialCacheIsFresh
  BY DEF IInv, SerialInv, SerialCacheIsFresh, CacheIsFresh, Good, FreshProject, FreshEnv
<1>4. IInv => SerialRestartKeepsContext
  BY DEF IInv, SerialInv, SerialRestartKeepsContext, RestartKeepsContext, Good,
    SavedProject, SavedEnv
<1>5. IInv => ContextFits
  BY <1>1, <1>2, <1>3, <1>4 DEF IInv, ContextFits
<1> QED BY <1>5, AlwaysInv, PTL

\* Wherever the previous run was cut off, what restore_active puts in place exists and
\* the environment is one of the project (state.rs, restore_active).
THEOREM RestoredIsValid == Spec => RestoredContextValid
<1> DEFINE Valid == /\ activeProject' # None => projects[activeProject'] > 0
                    /\ activeEnv' # None => /\ envs[activeEnv'] > 0
                                           /\ Owner[activeEnv'] = activeProject'
<1>1. ASSUME IInv, [Next]_vars, restarts' # restarts PROVE Valid
  <2>1. CASE Restart
    BY <2>1 DEF Restart, RestoredProject, RestoredEnv, Remembered
  <2>2. ASSUME NEW c \in Caller, Step(c) PROVE FALSE
    BY <1>1, <2>2, StepOfOne DEF IInv
  <2>3. ASSUME NEW c \in Caller, Begin(c) PROVE FALSE
    BY ONLY <1>1, <2>3 DEF Begin
  <2>4. ~ UNCHANGED vars
    BY ONLY <1>1 DEF vars, bounds
  <2> QED BY ONLY <1>1, <2>1, <2>2, <2>3, <2>4 DEF Next
<1>2. IInv /\ [Next]_vars => [restarts' # restarts => Valid]_vars
  BY <1>1
<1> QED BY <1>2, AlwaysInv, PTL DEF Spec, RestoredContextValid

=============================================================================
