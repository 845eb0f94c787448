----------------------------- MODULE Backup_proofs -----------------------------
(***************************************************************************)
(* Proofs about the tree of a project and about backup and restore: nothing *)
(* that was below a folder comes to the root when the folder is deleted,    *)
(* and a restore only fills in what is global.                              *)
(***************************************************************************)
EXTENDS Backup, TLAPS

Setting == Value \cup {None}
Globals == [Key -> Setting]
Stages == {"idle", "refused", "globals", "merge", "proxy", "apply", "done", "crashed"}
RestoreRow == [at : Stages, seen : Globals, since : Nat]

----------------------------------------------------------------------------
(* The tree *)

\* Rows of a table have a parent and a place.
Table(t) == \A x \in DOMAIN t : t[x] = [up |-> t[x].up, order |-> t[x].order]

\* Every reference of a row is to a row.
RowsRefer ==
  /\ Table(folders) /\ Table(endpoints)
  /\ \A f \in DOMAIN folders : folders[f].up \in {Root} \cup DOMAIN folders
  /\ \A e \in DOMAIN endpoints : endpoints[e].up \in {Root} \cup DOMAIN folders

\* What the step may not do to the rows.
StaysBelow ==
  /\ \A f \in DOMAIN folders \cap DOMAIN folders' :
       folders[f].up # Root /\ folders[f].up \notin DOMAIN folders' => folders'[f].up # Root
  /\ \A e \in DOMAIN endpoints \cap DOMAIN endpoints' :
       endpoints[e].up # Root /\ endpoints[e].up \notin DOMAIN folders' => endpoints'[e].up # Root

\* An upsert changes one row of a table.
LEMMA UpsertRow ==
  ASSUME NEW t, NEW r, Table(t)
  PROVE  /\ DOMAIN Upsert(t, r) = {r.id} \cup DOMAIN t
         /\ Upsert(t, r)[r.id] = Row(r)
         /\ \A x \in DOMAIN t \ {r.id} : Upsert(t, r)[x] = t[x]
         /\ Table(Upsert(t, r))
<1>1. Row(r) = [up |-> Row(r).up, order |-> Row(r).order]
  BY DEF Row
<1> QED
  BY <1>1 DEF Upsert, Table

\* The folders below one are closed: who hangs below one of them is one of them.
LEMMA SubtreeCloses ==
  ASSUME NEW t, NEW f
  PROVE  /\ f \in Subtree(t, f)
         /\ \A x \in DOMAIN t : t[x].up \in Subtree(t, f) => x \in Subtree(t, f)
  BY DEF Subtree, Closed

\* A statement that the database takes keeps all references, and lets nothing surface.
LEMMA ApplyKeeps ==
  ASSUME NEW c, RowsRefer, ~Refused(c), Apply(c)
  PROVE  RowsRefer' /\ StaysBelow
<1>1. CASE c.do = "saveFolder" /\ folders' = Upsert(folders, c.row) /\ UNCHANGED <<endpoints, examples>>
  <2>1. c.row.up \in {Root, c.row.id} \cup DOMAIN folders
    BY <1>1 DEF Refused
  <2>2. Row(c.row).up = c.row.up
    BY DEF Row
  <2>3. /\ DOMAIN folders' = {c.row.id} \cup DOMAIN folders
        /\ folders'[c.row.id] = Row(c.row)
        /\ \A x \in DOMAIN folders \ {c.row.id} : folders'[x] = folders[x]
        /\ Table(folders')
    <3>1. Table(folders)
      BY DEF RowsRefer
    <3>2. /\ DOMAIN Upsert(folders, c.row) = {c.row.id} \cup DOMAIN folders
          /\ Upsert(folders, c.row)[c.row.id] = Row(c.row)
          /\ \A x \in DOMAIN folders \ {c.row.id} : Upsert(folders, c.row)[x] = folders[x]
          /\ Table(Upsert(folders, c.row))
      BY <3>1, UpsertRow
    <3> QED
      BY <1>1, <3>2 DEF Table
  <2>4. RowsRefer'
    BY <1>1, <2>1, <2>2, <2>3 DEF RowsRefer, Table
  <2>5. StaysBelow
    BY <1>1, <2>3 DEF StaysBelow, RowsRefer
  <2> QED
    BY <2>4, <2>5
<1>2. CASE c.do = "saveEndpoint" /\ endpoints' = Upsert(endpoints, c.row) /\ UNCHANGED <<folders, examples>>
  <2>1. c.row.up \in {Root} \cup DOMAIN folders
    BY <1>2 DEF Refused
  <2>2. Row(c.row).up = c.row.up
    BY DEF Row
  <2>3. /\ DOMAIN endpoints' = {c.row.id} \cup DOMAIN endpoints
        /\ endpoints'[c.row.id] = Row(c.row)
        /\ \A x \in DOMAIN endpoints \ {c.row.id} : endpoints'[x] = endpoints[x]
        /\ Table(endpoints')
    <3>1. Table(endpoints)
      BY DEF RowsRefer
    <3>2. /\ DOMAIN Upsert(endpoints, c.row) = {c.row.id} \cup DOMAIN endpoints
          /\ Upsert(endpoints, c.row)[c.row.id] = Row(c.row)
          /\ \A x \in DOMAIN endpoints \ {c.row.id} : Upsert(endpoints, c.row)[x] = endpoints[x]
          /\ Table(Upsert(endpoints, c.row))
      BY <3>1, UpsertRow
    <3> QED
      BY <1>2, <3>2 DEF Table
  <2>4. RowsRefer'
    BY <1>2, <2>1, <2>2, <2>3 DEF RowsRefer, Table
  <2>5. StaysBelow
    BY <1>2 DEF StaysBelow, RowsRefer
  <2> QED
    BY <2>4, <2>5
<1>3. CASE c.do = "deleteFolder" /\ DeleteFolder(c.row.id)
  <2> DEFINE gone == Subtree(folders, c.row.id)
             left == {e \in DOMAIN endpoints : endpoints[e].up \notin gone}
  <2>1. /\ folders' = [x \in DOMAIN folders \ gone |->
                          [folders[x] EXCEPT !.up = IF @ \in gone THEN Root ELSE @]]
        /\ endpoints' = [e \in left |-> endpoints[e]]
    BY <1>3 DEF DeleteFolder
  <2>2. \A x \in DOMAIN folders : folders[x].up \in gone => x \in gone
    BY SubtreeCloses
  <2> HIDE DEF gone
  <2>3. ASSUME NEW x \in DOMAIN folders \ gone
        PROVE  folders'[x] = folders[x]
    <3>1. folders[x] = [up |-> folders[x].up, order |-> folders[x].order]
      BY DEF RowsRefer, Table
    <3>2. folders'[x] = [folders[x] EXCEPT !.up = folders[x].up]
      BY <2>1, <2>2
    <3> QED
      BY <3>1, <3>2
  <2>4. DOMAIN folders' = DOMAIN folders \ gone /\ DOMAIN endpoints' = left
    BY <2>1
  <2>5. \A e \in left : endpoints'[e] = endpoints[e] /\ endpoints[e].up \notin gone
    BY <2>1
  <2>6. RowsRefer'
    BY <2>2, <2>3, <2>4, <2>5 DEF RowsRefer, Table
  <2>7. StaysBelow
    BY <2>3, <2>4, <2>5 DEF StaysBelow
  <2> QED
    BY <2>6, <2>7
<1>4. CASE c.do = "deleteEndpoint" /\ DeleteEndpoint(c.row.id)
  <2>1. /\ endpoints' = [x \in DOMAIN endpoints \ {c.row.id} |-> endpoints[x]]
        /\ folders' = folders
    BY <1>4 DEF DeleteEndpoint, Without
  <2> QED
    BY <2>1 DEF RowsRefer, Table, StaysBelow
<1> QED
  BY <1>1, <1>2, <1>3, <1>4 DEF Apply

\* Only calls that run, and saved examples, change what the database has.
LEMMA TreeStep ==
  ASSUME Next
  PROVE  \/ UNCHANGED <<folders, endpoints>>
         \/ \E c : ~Refused(c) /\ Apply(c)
<1>1. ASSUME NEW j \in Op, Operation(j)
      PROVE  UNCHANGED <<folders, endpoints>>
  BY <1>1 DEF Operation, NewFolder, MoveFolder, MoveEndpoint, BatchMoveEndpoints, Delete,
       UndoDelete,
              SaveActiveDraft, Start, tree
<1>2. ASSUME NEW j \in Op, Continue(j)
      PROVE  \/ UNCHANGED <<folders, endpoints>>
             \/ \E c : ~Refused(c) /\ Apply(c)
  <2>1. CASE RunCall(j)
    <3>1. PICK c \in Head(job[j].calls) : IF Refused(c) THEN UNCHANGED tree ELSE Apply(c)
      BY <2>1 DEF RunCall
    <3> QED
      BY <3>1 DEF tree
  <2>2. CASE ~RunCall(j)
    BY <1>2, <2>2 DEF Continue, ReadList, Show, Saved, tree
  <2> QED
    BY <2>1, <2>2
<1>3. ASSUME NEW e \in Endpoint, OpenEndpoint(e) \/ SaveExample(e) \/ \E up \in 0..NF : NewDraft(e, up)
      PROVE  UNCHANGED <<folders, endpoints>>
  BY <1>3 DEF OpenEndpoint, SaveExample, NewDraft, tree
<1> QED
  BY <1>1, <1>2, <1>3 DEF Next

LEMMA TreeInit == ASSUME Init PROVE RowsRefer
<1>1. PICK p \in [Folder -> 0..NF], o \in [Folder -> 0..1] :
        folders = [f \in Folder |-> [up |-> p[f], order |-> o[f]]]
  BY SMT DEF Init
<1>2. PICK q \in [Endpoint -> 0..NF] : endpoints = [e \in Endpoint |-> [up |-> q[e], order |-> 0]]
  BY SMT DEF Init
<1>3. 0..NF \subseteq {Root} \cup Folder
  BY DEF Folder, Root
<1>4. Table(folders) /\ Table(endpoints)
  BY <1>1, <1>2 DEF Table
<1>5. \A f \in Folder : folders[f].up \in 0..NF
  BY <1>1
<1>6. \A e \in Endpoint : endpoints[e].up \in 0..NF
  BY <1>2
<1>7. DOMAIN folders = Folder /\ DOMAIN endpoints = Endpoint
  BY <1>1, <1>2
<1> QED
  BY <1>3, <1>4, <1>5, <1>6, <1>7 DEF RowsRefer

LEMMA BackupTreeStep ==
  ASSUME RowsRefer, [BackupNext]_<<vars, backup>>
  PROVE  RowsRefer' /\ StaysBelow
<1>1. \/ UNCHANGED <<folders, endpoints>>
      \/ \E c : ~Refused(c) /\ Apply(c)
  <2>1. CASE WorkspaceStep
    BY <2>1, TreeStep DEF WorkspaceStep
  <2>2. CASE ~WorkspaceStep
    BY <2>2 DEF BackupNext, BackupStep, vars, tree
  <2> QED
    BY <2>1, <2>2
<1>2. CASE UNCHANGED <<folders, endpoints>>
  BY <1>2 DEF RowsRefer, Table, StaysBelow
<1>3. CASE \E c : ~Refused(c) /\ Apply(c)
  BY <1>3, ApplyKeeps
<1> QED
  BY <1>1, <1>2, <1>3

\* Deleting a folder takes with it all that is below, whatever else the interface
\* does and has under way: no row that was in a folder comes to the root because
\* the folder has gone (delete_folder and FOLDER_SUBTREE_SQL).
THEOREM NothingEverSurfaces == BackupSpec => NothingSurfaces
<1>1. BackupInit => RowsRefer
  BY TreeInit DEF BackupInit
<1>2. RowsRefer /\ [BackupNext]_<<vars, backup>> => RowsRefer'
  BY BackupTreeStep
<1>3. RowsRefer /\ [BackupNext]_<<vars, backup>> =>
        [/\ \A f \in DOMAIN folders \cap DOMAIN folders' :
              folders[f].up # Root /\ folders[f].up \notin DOMAIN folders' => folders'[f].up # Root
         /\ \A e \in DOMAIN endpoints \cap DOMAIN endpoints' :
              endpoints[e].up # Root /\ endpoints[e].up \notin DOMAIN folders' => endpoints'[e].up # Root]_vars
  BY BackupTreeStep DEF StaysBelow
<1> QED
  BY <1>1, <1>2, <1>3, PTL DEF BackupSpec, NothingSurfaces

----------------------------------------------------------------------------
(* What is global *)

Over(m) == restore[m].at \in {"done", "refused", "crashed"}
Begun(m) == restore[m].at \in {"globals", "merge", "proxy", "apply", "done"}

Typed ==
  /\ globals \in Globals /\ proxy \in Setting /\ edits \in Nat
  /\ export = [at |-> export.at, left |-> export.left, got |-> export.got]
  /\ DOMAIN export.got = Queries
  /\ export.got.globals \in Globals /\ export.got.proxy \in Setting
  /\ restore \in [Restore -> RestoreRow]
  /\ file # None => file.globals \in Globals /\ file.proxy \in Setting

\* The file is written once, and nothing is restored before.
Written ==
  /\ file # None => export.at = "done"
  /\ file = None => \A r \in Restore : restore[r].at = "idle"

\* One restore after the other.
InTurn == \A m, n \in Restore : m < n /\ restore[n].at # "idle" => Over(m)

\* A later restore begins after as many edits or more.
Aged ==
  /\ \A r \in Restore : restore[r].since <= edits
  /\ \A m, n \in Restore :
       m < n /\ restore[m].at = "done" /\ Begun(n) => restore[m].since <= restore[n].since

\* What a restore has seen is still so, unless the user has come between.
Looked ==
  \A r \in Restore :
    /\ restore[r].at = "merge" /\ ~crossed => restore[r].seen = globals
    /\ restore[r].at = "merge" /\ restore[r].since = edits => ~crossed
    /\ restore[r].at = "apply" => file.proxy # None
    /\ restore[r].at = "apply" /\ ~crossed => proxy = None

\* What it has merged without an edit is there.
HasGlobals == \A k \in Key : file.globals[k] # None => globals[k] # None
HasProxy == file.proxy # None => proxy # None

FilledIn ==
  \A r \in Restore :
    restore[r].since = edits =>
      /\ restore[r].at \in {"proxy", "apply", "done"} => HasGlobals
      /\ restore[r].at = "done" => HasProxy

RestoreInv == Typed /\ Written /\ InTurn /\ Aged /\ Looked /\ FilledIn

\* What the step may not do to what is global.
OnlyFills ==
  ~crossed /\ edits' = edits =>
    /\ \A k \in Key : globals[k] # None => globals'[k] = globals[k]
    /\ proxy # None => proxy' = proxy

\* The rest of a restore's row stays as it is.
LEMMA Advance ==
  ASSUME Typed, NEW r \in Restore, NEW s \in Stages,
         restore' = [restore EXCEPT ![r].at = s]
  PROVE  /\ restore' \in [Restore -> RestoreRow]
         /\ restore'[r] = [at |-> s, seen |-> restore[r].seen, since |-> restore[r].since]
         /\ \A n \in Restore \ {r} : restore'[n] = restore[n]
  BY DEF Typed, RestoreRow

\* No two restores are under way.
LEMMA OneAtATime ==
  ASSUME RestoreInv, NEW r \in Restore, restore[r].at \notin {"idle", "done", "refused", "crashed"},
         NEW n \in Restore \ {r}
  PROVE  /\ restore[n].at \in {"idle", "done", "refused", "crashed"}
         /\ restore[n].at # "idle" => n < r
<1>1. r \in Nat /\ n \in Nat /\ (r < n \/ n < r)
  BY BackupAssumption DEF Restore
<1>2. ~Over(r)
  BY DEF Over
<1>3. CASE r < n
  BY <1>1, <1>2, <1>3 DEF RestoreInv, InTurn
<1>4. CASE n < r
  BY <1>1, <1>4 DEF RestoreInv, InTurn, Over
<1> QED
  BY <1>1, <1>3, <1>4

LEMMA RestoreInit == ASSUME BackupInit PROVE RestoreInv
<1>1. globals \in Globals /\ proxy \in Setting
  BY DEF BackupInit, Globals, Setting
<1>2. export = [at |-> "idle", left |-> {}, got |-> Parts] /\ file = None /\ edits = 0 /\ crossed = FALSE
  BY DEF BackupInit
<1>3. restore = [r \in Restore |-> [at |-> "idle", seen |-> globals, since |-> 0]]
  BY DEF BackupInit
<1>4. Typed
  <2>1. restore \in [Restore -> RestoreRow]
    BY <1>1, <1>3 DEF RestoreRow, Stages
  <2>2. DOMAIN Parts = Queries /\ Parts.globals = globals /\ Parts.proxy = proxy
    BY DEF Parts, Queries
  <2> QED
    BY <1>1, <1>2, <2>1, <2>2 DEF Typed
<1>5. \A r \in Restore : restore[r].at = "idle" /\ restore[r].since = 0
  BY <1>3
<1> QED
  BY <1>2, <1>4, <1>5 DEF RestoreInv, Written, InTurn, Aged, Looked, FilledIn, Begun

\* Steps that leave restores, the file and what is global alone.
LEMMA Apart ==
  ASSUME RestoreInv, UNCHANGED <<globals, proxy, edits, crossed, file, restore>>,
         export'.at = export.at \/ (file = None /\ export'.at # "done"),
         Typed'
  PROVE  RestoreInv' /\ OnlyFills
<1>1. Written'
  BY DEF RestoreInv, Written
<1>2. InTurn' /\ Aged' /\ Looked' /\ FilledIn'
  BY DEF RestoreInv, InTurn, Over, Aged, Begun, Looked, FilledIn, HasGlobals, HasProxy
<1>3. OnlyFills
  BY DEF OnlyFills
<1> QED
  BY <1>1, <1>2, <1>3 DEF RestoreInv

LEMMA ExportBeginKeeps == ASSUME RestoreInv, ExportBegin PROVE RestoreInv' /\ OnlyFills
<1>1. /\ export' = [at |-> "queries", left |-> Queries, got |-> export.got]
      /\ UNCHANGED <<globals, proxy, edits, crossed, file, restore>>
      /\ export.at = "idle"
  BY DEF RestoreInv, Typed, ExportBegin, globally
<1>2. Typed'
  BY <1>1 DEF RestoreInv, Typed
<1>3. file = None
  BY <1>1 DEF RestoreInv, Written
<1> QED
  BY <1>1, <1>2, <1>3, Apart

LEMMA ExportQueryKeeps ==
  ASSUME RestoreInv, NEW q \in Queries, ExportQuery(q) PROVE RestoreInv' /\ OnlyFills
<1>1. /\ export' = [export EXCEPT !.left = @ \ {q}, !.got[q] = Parts[q]]
      /\ UNCHANGED <<globals, proxy, edits, crossed, file, restore>>
  BY DEF ExportQuery, globally
<1>2. export' = [at |-> export.at, left |-> export.left \ {q}, got |-> [export.got EXCEPT ![q] = Parts[q]]]
  BY <1>1 DEF RestoreInv, Typed
<1>3. Parts.globals = globals /\ Parts.proxy = proxy
  BY DEF Parts
<1>4. /\ DOMAIN export'.got = Queries
      /\ export'.got.globals \in {globals, export.got.globals}
      /\ export'.got.proxy \in {proxy, export.got.proxy}
  BY <1>2, <1>3 DEF RestoreInv, Typed, Queries
<1>5. Typed'
  BY <1>1, <1>2, <1>4 DEF RestoreInv, Typed
<1> QED
  BY <1>1, <1>2, <1>5, Apart

LEMMA ExportExamplesKeeps == ASSUME RestoreInv, ExportExamples PROVE RestoreInv' /\ OnlyFills
<1>1. /\ export' = [at |-> "done", left |-> export.left, got |-> export.got]
      /\ UNCHANGED <<globals, proxy, edits, crossed, restore>>
      /\ export.at = "queries"
  BY DEF RestoreInv, Typed, ExportExamples, globally
<1>2. file'.globals = export.got.globals /\ file'.proxy = export.got.proxy
  BY DEF ExportExamples
<1>3. \A r \in Restore : restore[r].at = "idle"
  BY <1>1 DEF RestoreInv, Written
<1>4. Typed'
  BY <1>1, <1>2 DEF RestoreInv, Typed
<1>5. Written' /\ InTurn' /\ Aged' /\ Looked' /\ FilledIn'
  BY <1>1, <1>3 DEF RestoreInv, Written, InTurn, Aged, Begun, Looked, FilledIn
<1>6. OnlyFills
  BY <1>1 DEF OnlyFills
<1> QED
  BY <1>4, <1>5, <1>6 DEF RestoreInv

LEMMA WorkspaceKeeps == ASSUME RestoreInv, WorkspaceStep PROVE RestoreInv' /\ OnlyFills
<1>1. UNCHANGED <<globals, proxy, edits, crossed, export, file, restore>>
  BY DEF WorkspaceStep, globally
<1>2. Typed'
  BY <1>1 DEF RestoreInv, Typed
<1> QED
  BY <1>1, <1>2, Apart

LEMMA EditKeeps == ASSUME RestoreInv, EditGlobals PROVE RestoreInv' /\ OnlyFills
<1>1. edits' = edits + 1 /\ crossed' = TRUE /\ UNCHANGED <<export, file, restore>>
  BY DEF EditGlobals
<1>2. globals' \in Globals /\ proxy' \in Setting
  BY DEF EditGlobals, RestoreInv, Typed, Globals, Setting
<1>3. edits \in Nat /\ \A r \in Restore : restore[r].since \in Nat /\ restore[r].since <= edits
  BY DEF RestoreInv, Typed, RestoreRow, Aged
<1>4. \A r \in Restore : restore[r].since # edits'
  BY <1>1, <1>3
<1>5. Typed'
  BY <1>1, <1>2, <1>3 DEF RestoreInv, Typed
<1>6. Written' /\ InTurn'
  BY <1>1 DEF RestoreInv, Written, InTurn, Over
<1>7. Aged'
  BY <1>1, <1>3 DEF RestoreInv, Aged, Begun
<1>8. Looked' /\ FilledIn'
  BY <1>1, <1>4 DEF RestoreInv, Looked, FilledIn
<1>9. OnlyFills
  BY <1>1, <1>3 DEF OnlyFills
<1> QED
  BY <1>5, <1>6, <1>7, <1>8, <1>9 DEF RestoreInv

LEMMA CommitKeeps ==
  ASSUME RestoreInv, NEW r \in Restore, Commit(r) PROVE RestoreInv' /\ OnlyFills
<1>1. /\ UNCHANGED <<globals, proxy, edits, crossed, export, file>>
      /\ file # None /\ restore[r].at = "idle"
      /\ \A n \in 1..(r - 1) : Over(n)
  BY DEF Commit, globally, Over
<1>2. PICK s \in {"globals", "refused"}, e \in Nat :
        /\ restore' \in [Restore -> RestoreRow]
        /\ restore'[r] = [at |-> s, seen |-> restore[r].seen, since |-> e]
        /\ \A m \in Restore \ {r} : restore'[m] = restore[m]
        /\ e <= edits /\ (s = "globals" => e = edits)
  <2>1. CASE Accepted(RestoreBackup(file))
    <3>1. restore' = [restore EXCEPT ![r].at = "globals", ![r].since = edits]
      BY <2>1 DEF Commit
    <3>2. /\ restore' \in [Restore -> RestoreRow]
          /\ restore'[r] = [at |-> "globals", seen |-> restore[r].seen, since |-> edits]
          /\ \A m \in Restore \ {r} : restore'[m] = restore[m]
      BY <3>1 DEF RestoreInv, Typed, RestoreRow, Stages
    <3>3. edits \in Nat /\ edits <= edits
      BY DEF RestoreInv, Typed
    <3> QED
      BY <3>2, <3>3
  <2>2. CASE ~Accepted(RestoreBackup(file))
    <3>1. restore' = [restore EXCEPT ![r].at = "refused"]
      BY <2>2 DEF Commit
    <3>2. "refused" \in Stages /\ Typed
      BY DEF Stages, RestoreInv
    <3>3. restore[r].since \in Nat /\ restore[r].since <= edits
      BY DEF RestoreInv, Typed, RestoreRow, Aged
    <3> QED
      BY <3>1, <3>2, <3>3, Advance
  <2> QED
    BY <2>1, <2>2
<1>3. Typed' /\ Written'
  BY <1>1, <1>2 DEF RestoreInv, Typed, Written
<1>4. \A m \in Restore : r < m => restore[m].at = "idle"
  <2>1. ~Over(r)
    BY <1>1 DEF Over
  <2> QED
    BY <2>1 DEF RestoreInv, InTurn
<1>5. \A m \in Restore : m < r => Over(m)
  BY <1>1, BackupAssumption DEF Restore
<1>6. InTurn'
  BY <1>2, <1>4, <1>5 DEF RestoreInv, InTurn, Over
<1>7. \A m \in Restore : restore[m].since \in Nat /\ restore[m].since <= edits /\ edits \in Nat
  BY DEF RestoreInv, Typed, RestoreRow, Aged
<1>8. Aged'
  <2>1. \A m \in Restore : restore'[m].since <= edits'
    BY <1>1, <1>2, <1>7
  <2>2. ASSUME NEW m \in Restore, NEW n \in Restore, m < n, restore'[m].at = "done", Begun(n)'
        PROVE  restore'[m].since <= restore'[n].since
    <3>1. m # r /\ restore'[m] = restore[m]
      BY <1>2, <2>2
    <3>2. CASE n = r
      BY <1>2, <1>7, <2>2, <3>1, <3>2 DEF Begun
    <3>3. CASE n # r
      <4>1. restore'[n] = restore[n]
        BY <1>2, <3>3
      <4> QED
        BY <2>2, <3>1, <4>1 DEF RestoreInv, Aged, Begun
    <3> QED
      BY <3>2, <3>3
  <2> QED
    BY <2>1, <2>2 DEF Aged
<1>9. Looked' /\ FilledIn'
  BY <1>1, <1>2 DEF RestoreInv, Looked, FilledIn, HasGlobals, HasProxy
<1>10. OnlyFills
  BY <1>1 DEF OnlyFills
<1> QED
  BY <1>3, <1>6, <1>8, <1>9, <1>10 DEF RestoreInv

\* A restore that goes on keeps its turn.
LEMMA GoesOn ==
  ASSUME RestoreInv, NEW r \in Restore, restore[r].at \in {"globals", "merge", "proxy", "apply"},
         restore' \in [Restore -> RestoreRow], edits' = edits,
         restore'[r].since = restore[r].since,
         restore'[r].at \in {"merge", "proxy", "apply", "done", "crashed"},
         \A n \in Restore \ {r} : restore'[n] = restore[n]
  PROVE  InTurn' /\ Aged'
<1>1. restore[r].at # "idle" /\ ~Over(r) /\ Begun(r)
  BY DEF Over, Begun
<1>2. \A m \in Restore : m < r => Over(m)
  BY <1>1 DEF RestoreInv, InTurn
<1>3. \A n \in Restore : r < n => restore[n].at = "idle"
  BY <1>1 DEF RestoreInv, InTurn
<1>4. ~(r < r)
  BY BackupAssumption DEF Restore
<1>5. InTurn'
  BY <1>2, <1>3, <1>4 DEF RestoreInv, InTurn, Over
<1>6. \A m \in Restore : restore'[m].since <= edits'
  BY DEF RestoreInv, Aged
<1>7. ASSUME NEW m \in Restore, NEW n \in Restore, m < n, restore'[m].at = "done", Begun(n)'
      PROVE  restore'[m].since <= restore'[n].since
  <2>1. CASE m = r
    <3>1. n # r /\ restore'[n].at = "idle"
      BY <1>3, <1>4, <1>7, <2>1
    <3> QED
      BY <1>7, <3>1 DEF Begun
  <2>2. CASE m # r
    <3>1. restore'[m] = restore[m]
      BY <2>2
    <3>2. Begun(n) /\ restore'[n].since = restore[n].since
      BY <1>1, <1>7 DEF Begun
    <3> QED
      BY <1>7, <3>1, <3>2 DEF RestoreInv, Aged
  <2> QED
    BY <2>1, <2>2
<1> QED
  BY <1>5, <1>6, <1>7 DEF Aged

LEMMA LookGlobalsKeeps ==
  ASSUME RestoreInv, NEW r \in Restore, LookGlobals(r) PROVE RestoreInv' /\ OnlyFills
<1>1. /\ UNCHANGED <<globals, proxy, edits, export, file>> /\ crossed' = FALSE
      /\ restore[r].at = "globals"
      /\ restore' = [restore EXCEPT ![r].at = "merge", ![r].seen = globals]
  BY DEF LookGlobals
<1>2. /\ restore' \in [Restore -> RestoreRow]
      /\ restore'[r] = [at |-> "merge", seen |-> globals, since |-> restore[r].since]
      /\ \A n \in Restore \ {r} : restore'[n] = restore[n]
  BY <1>1 DEF RestoreInv, Typed, RestoreRow, Stages
<1>3. Typed' /\ Written'
  BY <1>1, <1>2 DEF RestoreInv, Typed, Written
<1>4. InTurn' /\ Aged'
  BY <1>1, <1>2, GoesOn
<1>5. \A n \in Restore \ {r} : restore[n].at \in {"idle", "done", "refused", "crashed"}
  BY <1>1, OneAtATime
<1>6. Looked' /\ FilledIn'
  BY <1>1, <1>2, <1>5 DEF RestoreInv, Looked, FilledIn, HasGlobals, HasProxy
<1>7. OnlyFills
  BY <1>1 DEF OnlyFills
<1> QED
  BY <1>3, <1>4, <1>6, <1>7 DEF RestoreInv

\* Merging keeps what was seen and adds what the file has.
LEMMA MergeFills ==
  ASSUME NEW seen \in Globals, NEW k \in Key
  PROVE  /\ seen[k] # None => Merged(seen)[k] = seen[k]
         /\ file.globals[k] # None => Merged(seen)[k] # None
  BY DEF Merged

LEMMA MergeGlobalsKeeps ==
  ASSUME RestoreInv, NEW r \in Restore, MergeGlobals(r) PROVE RestoreInv' /\ OnlyFills
<1> DEFINE seen == restore[r].seen
<1>1. /\ UNCHANGED <<proxy, edits, crossed, export, file>>
      /\ restore[r].at = "merge"
      /\ restore' = [restore EXCEPT ![r].at = "proxy"]
      /\ globals' = IF Merged(seen) = seen THEN globals ELSE Merged(seen)
  BY DEF MergeGlobals
<1>2. /\ restore' \in [Restore -> RestoreRow]
      /\ restore'[r] = [at |-> "proxy", seen |-> seen, since |-> restore[r].since]
      /\ \A n \in Restore \ {r} : restore'[n] = restore[n]
  <2>1. "proxy" \in Stages /\ Typed
    BY DEF Stages, RestoreInv
  <2> QED
    BY <1>1, <2>1, Advance
<1>3. seen \in Globals /\ globals \in Globals
  BY DEF RestoreInv, Typed, RestoreRow
<1>4. file # None
  BY <1>1 DEF RestoreInv, Written
<1>5. Merged(seen) \in Globals
  BY <1>3, <1>4 DEF RestoreInv, Typed, Merged, Globals
<1>6. ~crossed => seen = globals /\ globals' = Merged(seen)
  BY <1>1 DEF RestoreInv, Looked
<1>7. restore[r].since = edits => ~crossed
  BY <1>1 DEF RestoreInv, Looked
<1>8. ~crossed => /\ \A k \in Key : globals[k] # None => globals'[k] = globals[k]
                  /\ \A k \in Key : file.globals[k] # None => globals'[k] # None
  BY <1>3, <1>6, MergeFills
<1>9. Typed' /\ Written'
  BY <1>1, <1>2, <1>3, <1>5 DEF RestoreInv, Typed, Written
<1>10. InTurn' /\ Aged'
  BY <1>1, <1>2, GoesOn
<1>11. \A n \in Restore \ {r} : /\ restore[n].at \in {"idle", "done", "refused", "crashed"}
                                /\ restore[n].at # "idle" => n < r
  BY <1>1, OneAtATime
<1>12. Looked'
  BY <1>1, <1>2, <1>11 DEF RestoreInv, Looked
<1>13. ASSUME NEW n \in Restore, restore'[n].since = edits', restore'[n].at \in {"proxy", "apply", "done"}
       PROVE  ~crossed
  <2>1. CASE n = r
    BY <1>1, <1>2, <1>7, <1>13, <2>1
  <2>2. CASE n # r
    <3>1. n < r /\ restore[n].at = "done" /\ restore[n].since = edits
      BY <1>1, <1>2, <1>11, <1>13, <2>2
    <3>2. restore[n].since <= restore[r].since /\ restore[r].since <= edits
      BY <1>1, <3>1 DEF RestoreInv, Aged, Begun
    <3>3. restore[r].since \in Nat /\ edits \in Nat
      BY DEF RestoreInv, Typed, RestoreRow
    <3>4. restore[r].since = edits
      BY <3>1, <3>2, <3>3
    <3> QED
      BY <1>7, <3>4
  <2> QED
    BY <2>1, <2>2
<1>14. ASSUME NEW n \in Restore, restore'[n].since = edits'
       PROVE  /\ restore'[n].at \in {"proxy", "apply", "done"} => HasGlobals'
              /\ restore'[n].at = "done" => HasProxy'
  <2>1. restore'[n].at \in {"proxy", "apply", "done"} => HasGlobals'
    BY <1>1, <1>8, <1>13, <1>14 DEF HasGlobals
  <2>2. ASSUME restore'[n].at = "done" PROVE HasProxy'
    <3>1. restore[n].at = "done" /\ restore[n].since = edits
      BY <1>1, <1>2, <1>14, <2>2
    <3> QED
      BY <1>1, <3>1 DEF RestoreInv, FilledIn, HasProxy
  <2> QED
    BY <2>1, <2>2
<1>15. FilledIn'
  BY <1>14 DEF FilledIn
<1>16. OnlyFills
  BY <1>1, <1>8 DEF OnlyFills
<1> QED
  BY <1>9, <1>10, <1>12, <1>15, <1>16 DEF RestoreInv

LEMMA LookProxyKeeps ==
  ASSUME RestoreInv, NEW r \in Restore, LookProxy(r) PROVE RestoreInv' /\ OnlyFills
<1>1. /\ UNCHANGED <<globals, proxy, edits, export, file>> /\ crossed' = FALSE
      /\ restore[r].at = "proxy"
  BY DEF LookProxy
<1>2. PICK s \in {"done", "apply"} :
        /\ restore' = [restore EXCEPT ![r].at = s]
        /\ s = "done" => HasProxy
        /\ s = "apply" => file.proxy # None /\ proxy = None
  BY DEF LookProxy, HasProxy
<1>3. /\ restore' \in [Restore -> RestoreRow]
      /\ restore'[r] = [at |-> s, seen |-> restore[r].seen, since |-> restore[r].since]
      /\ \A n \in Restore \ {r} : restore'[n] = restore[n]
  <2>1. s \in Stages /\ Typed
    BY DEF Stages, RestoreInv
  <2> QED
    BY <1>2, <2>1, Advance
<1>4. Typed' /\ Written'
  BY <1>1, <1>3 DEF RestoreInv, Typed, Written
<1>5. InTurn' /\ Aged'
  BY <1>1, <1>3, GoesOn
<1>6. \A n \in Restore \ {r} : restore[n].at \in {"idle", "done", "refused", "crashed"}
  BY <1>1, OneAtATime
<1>7. Looked'
  BY <1>1, <1>2, <1>3, <1>6 DEF RestoreInv, Looked
<1>8. FilledIn'
  <2>1. FilledIn /\ (HasGlobals => HasGlobals') /\ (HasProxy => HasProxy')
    BY <1>1 DEF RestoreInv, HasGlobals, HasProxy
  <2>2. restore'[r].at = s /\ restore'[r].since = restore[r].since /\ edits' = edits
    BY <1>1, <1>3
  <2>3. (restore'[r].at = "done" => HasProxy') /\ (restore[r].since = edits => HasGlobals')
    BY <1>1, <1>2, <2>1, <2>2 DEF FilledIn
  <2> QED
    BY <1>3, <2>1, <2>2, <2>3 DEF FilledIn
<1>9. OnlyFills
  BY <1>1 DEF OnlyFills
<1> QED
  BY <1>4, <1>5, <1>7, <1>8, <1>9 DEF RestoreInv

LEMMA ApplyProxyKeeps ==
  ASSUME RestoreInv, NEW r \in Restore, ApplyProxy(r) PROVE RestoreInv' /\ OnlyFills
<1>1. /\ UNCHANGED <<globals, edits, crossed, export, file>> /\ proxy' = file.proxy
      /\ restore[r].at = "apply"
      /\ restore' = [restore EXCEPT ![r].at = "done"]
  BY DEF ApplyProxy
<1>2. file # None /\ file.proxy # None /\ (~crossed => proxy = None)
  BY <1>1 DEF RestoreInv, Written, Looked
<1>3. /\ restore' \in [Restore -> RestoreRow]
      /\ restore'[r] = [at |-> "done", seen |-> restore[r].seen, since |-> restore[r].since]
      /\ \A n \in Restore \ {r} : restore'[n] = restore[n]
  <2>1. "done" \in Stages /\ Typed
    BY DEF Stages, RestoreInv
  <2> QED
    BY <1>1, <2>1, Advance
<1>4. Typed' /\ Written'
  BY <1>1, <1>2, <1>3 DEF RestoreInv, Typed, Written
<1>5. InTurn' /\ Aged'
  BY <1>1, <1>3, GoesOn
<1>6. \A n \in Restore \ {r} : restore[n].at \in {"idle", "done", "refused", "crashed"}
  BY <1>1, OneAtATime
<1>7. Looked'
  BY <1>1, <1>3, <1>6 DEF RestoreInv, Looked
<1>8. FilledIn'
  <2>1. FilledIn /\ (HasGlobals => HasGlobals') /\ HasProxy'
    BY <1>1 DEF RestoreInv, HasGlobals, HasProxy
  <2>2. restore'[r].since = restore[r].since /\ edits' = edits
    BY <1>1, <1>3
  <2>3. restore[r].since = edits => HasGlobals'
    BY <1>1, <2>1 DEF FilledIn
  <2> QED
    BY <1>3, <2>1, <2>2, <2>3 DEF FilledIn
<1>9. OnlyFills
  BY <1>1, <1>2 DEF OnlyFills
<1> QED
  BY <1>4, <1>5, <1>7, <1>8, <1>9 DEF RestoreInv

LEMMA AbandonKeeps ==
  ASSUME RestoreInv, NEW r \in Restore, Abandon(r) PROVE RestoreInv' /\ OnlyFills
<1>1. /\ UNCHANGED <<globals, proxy, edits, crossed, export, file>>
      /\ restore[r].at \in {"globals", "merge", "proxy", "apply"}
      /\ restore' = [restore EXCEPT ![r].at = "crashed"]
  BY DEF Abandon, Merging, globally
<1>2. /\ restore' \in [Restore -> RestoreRow]
      /\ restore'[r] = [at |-> "crashed", seen |-> restore[r].seen, since |-> restore[r].since]
      /\ \A n \in Restore \ {r} : restore'[n] = restore[n]
  <2>1. "crashed" \in Stages /\ Typed
    BY DEF Stages, RestoreInv
  <2> QED
    BY <1>1, <2>1, Advance
<1>3. Typed' /\ Written'
  BY <1>1, <1>2 DEF RestoreInv, Typed, Written
<1>4. InTurn' /\ Aged'
  BY <1>1, <1>2, GoesOn
<1>5. Looked' /\ FilledIn'
  BY <1>1, <1>2 DEF RestoreInv, Looked, FilledIn, HasGlobals, HasProxy
<1>6. OnlyFills
  BY <1>1 DEF OnlyFills
<1> QED
  BY <1>3, <1>4, <1>5, <1>6 DEF RestoreInv

LEMMA RestoreStays ==
  ASSUME RestoreInv, [BackupNext]_<<vars, backup>> PROVE RestoreInv' /\ OnlyFills
<1>1. CASE WorkspaceStep
  BY <1>1, WorkspaceKeeps
<1>2. CASE BackupStep
  <2>1. ASSUME NEW r \in Restore, RestoreStep(r) PROVE RestoreInv' /\ OnlyFills
    BY <2>1, CommitKeeps, LookGlobalsKeeps, MergeGlobalsKeeps, LookProxyKeeps, ApplyProxyKeeps,
       AbandonKeeps DEF RestoreStep
  <2> QED
    BY <1>2, <2>1, ExportBeginKeeps, ExportQueryKeeps, ExportExamplesKeeps, EditKeeps DEF BackupStep
<1>3. CASE UNCHANGED <<vars, backup>>
  <2>1. UNCHANGED <<globals, proxy, edits, crossed, export, file, restore>>
    BY <1>3 DEF backup
  <2>2. Typed'
    BY <2>1 DEF RestoreInv, Typed
  <2> QED
    BY <2>1, <2>2, Apart
<1> QED
  BY <1>1, <1>2, <1>3 DEF BackupNext

\* Restores with edits and crashes between their steps never change a global value
\* that is set, unless the user has set it between the look and the write; and after
\* one that no edit came into, nothing that the file has is missing (backup_restore,
\* restore_globals).
THEOREM GlobalsAlwaysKept == BackupSpec => GlobalsKept
<1>1. BackupInit => RestoreInv
  BY RestoreInit
<1>2. RestoreInv /\ [BackupNext]_<<vars, backup>> => RestoreInv'
  BY RestoreStays
<1>3. RestoreInv => SerialGlobalsRestored
  BY DEF RestoreInv, FilledIn, HasGlobals, HasProxy, SerialGlobalsRestored
<1>4. RestoreInv /\ [BackupNext]_<<vars, backup>> =>
        [~crossed /\ edits' = edits =>
           /\ \A k \in Key : globals[k] # None => globals'[k] = globals[k]
           /\ proxy # None => proxy' = proxy]_<<globals, proxy, edits, crossed>>
  BY RestoreStays DEF OnlyFills
<1> QED
  BY <1>1, <1>2, <1>3, <1>4, PTL DEF BackupSpec, GlobalsKept, GlobalsOnlyFilled

=============================================================================
