--------------------------------- MODULE Backup ---------------------------------
(***************************************************************************)
(* Export of a project to a file and restoring it as a new project          *)
(* (crates/fox-backup, commands/backup.rs), beside the operations of the    *)
(* interface.  An export asks all its queries at once, each of which sees   *)
(* the database at a time of its own.  A restore gives every entity a new   *)
(* id and writes the project in one transaction; then it merges what is     *)
(* global, in steps that edits of the user and a crash can come between.    *)
(*                                                                         *)
(* The new id of x is written x; restored projects share no row.            *)
(***************************************************************************)
EXTENDS Workspace

CONSTANTS
  Rule,      \* mock rules of the project
  Retired,   \* endpoints marked deprecated
  Key,       \* names of global variables
  Value,     \* values of them, and of the proxy setting
  Restores,  \* restores there can be, a bound
  Edits,     \* edits of global values by the user, a bound
  None

ASSUME BackupAssumption == Restores \in Nat

Restore == 1..Restores

VARIABLES
  links,    \* the endpoint of each mock rule, or Root
  globals,  \* the global variables
  proxy,    \* the setting http_proxy
  export,   \* [at, left, got]: the queries still out and what the others saw
  torn,     \* rows changed while the export was under way
  file,     \* the backup, or None
  restore,  \* by restore: [at, seen, since]: global variables seen, edits when it began
  copies,   \* the projects restored, in order
  edits,    \* edits so far
  crossed   \* a value was edited between a restore's look and its write

backup == <<links, globals, proxy, export, torn, file, restore, copies, edits, crossed>>
globally == <<globals, proxy, edits, crossed>>

Queries == {"folders", "endpoints", "links", "globals", "proxy"}
Parts == [folders |-> ListRows(folders), endpoints |-> ListRows(endpoints),
          links |-> links, globals |-> globals, proxy |-> proxy]

----------------------------------------------------------------------------
(* backup_export *)

ExportBegin ==
  /\ export.at = "idle"
  /\ export' = [export EXCEPT !.at = "queries", !.left = Queries]
  /\ UNCHANGED <<links, globally, torn, file, restore, copies>>

ExportQuery(q) ==
  /\ export.at = "queries" /\ q \in export.left
  /\ export' = [export EXCEPT !.left = @ \ {q}, !.got[q] = Parts[q]]
  /\ UNCHANGED <<links, globally, torn, file, restore, copies>>

\* Examples of the endpoints it has, but for deprecated ones; then the file.
ExportExamples ==
  /\ export.at = "queries" /\ export.left = {}
  /\ file' = [f \in {"folders", "endpoints", "links", "globals", "proxy", "examples"} |->
                IF f = "examples" THEN examples \cap (Ids(export.got.endpoints) \ Retired)
                ELSE export.got[f]]
  /\ export' = [export EXCEPT !.at = "done"]
  /\ UNCHANGED <<links, globally, torn, restore, copies>>

----------------------------------------------------------------------------
(* restore_backup: new ids for all, references through the map of ids so far.   *)
(* A reference the map does not have becomes an id that no row has.             *)

Stray == NF + NE + 1

RemapFolders(f) ==
  [k \in DOMAIN f.folders |->
     [f.folders[k] EXCEPT !.up =
        IF @ \in {Root} \cup {f.folders[n].id : n \in 1..k} THEN @ ELSE Stray]]

\* Slip: the map has no folders yet.
RemapEndpointsEarly(f) ==
  [k \in DOMAIN f.endpoints |->
     [f.endpoints[k] EXCEPT !.up = IF @ = Root THEN @ ELSE Stray]]

RemapEndpoints(f) ==
  [k \in DOMAIN f.endpoints |->
     [f.endpoints[k] EXCEPT !.up = IF @ \in {Root} \cup Ids(f.folders) THEN @ ELSE Stray]]

RemapLinks(f) ==
  [r \in Rule |-> IF f.links[r] \in {Root} \cup Ids(f.endpoints) THEN f.links[r] ELSE Stray]

RestoreBackup(f) ==
  [folders |-> RemapFolders(f), endpoints |-> RemapEndpoints(f), links |-> RemapLinks(f),
   examples |-> {IF e \in Ids(f.endpoints) THEN e ELSE Stray : e \in f.examples}]

\* The database takes a project whose references all have their row.
Accepted(p) ==
  /\ \A k \in DOMAIN p.folders : p.folders[k].up \in {Root} \cup Ids(p.folders)
  /\ \A k \in DOMAIN p.endpoints : p.endpoints[k].up \in {Root} \cup Ids(p.folders)
  /\ \A r \in Rule : p.links[r] \in {Root} \cup Ids(p.endpoints)
  /\ p.examples \subseteq Ids(p.endpoints)

----------------------------------------------------------------------------
(* backup_restore *)

Commit(r) ==
  /\ file # None /\ restore[r].at = "idle"
  /\ \A n \in 1..(r - 1) : restore[n].at \in {"done", "refused", "crashed"}
  /\ LET p == RestoreBackup(file)
     IN IF Accepted(p)
        THEN copies' = Append(copies, p)
             /\ restore' = [restore EXCEPT ![r].at = "globals", ![r].since = edits]
        ELSE restore' = [restore EXCEPT ![r].at = "refused"] /\ UNCHANGED copies
  /\ UNCHANGED <<links, globally, export, torn, file>>

\* restore_globals: what the database has, ...
LookGlobals(r) ==
  /\ restore[r].at = "globals"
  /\ restore' = [restore EXCEPT ![r].at = "merge", ![r].seen = globals]
  /\ crossed' = FALSE /\ UNCHANGED <<links, globals, proxy, edits, export, torn, file, copies>>

\* Slip: the file wins.
MergedOver(seen) == [k \in Key |-> IF file.globals[k] # None THEN file.globals[k] ELSE seen[k]]

\* ... and what of the file it lacks, written back together.
Merged(seen) == [k \in Key |-> IF seen[k] # None THEN seen[k] ELSE file.globals[k]]

MergeGlobals(r) ==
  /\ restore[r].at = "merge"
  /\ globals' = IF Merged(restore[r].seen) = restore[r].seen THEN globals ELSE Merged(restore[r].seen)
  /\ restore' = [restore EXCEPT ![r].at = "proxy"]
  /\ UNCHANGED <<links, proxy, edits, crossed, export, torn, file, copies>>

\* The proxy is applied where there is none.
LookProxy(r) ==
  /\ restore[r].at = "proxy"
  /\ restore' = [restore EXCEPT ![r].at = IF file.proxy = None \/ proxy # None THEN "done" ELSE "apply"]
  /\ crossed' = FALSE /\ UNCHANGED <<links, globals, proxy, edits, export, torn, file, copies>>

ApplyProxy(r) ==
  /\ restore[r].at = "apply"
  /\ proxy' = file.proxy
  /\ restore' = [restore EXCEPT ![r].at = "done"]
  /\ UNCHANGED <<links, globals, edits, crossed, export, torn, file, copies>>

Merging(r) == restore[r].at \in {"globals", "merge", "proxy", "apply"}

\* The application ends, or a query fails: the project stays, the rest is left out.
Abandon(r) ==
  /\ Merging(r)
  /\ restore' = [restore EXCEPT ![r].at = "crashed"]
  /\ UNCHANGED <<links, globally, export, torn, file, copies>>

EditGlobals ==
  /\ edits < Edits /\ edits' = edits + 1 /\ crossed' = TRUE
  /\ \/ \E k \in Key, v \in Value \cup {None} : globals' = [globals EXCEPT ![k] = v] /\ UNCHANGED proxy
     \/ \E v \in Value \cup {None} : proxy' = v /\ UNCHANGED globals
  /\ UNCHANGED <<links, export, torn, file, restore, copies>>

\* The rows of the project change beside all this; a rule whose endpoint goes
\* is a rule of no endpoint.
WorkspaceStep ==
  /\ Next
  /\ links' = [r \in Rule |-> IF links[r] \in DOMAIN endpoints' THEN links[r] ELSE Root]
  /\ torn' = (torn \/ (export.at = "queries" /\ tree' # tree))
  /\ UNCHANGED <<globally, export, file, restore, copies>>

----------------------------------------------------------------------------
BackupInit ==
  /\ Init
  /\ links \in [Rule -> {Root} \cup DOMAIN endpoints]
  /\ globals \in [Key -> Value \cup {None}] /\ proxy \in Value \cup {None}
  /\ export = [at |-> "idle", left |-> {}, got |-> Parts]
  /\ torn = FALSE /\ file = None /\ copies = <<>> /\ edits = 0 /\ crossed = FALSE
  /\ restore = [r \in Restore |-> [at |-> "idle", seen |-> globals, since |-> 0]]

RestoreStep(r) ==
  Commit(r) \/ LookGlobals(r) \/ MergeGlobals(r) \/ LookProxy(r) \/ ApplyProxy(r) \/ Abandon(r)

BackupStep ==
  /\ \/ ExportBegin \/ (\E q \in Queries : ExportQuery(q)) \/ ExportExamples
     \/ (\E r \in Restore : RestoreStep(r)) \/ EditGlobals
  /\ UNCHANGED vars

BackupNext == WorkspaceStep \/ BackupStep

BackupSpec == BackupInit /\ [][BackupNext]_<<vars, backup>>

----------------------------------------------------------------------------
\* What is kept is kept whole: folders, endpoints, rules and examples of a
\* restored project refer to each other as those of the file do.
CopyIsWhole ==
  \A n \in DOMAIN copies :
    copies[n] = [folders |-> file.folders, endpoints |-> file.endpoints,
                 links |-> file.links, examples |-> file.examples]

ParentsFirst(list) ==
  \A k \in DOMAIN list : list[k].up \in {Root} \cup {list[n].id : n \in 1..(k - 1)}

\* An export with no change under way can be restored, if its list has every
\* folder after the one above it.
QuietExportRestores ==
  file # None /\ ~torn /\ ParentsFirst(file.folders) => \A r \in Restore : restore[r].at # "refused"

\* The same whatever the order the folders are listed in.
EveryQuietExportRestores ==
  file # None /\ ~torn => \A r \in Restore : restore[r].at # "refused"

\* A restore fills what is missing globally and changes nothing that is set,
\* unless the user set it between the restore's look and its write.
GlobalsOnlyFilled ==
  [][~crossed /\ edits' = edits =>
       /\ \A k \in Key : globals[k] # None => globals'[k] = globals[k]
       /\ proxy # None => proxy' = proxy]_<<globals, proxy, edits, crossed>>

\* After a restore that no edit came into, nothing global that the file has is
\* missing.
SerialGlobalsRestored ==
  \A r \in Restore : restore[r].at = "done" /\ restore[r].since = edits =>
    /\ \A k \in Key : file.globals[k] # None => globals[k] # None
    /\ file.proxy # None => proxy # None

\* A restore makes a whole copy, and one of a quiet export is not refused.
RestoreWhole == CopyIsWhole /\ QuietExportRestores

\* Globals are only filled in, and from a restore with nothing beside it, all.
GlobalsKept == []SerialGlobalsRestored /\ GlobalsOnlyFilled
=============================================================================
