------------------------------- MODULE Workspace -------------------------------
(***************************************************************************)
(* The tree of folders and endpoints of one project: the rows of the        *)
(* database, the copy the interface shows, and the interface's operations   *)
(* (frontend/src/stores/workspace.ts).  An operation works out its calls    *)
(* from the copy, the calls run in the backend at times of their own, and   *)
(* then the operation reads both lists again and installs what it read.     *)
(* Operations may overlap: nothing in the interface waits for another.      *)
(*                                                                         *)
(* Folders and endpoints are numbered in the order they were created in,    *)
(* so that ORDER BY sort_order, created_at is an order of numbers.          *)
(***************************************************************************)
EXTENDS Naturals, FiniteSets, Sequences, SequencesExt, TLC

CONSTANTS
  NF,      \* folders there can be
  NE,      \* endpoints there can be
  Ops,     \* operations of the user, a bound
  Places   \* positions an item is dropped at; the last lies beyond every group

Folder == 1..NF
Endpoint == 1..NE
Root == 0
Op == 1..Ops

VARIABLES
  folders,     \* rows by id: [up, order]
  endpoints,   \* rows by id: [up, order]
  examples,    \* endpoints with saved examples or test cases
  shown,       \* the interface's two lists, of [id, up, order]
  drafts,      \* the copies of endpoints open in tabs, by id
  lastDeleted, \* what undo would save again: two lists
  job,         \* by operation
  calm,        \* no two operations have overlapped
  before,      \* the lists before the last deletion, as long as only undo may follow
  wanted,      \* the group the last operation should leave, if it was a move
  placed       \* where the user last put an endpoint, by drag or by batch

tree == <<folders, endpoints, examples>>
vars == <<tree, shown, drafts, lastDeleted, job, calm, before, wanted, placed>>

----------------------------------------------------------------------------
(* The database *)

\* SELECT ... ORDER BY sort_order, created_at
ListRows(t) ==
  LET rows == {[id |-> x, up |-> t[x].up, order |-> t[x].order] : x \in DOMAIN t}
  IN SetToSortSeq(rows, LAMBDA r, s : r.order < s.order \/ (r.order = s.order /\ r.id < s.id))

Row(r) == [up |-> r.up, order |-> r.order]
Without(t, ids) == [x \in DOMAIN t \ ids |-> t[x]]

\* What is reached from S by as many steps as there are folders.
Reach(S, step(_)) == FoldLeft(LAMBDA R, n : R \cup step(R), S, [n \in Folder |-> n])

\* Slip: without what hangs below.
SubtreeAlone(t, f) == {f}

\* A set with f in which all is that hangs below what is in it.
Closed(t, f, S) == f \in S /\ \A x \in DOMAIN t : t[x].up \in S => x \in S

\* WITH RECURSIVE: the folder and all that hangs below it, the least such set.
Subtree(t, f) ==
  LET ids == {f} \cup DOMAIN t
  IN {x \in ids : \A S \in SUBSET ids : Closed(t, f, S) => x \in S}

\* No folder lies below itself; on a cycle the recursive query never ends.
Acyclic(t) == \A f \in DOMAIN t : t[f].up \notin Subtree(t, f)

\* A statement that would leave a reference to a missing folder is refused.
Refused(c) ==
  \/ c.do = "saveFolder" /\ c.row.up \notin {Root, c.row.id} \cup DOMAIN folders
  \/ c.do = "saveEndpoint" /\ c.row.up \notin {Root} \cup DOMAIN folders
  \/ c.do = "deleteFolder" /\ c.row.id \notin DOMAIN folders

\* INSERT ... ON CONFLICT DO UPDATE
Upsert(t, r) == [x \in {r.id} \cup DOMAIN t |-> IF x = r.id THEN Row(r) ELSE t[x]]

\* Endpoints below first, then the folders, in one transaction.
DeleteFolder(f) ==
  LET gone == Subtree(folders, f)
      left == {e \in DOMAIN endpoints : endpoints[e].up \notin gone}
  IN /\ Acyclic(folders)
     /\ folders' = [x \in DOMAIN folders \ gone |->
                      [folders[x] EXCEPT !.up = IF @ \in gone THEN Root ELSE @]]
     /\ endpoints' = [e \in left |-> endpoints[e]]
     /\ examples' = examples \cap left

DeleteEndpoint(e) ==
  /\ endpoints' = Without(endpoints, {e}) /\ examples' = examples \ {e}
  /\ UNCHANGED folders

Apply(c) ==
  \/ c.do = "saveFolder" /\ folders' = Upsert(folders, c.row) /\ UNCHANGED <<endpoints, examples>>
  \/ c.do = "saveEndpoint" /\ endpoints' = Upsert(endpoints, c.row) /\ UNCHANGED <<folders, examples>>
  \/ c.do = "deleteFolder" /\ DeleteFolder(c.row.id)
  \/ c.do = "deleteEndpoint" /\ DeleteEndpoint(c.row.id)

----------------------------------------------------------------------------
(* The interface's plans: pure functions of its lists *)

In(list, up) == SelectSeq(list, LAMBDA r : r.up = up)
Ids(list) == {list[k].id : k \in DOMAIN list}
Find(list, id) == list[CHOOSE k \in DOMAIN list : list[k].id = id]
Least(a, b) == IF a <= b THEN a ELSE b

\* renumberAround: the pairs <<id, order>> of those whose order changes
Renumber(group, at, moved) ==
  LET rest == SelectSeq(group, LAMBDA r : r.id # moved)
      Slot(k) == IF k - 1 < at THEN k - 1 ELSE k
  IN {<<rest[k].id, Slot(k)>> : k \in {k \in DOMAIN rest : rest[k].order # Slot(k)}}

PlanMove(list, moved, up, i) ==
  LET old == In(list, Find(list, moved).up)
      new == In(list, up)
      at  == Least(i, IF old = new THEN Len(new) - 1 ELSE Len(new))
  IN Renumber(new, at, moved) \cup {<<moved, at>>}
     \cup IF Find(list, moved).up = up THEN {} ELSE Renumber(old, 0, moved)

\* What the plan has each of its rows saved as.
Planned(list, plan, moved, up) ==
  {[id |-> p[1], order |-> p[2], up |-> IF p[1] = moved THEN up ELSE Find(list, p[1]).up] : p \in plan}

\* The moved item changes in the shown list at once, the others by the refresh.
MovedIn(list, rows, moved) ==
  [k \in DOMAIN list |-> IF list[k].id = moved THEN CHOOSE r \in rows : r.id = moved ELSE list[k]]

\* The ids of a list of rows as a drop of `moved' at place i of a group leaves them.
Dropped(list, up, moved, i) ==
  LET rest == SelectSeq(In(list, up), LAMBDA r : r.id # moved)
      at   == Least(i, Len(rest))
      ids  == [k \in DOMAIN rest |-> rest[k].id]
  IN SubSeq(ids, 1, at) \o <<moved>> \o SubSeq(ids, at + 1, Len(ids))

\* Slip: only the folder itself is looked at.
WouldCreateCycleAtOnce(list, f, up) == f = up

\* wouldCreateCycle: the chain of parents above `up' meets f.
WouldCreateCycle(list, f, up) ==
  f \in Reach({up}, LAMBDA R : {list[k].up : k \in {k \in DOMAIN list : list[k].id \in R}})

\* collectSubtree: parents before their children
Collect(list, f) ==
  FoldLeft(LAMBDA rows, n : rows \o SelectSeq(list, LAMBDA r : r.up \in Ids(rows) /\ r.id \notin Ids(rows)),
           SelectSeq(list, LAMBDA r : r.id = f), [n \in Folder |-> n])

----------------------------------------------------------------------------
(* Operations *)

Nothing == [folders |-> <<>>, endpoints |-> <<>>]
Lists == [folders |-> ListRows(folders), endpoints |-> ListRows(endpoints)]
Idle == [at |-> "idle", calls |-> <<>>, left |-> {}, got |-> Nothing, snap |-> Nothing,
         saves |-> Root, closes |-> {}]
Call(do, r) == [do |-> do, row |-> r]
Calls(do, rows) == {Call(do, r) : r \in rows}
OneByOne(do, list) == [k \in DOMAIN list |-> {Call(do, list[k])}]
Unplaced == [by |-> "none", up |-> Root]

Running(j) == job[j].at \notin {"idle", "done"}
Quiet == calm /\ \A j \in Op : ~Running(j)

Free(j) == job[j].at = "idle" /\ \A k \in 1..(j - 1) : job[k].at # "idle"

\* An operation begins: groups of calls, one group after the other.
Start(j, new) ==
  /\ job' = [job EXCEPT ![j] = new]
  /\ calm' = Quiet
  /\ UNCHANGED tree

NewFolder(j, f, up) ==
  /\ f \notin DOMAIN folders \cup Ids(shown.folders) /\ \A k \in 1..(f - 1) : k \in DOMAIN folders
  /\ up \in {Root} \cup Ids(shown.folders)
  /\ Start(j, [Idle EXCEPT !.at = "calls",
                 !.calls = <<{Call("saveFolder", [id |-> f, up |-> up, order |-> 0])}>>])
  /\ before' = Nothing /\ wanted' = {} /\ UNCHANGED <<shown, drafts, lastDeleted, placed>>

MoveFolder(j, f, up, i) ==
  LET rows == Planned(shown.folders, PlanMove(shown.folders, f, up, i), f, up)
  IN /\ f \in Ids(shown.folders) /\ up \in {Root} \cup Ids(shown.folders)
     /\ ~WouldCreateCycle(shown.folders, f, up)
     /\ Start(j, [Idle EXCEPT !.at = "calls", !.calls = <<Calls("saveFolder", rows)>>])
     /\ shown' = [shown EXCEPT !.folders = MovedIn(@, rows, f)]
     /\ wanted' = {<<"folders", up, Dropped(shown.folders, up, f, i)>>}
     /\ before' = Nothing /\ UNCHANGED <<drafts, lastDeleted, placed>>

\* Open drafts take the folder and the order of the rows that change.
Follow(rows, moved) ==
  [e \in DOMAIN drafts |->
     IF e \notin {r.id : r \in rows} THEN drafts[e]
     ELSE LET r == CHOOSE r \in rows : r.id = e
          IN [up |-> IF e = moved THEN r.up ELSE drafts[e].up, order |-> r.order]]

MoveEndpoint(j, e, up, i) ==
  LET rows == Planned(shown.endpoints, PlanMove(shown.endpoints, e, up, i), e, up)
  IN /\ e \in Ids(shown.endpoints) /\ up \in {Root} \cup Ids(shown.folders)
     /\ Start(j, [Idle EXCEPT !.at = "calls", !.calls = <<Calls("saveEndpoint", rows)>>])
     /\ shown' = [shown EXCEPT !.endpoints = MovedIn(@, rows, e)]
     /\ drafts' = Follow(rows, e)
     /\ wanted' = {<<"endpoints", up, Dropped(shown.endpoints, up, e, i)>>}
     /\ placed' = [placed EXCEPT ![e] = [by |-> "drag", up |-> up]]
     /\ before' = Nothing /\ UNCHANGED lastDeleted

\* The selected endpoints go to the end of a folder, in the order of the list.
BatchMoveEndpoints(j, es, up) ==
  LET list  == SelectSeq(shown.endpoints, LAMBDA r : r.id \in es)
      group == In(shown.endpoints, up)
      last  == {0} \cup {group[k].order + 1 : k \in DOMAIN group}
      end   == CHOOSE n \in last : \A m \in last : m <= n
  IN /\ es # {} /\ es \subseteq Ids(shown.endpoints) /\ up \in {Root} \cup Ids(shown.folders)
     /\ Start(j, [Idle EXCEPT !.at = "calls",
          !.calls = <<{Call("saveEndpoint", [id |-> list[k].id, up |-> up, order |-> end + k - 1])
                       : k \in DOMAIN list}>>])
     /\ placed' = [e \in Endpoint |-> IF e \in es THEN [by |-> "batch", up |-> up] ELSE placed[e]]
     /\ before' = Nothing /\ wanted' = {} /\ UNCHANGED <<shown, drafts, lastDeleted>>

\* Selected folders that lie below no other, and endpoints below none of them.
Tops(fs) == {f \in fs : \A g \in fs \ {f} : ~WouldCreateCycle(shown.folders, g, f)}
Below(fs) == {e \in Ids(shown.endpoints) :
                \E f \in fs : WouldCreateCycle(shown.folders, f, Find(shown.endpoints, e).up)}

\* deleteFolder, deleteEndpoint and batchDelete: what they remember for undo.
Snapshot(fs, es) ==
  [folders   |-> FlattenSeq([k \in 1..Cardinality(fs) |-> Collect(shown.folders, SetToSeq(fs)[k])]),
   endpoints |-> SelectSeq(shown.endpoints, LAMBDA r : r.id \in Below(fs) \cup es)]

Delete(j, fs, es) ==
  LET tops == Tops(fs)
      lone == es \ Below(tops)
      snap == Snapshot(tops, lone)
  IN /\ fs \cup es # {} /\ fs \subseteq Ids(shown.folders) /\ es \subseteq Ids(shown.endpoints)
     /\ Start(j, [Idle EXCEPT !.at = "calls", !.snap = snap, !.closes = lone,
          !.calls = OneByOne("deleteFolder", SelectSeq(snap.folders, LAMBDA r : r.id \in tops))
                    \o OneByOne("deleteEndpoint", SelectSeq(snap.endpoints, LAMBDA r : r.id \in lone))])
     /\ drafts' = Without(drafts, Below(tops))
     /\ before' = Lists /\ wanted' = {} /\ placed' = [e \in Endpoint |-> Unplaced]
     /\ UNCHANGED <<shown, lastDeleted>>

UndoDelete(j) ==
  /\ lastDeleted # Nothing
  /\ Start(j, [Idle EXCEPT !.at = "calls",
       !.calls = OneByOne("saveFolder", lastDeleted.folders) \o OneByOne("saveEndpoint", lastDeleted.endpoints)])
  /\ lastDeleted' = Nothing
  /\ wanted' = {} /\ UNCHANGED <<shown, drafts, before, placed>>

\* A tab opens with a copy of the endpoint, or with a new one.
OpenEndpoint(e) ==
  /\ e \in Ids(shown.endpoints) \ DOMAIN drafts
  /\ drafts' = (e :> Row(Find(shown.endpoints, e))) @@ drafts
  /\ UNCHANGED <<tree, shown, lastDeleted, job, calm, before, wanted, placed>>

NewDraft(e, up) ==
  /\ e \notin DOMAIN endpoints \cup Ids(shown.endpoints) \cup DOMAIN drafts
  /\ \A d \in 1..(e - 1) : d \in DOMAIN endpoints
  /\ up \in {Root} \cup Ids(shown.folders)
  /\ drafts' = (e :> [up |-> up, order |-> 0]) @@ drafts
  /\ UNCHANGED <<tree, shown, lastDeleted, job, calm, before, wanted, placed>>

SaveActiveDraft(j, e) ==
  /\ e \in DOMAIN drafts
  /\ Start(j, [Idle EXCEPT !.at = "calls", !.saves = e,
       !.calls = <<{Call("saveEndpoint", [id |-> e, up |-> drafts[e].up, order |-> drafts[e].order])}>>])
  /\ before' = Nothing /\ wanted' = {} /\ UNCHANGED <<shown, drafts, lastDeleted, placed>>

SaveExample(e) ==
  /\ e \in DOMAIN endpoints \ examples /\ examples' = examples \cup {e}
  /\ UNCHANGED <<folders, endpoints, shown, drafts, lastDeleted, job, calm, before, wanted, placed>>

----------------------------------------------------------------------------
(* How an operation goes on *)

\* What follows when a call was answered.
Answered(j, c, failed) ==
  LET rest  == Head(job[j].calls) \ {c}
      calls == IF failed THEN <<rest>>
               ELSE IF rest # {} THEN <<rest>> \o Tail(job[j].calls) ELSE Tail(job[j].calls)
  IN [job[j] EXCEPT !.calls = calls,
        !.at = IF failed THEN IF rest = {} THEN "done" ELSE "failed"
               ELSE IF calls # <<>> THEN "calls" ELSE IF job[j].saves = Root THEN "read" ELSE "saved",
        !.left = IF calls = <<>> /\ job[j].saves = Root THEN {"folders", "endpoints"} ELSE {},
        !.got = IF job[j].saves = Root THEN @ ELSE [Nothing EXCEPT !.endpoints = <<c.row>>]]

\* A call runs; the calls of a group run in any order.  After a refusal the
\* operation ends, but calls already made still run.
RunCall(j) ==
  /\ job[j].at \in {"calls", "failed"}
  /\ \E c \in Head(job[j].calls) :
       LET failed == Refused(c) \/ job[j].at = "failed"
           next   == Answered(j, c, failed)
       IN /\ IF Refused(c) THEN UNCHANGED tree ELSE Apply(c)
          /\ job' = [job EXCEPT ![j] = next]
          /\ drafts' = IF next.at = "read" THEN Without(drafts, job[j].closes) ELSE drafts
  /\ UNCHANGED <<shown, lastDeleted, calm, before, wanted, placed>>

\* refresh: two queries, each at its own time, then both lists at once.
ReadList(j, which) ==
  /\ job[j].at = "read" /\ which \in job[j].left
  /\ job' = [job EXCEPT ![j].left = @ \ {which}, ![j].got[which] = Lists[which]]
  /\ UNCHANGED <<tree, shown, drafts, lastDeleted, calm, before, wanted, placed>>

Show(j) ==
  /\ job[j].at = "read" /\ job[j].left = {}
  /\ shown' = job[j].got
  /\ lastDeleted' = IF job[j].snap = Nothing THEN lastDeleted ELSE job[j].snap
  /\ job' = [job EXCEPT ![j] = [Idle EXCEPT !.at = "done"]]
  /\ UNCHANGED <<tree, drafts, calm, before, wanted, placed>>

\* A saved draft takes the row that was saved; so does the list.
Saved(j) ==
  LET r == job[j].got.endpoints[1]
  IN /\ job[j].at = "saved"
     /\ drafts' = (r.id :> Row(r)) @@ drafts
     /\ shown' = [shown EXCEPT !.endpoints =
                    IF r.id \in Ids(@) THEN [k \in DOMAIN @ |-> IF @[k].id = r.id THEN r ELSE @[k]]
                    ELSE Append(@, r)]
     /\ job' = [job EXCEPT ![j] = [Idle EXCEPT !.at = "done"]]
     /\ UNCHANGED <<tree, lastDeleted, calm, before, wanted, placed>>

----------------------------------------------------------------------------
\* Folders made one below another, some dragged since; endpoints in any folder.
Init ==
  /\ folders \in {[f \in Folder |-> [up |-> p[f], order |-> o[f]]] :
                    p \in {q \in [Folder -> 0..NF] : \A f \in Folder : q[f] < f}, o \in [Folder -> 0..1]}
  /\ endpoints \in {[e \in Endpoint |-> [up |-> p[e], order |-> 0]] : p \in [Endpoint -> 0..NF]}
  /\ examples \in SUBSET Endpoint
  /\ shown = Lists
  /\ drafts = <<>> /\ lastDeleted = Nothing
  /\ job = [j \in Op |-> Idle]
  /\ calm = TRUE /\ before = Nothing /\ wanted = {}
  /\ placed = [e \in Endpoint |-> Unplaced]

Operation(j) ==
  /\ Free(j)
  /\ \/ \E f \in Folder, up \in 0..NF : NewFolder(j, f, up)
     \/ \E f \in Folder, up \in 0..NF, i \in Places : MoveFolder(j, f, up, i)
     \/ \E e \in Endpoint, up \in 0..NF, i \in Places : MoveEndpoint(j, e, up, i)
     \/ \E es \in SUBSET Endpoint, up \in 0..NF : BatchMoveEndpoints(j, es, up)
     \/ \E fs \in SUBSET Folder, es \in SUBSET Endpoint : Delete(j, fs, es)
     \/ UndoDelete(j)
     \/ \E e \in Endpoint : SaveActiveDraft(j, e)

Continue(j) == RunCall(j) \/ (\E which \in {"folders", "endpoints"} : ReadList(j, which)) \/ Show(j) \/ Saved(j)

Next ==
  \/ \E j \in Op : Operation(j) \/ Continue(j)
  \/ \E e \in Endpoint : OpenEndpoint(e) \/ SaveExample(e)
  \/ \E e \in Endpoint, up \in 0..NF : NewDraft(e, up)

Spec == Init /\ [][Next]_vars

----------------------------------------------------------------------------
\* Every reference of a row is to a row, and only saved endpoints have examples.
TypeOK ==
  /\ DOMAIN folders \subseteq Folder /\ DOMAIN endpoints \subseteq Endpoint
  /\ \A f \in DOMAIN folders : folders[f].up \in {Root} \cup DOMAIN folders
  /\ \A e \in DOMAIN endpoints : endpoints[e].up \in {Root} \cup DOMAIN folders
  /\ examples \subseteq DOMAIN endpoints

\* While operations do not overlap, no folder comes to lie below itself: the
\* recursive query of a deletion ends, and so do the walks of the interface.
SerialAcyclic == calm => Acyclic(folders)

\* A drop leaves the group in the order it was dropped in (planSameGroupMove,
\* planCrossGroupMove), though only the rows that change are saved.
SerialDropLands ==
  Quiet => \A w \in wanted :
    LET group == In(Lists[w[1]], w[2]) IN [k \in DOMAIN group |-> group[k].id] = w[3]

\* Undo brings back the tree as it was before the deletion.
SerialUndoRestores ==
  Quiet /\ before # Nothing /\ lastDeleted = Nothing => Lists = before

\* Saving an open draft does not take a dragged endpoint back to the folder it
\* was in when its tab was opened.
SerialDragSurvivesSave ==
  Quiet => \A e \in DOMAIN endpoints : placed[e].by = "drag" => endpoints[e].up = placed[e].up

\* Deleting a folder never lets what was below it come to the root.
NothingSurfaces ==
  [][/\ \A f \in DOMAIN folders \cap DOMAIN folders' :
          folders[f].up # Root /\ folders[f].up \notin DOMAIN folders' => folders'[f].up # Root
     /\ \A e \in DOMAIN endpoints \cap DOMAIN endpoints' :
          endpoints[e].up # Root /\ endpoints[e].up \notin DOMAIN folders' => endpoints'[e].up # Root]_vars

\* The tree stays a tree, and is what the user made of it: drops land, undo
\* restores, a saved draft does not move back.
TreeKept ==
  TypeOK /\ SerialAcyclic /\ SerialDropLands /\ SerialUndoRestores /\ SerialDragSurvivesSave
=============================================================================
