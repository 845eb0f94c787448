------------------------------ MODULE MCWorkspace ------------------------------
(***************************************************************************)
(* For TLC: three operations of the interface with nothing beside them, or  *)
(* two that overlap; or an export and two restores beside one operation; or *)
(* projects that go out as documents, and operations that come in.          *)
(***************************************************************************)
EXTENDS Backup

CONSTANTS r1, k1, v1, v2

VARIABLES part, matter

Begins(j) == job[j].at = "idle" /\ job'[j].at # "idle"
FolderCalls(j) ==
  \A k \in DOMAIN job[j].calls : \A c \in job[j].calls[k] : c.do # "saveEndpoint"
OneCall(calls) == Len(calls) = 1 /\ Cardinality(calls[1]) = 1

\* Only the second operation overlaps another, one on folders, with one call.
\* A tab is opened before the first, and lists are read in order in between.
InOrder ==
  /\ \A j \in Op : Begins(j) /\ ~calm' =>
       j = 2 /\ FolderCalls(1) /\ OneCall(job'[2].calls) /\ DOMAIN drafts = {}
  /\ ~calm => job'[3].at = "idle"
  /\ \A j \in Op : calm /\ job[j].at = "read" /\ job'[j].at = "read" => "folders" \notin job'[j].left
  /\ job' = job => job[1].at = "idle" /\ UNCHANGED examples /\ Cardinality(DOMAIN drafts') <= 1

Nobody == [k \in Key |-> None]

---------------------------------------------------------------------------

Txt(quotes, core) == [quotes |-> quotes, core |-> core]
Line(key, value, enabled) == [key |-> key, value |-> value, enabled |-> enabled]
Path(lead, rest, query) == [lead |-> lead, rest |-> rest, query |-> query]
Body(mode, text, rows) == [mode |-> mode, text |-> text, rows |-> rows]
Shown(status, type, text, headers) ==
  [status |-> status, type |-> type, text |-> text, headers |-> headers]

Lines == {<< >>, <<Line("a", "1", TRUE), Line("b", "", FALSE), Line("", "2", TRUE)>>}
SomeTexts == {Txt(q, c) : q \in 0 .. 2, c \in {"json", "spaced", "null", "plain"}}
             \cup {Txt(0, "blank"), Txt(0, "keyword")}
SomeBodies ==
  [mode : {"json"}, text : SomeTexts, rows : {<< >>}]
  \cup {Body("none", Txt(0, "blank"), << >>), Body("text", Txt(0, "plain"), << >>)}
  \cup {Body(m, Txt(0, "blank"), l) : m \in {"form", "multipart"}, l \in Lines}
SomeExamples ==
  {<< >>, <<Shown(200, "json", Txt(0, "spaced"), << >>), Shown(404, "html", Txt(0, "plain"), << >>)>>,
   <<Shown(200, "html", Txt(1, "plain"), <<[key |-> "content-type", value |-> "html"]>>),
     Shown(200, "json", Txt(0, "null"), << >>)>>}
SomeAuths ==
  {[kind |-> k, cred |-> c] : k \in {"none", "bearer", "header", "query", "oauth2"}, c \in {"", "s"}}

Outgoing(names, paths, lines, bodies, auths, answers, deprecated) ==
  {[name |-> n, method |-> "POST", path |-> q, params |-> l[1], headers |-> l[2],
    variables |-> l[3], body |-> b, auth |-> a, examples |-> x, deprecated |-> d] :
     n \in names, q \in paths, l \in lines, b \in bodies, a \in auths, x \in answers, d \in deprecated}

Root1 == Path("", "/r", FALSE)
Usual == CHOOSE e \in Outgoing({<<"n">>}, {Root1}, {<<l, l, l>> : l \in {<< >>}},
                               {Body("json", Txt(0, "json"), << >>)}, {[kind |-> "none", cred |-> ""]},
                               {<< >>}, {FALSE}) : TRUE

\* Every body with every authorization and example; every address and row; and beside
\* them one with the same address, a deprecated one, or one of gRPC.
Projects ==
  {<<e>> : e \in Outgoing({<< >>}, {Root1}, {<<l, l, l>> : l \in {<< >>}}, SomeBodies, SomeAuths,
                          SomeExamples, {FALSE})}
  \cup {<<e, f>> :
          e \in Outgoing({<<"m">>}, {Path(l, r, q) : l \in {"", "host"}, r \in {"", "/r"}, q \in BOOLEAN},
                         Lines \X Lines \X Lines, {Body("json", Txt(0, "spaced"), << >>)},
                         {[kind |-> "bearer", cred |-> "s"]}, {<< >>}, BOOLEAN),
          f \in {Usual, [Usual EXCEPT !.method = "GRPC"], [Usual EXCEPT !.deprecated = TRUE]}}

Operations ==
  {[path |-> Root1, params |-> l[1], headers |-> l[2], variables |-> l[3], body |-> b, folder |-> f] :
     l \in {<< >>, <<Line("a", "1", TRUE), Line("b", "", TRUE)>>} \X {<< >>, <<Line("h", "2", TRUE)>>}
            \X {<< >>, <<Line("v", "3", TRUE)>>},
     b \in {b \in SomeBodies :
              \/ b.mode = "none"
              \/ b.mode = "json" /\ (b.text.quotes = 0 => b.text.core \notin {"plain", "blank"})}
           \cup {Body("form", Txt(0, "blank"), <<Line("k", "v", TRUE)>>)},
     f \in {"", "f"}}

F == INSTANCE Formats WITH Exported <- Projects, Written <- Operations

---------------------------------------------------------------------------

MCInit ==
  /\ BackupInit /\ folders[2] = [up |-> 1, order |-> 0]
  /\ \/ part = "tree" /\ folders[1].order = 0 /\ examples = {}
        /\ endpoints[1].up = 2 /\ endpoints[2].up # 1
        /\ links = [r \in Rule |-> Root] /\ globals = Nobody /\ proxy = None
     \/ part = "file" /\ globals = Nobody /\ proxy = None
        /\ examples = {1, 2} /\ links = [r \in Rule |-> 1]
        /\ endpoints[1].up = 2 /\ endpoints[2].up # 2
     \/ part = "format" /\ folders[1].order = 0 /\ examples = {} /\ links = [r \in Rule |-> Root]
        /\ endpoints = [e \in Endpoint |-> [up |-> 2, order |-> 0]]
        /\ globals = Nobody /\ proxy = None
     \/ part = "global" /\ folders[1].order = 0 /\ examples = {1} /\ links = [r \in Rule |-> 1]
        /\ endpoints = [e \in Endpoint |-> [up |-> 2, order |-> 0]]
  /\ IF part = "format" THEN F!Init ELSE matter = << >>

OneOperationLeft == job[1].at # "done" /\ (job[1].at = "idle" => file = None)

\* One operation, of one call, before or while the project is exported.
OneOperation ==
  /\ job'[2].at = "idle" /\ DOMAIN drafts' = {}
  /\ Begins(1) => file = None /\ OneCall(job'[1].calls)

MCNext ==
  \/ part = "tree" /\ Next /\ InOrder /\ UNCHANGED <<backup, part, matter>>
  \/ part = "file" /\ UNCHANGED <<part, matter>>
     /\ \/ BackupStep /\ edits' = 0 /\ restore'[2].at = "idle"
        \/ OneOperationLeft /\ WorkspaceStep /\ OneOperation
  \/ part = "global" /\ BackupStep /\ UNCHANGED <<part, matter>>

MCSpec == MCInit /\ [][MCNext]_<<vars, backup, part, matter>>

\* Documents keep what they can hold, and come in alike.
FormatsKeep == part = "format" => F!FormatsKeep
=============================================================================
