------------------------------- MODULE MCServers -------------------------------
(***************************************************************************)
(* For TLC: the mock server with three commands, the control server with    *)
(* two and a bridge, two imports through it, or the mock server's choice of  *)
(* a definition.  They share nothing, so a behaviour is one of one of them. *)
(***************************************************************************)
EXTENDS Servers

CONSTANTS m1, m2, m3, r1, p1, p2, a1, a2, b1, i1, i2, o1, o2

ThreeCommands == {m1, m2, m3}
OneRequest == {r1}
TwoProjects == {p1, p2}
TwoOfControl == {a1, a2}
OneBridge == {b1}
TwoImports == {i1, i2}
TwoOrigins == {o1, o2}

VARIABLES part, routes, index

matching == <<routes, index>>

Slot(key, value) == [key |-> key, value |-> value]
Piece(of, name) == [of |-> of, name |-> name]
Body == <<Piece("params", "{id}"), Piece("query", "k"), Piece("params", "{no}")>>

\* Rules that tie, differ in priority, ask for a query or a header, and repeat a
\* name; endpoints with and without an example.
Rule(method, path, query, headers, priority) ==
  [method |-> method, path |-> path, query |-> query, headers |-> headers,
   priority |-> priority, body |-> Body]
SomeRules ==
  {Rule("GET", <<"users", "{id}">>, {}, {}, 0), Rule("GET", <<"users", "me">>, {}, {}, 0),
   Rule("get", <<"", "users", "{id}">>, {Slot("k", "")}, {}, 1),
   Rule("GET", <<"{id}", "{id}">>, {}, {Slot("h", "v")}, 1),
   Rule("PUT", <<"{no}", "{id}", "">>, {Slot("k", "v")}, {}, 0)}
Endpoint(path, example) == [method |-> "GET", path |-> path, example |-> example]
SomeEndpoints ==
  {Endpoint(<<"users", "{id}">>, Body), Endpoint(<<"users", "me">>, << >>),
   Endpoint(<<"{no}", "{id}">>, << >>)}
SomeRequests ==
  [method : {"GET", "get", "PUT"},
   path : {<<"users", "me">>, <<"", "users", "", "7">>, <<"me", "users">>, <<"users">>},
   query : {<< >>, <<Slot("k", "v")>>, <<Slot("k", ""), Slot("k", "v")>>},
   headers : {<< >>, [h \in {"h"} |-> "v"]}]

D == INSTANCE MockMatch WITH
  Upper <- [m \in {"GET", "get", "PUT"} |-> IF m = "get" THEN "GET" ELSE m],
  Placeholder <- {"{id}", "{no}"}, NoWord <- "", Rules <- SomeRules,
  Endpoints <- SomeEndpoints, MaxDefinitions <- 3, Requests <- SomeRequests

\* Commands of the mock server begin in order, the third when the first has
\* ended; only one project is edited.
InOrder ==
  /\ at'[m2] # "idle" => at[m1] # "idle"
  /\ at'[m3] # "idle" => at[m1] = "done" /\ at[m2] # "idle"
  /\ edits'[p2] = 0

\* The two of the control server are alike: the first to begin is a1.
ControlInOrder == where'[a2] # "idle" => where[a1] # "idle"

MCInit ==
  /\ Init /\ taken = {1} /\ active # p2
  /\ A!Init /\ I!Init /\ D!Init
  /\ \/ part = "mock" /\ others = {} /\ projects = {} /\ origin = [i \in {i1, i2} |-> o1]
     \/ part = "control" /\ active = None /\ projects = {}
        /\ origin = [i \in {i1, i2} |-> o1] /\ others \in {{2}, {2, 3}}
     \/ part = "import" /\ active = None /\ others = {}
        /\ origin[i1] = o1 /\ projects \in {{}, {p1}}
     \/ part = "match" /\ active = None /\ others = {} /\ projects = {}
        /\ origin = [i \in {i1, i2} |-> o1]

MCNext ==
  \/ part = "mock" /\ Next /\ InOrder /\ UNCHANGED <<part, control, imports, matching>>
  \/ part = "control" /\ A!Next /\ ControlInOrder
     /\ UNCHANGED <<part, vars, imports, matching>>
  \/ part = "import" /\ I!Next /\ UNCHANGED <<part, vars, control, matching>>
  \/ part = "match" /\ D!Next /\ UNCHANGED <<part, vars, control, imports>>

MCSpec == MCInit /\ [][MCNext]_<<part, vars, control, imports, matching>> /\ Fairness

\* The index answers as a look at every definition does, with what the request
\* itself carries.
MatchIsTrue == part = "match" => D!MatchIsResolve /\ D!CaptureIsOwn
==============================================================================
