------------------------------ MODULE AgentImport ------------------------------
(***************************************************************************)
(* POST /agent/curl of the control server (crates/fox-agent/server.rs):     *)
(* imports of a cURL command as an endpoint, which overlap with each other  *)
(* and with the user's edits of projects in the application.                *)
(*                                                                          *)
(* A step is a query of the database; between two of them anybody may write *)
(* and the client may give up, on which the handler is dropped.             *)
(* A project's variables are base_url and one other, whose value counts the *)
(* user's edits.  What the command says is left out but for the origin of   *)
(* its URL.                                                                  *)
(***************************************************************************)
EXTENDS Naturals, FiniteSets

CONSTANTS
  Import,    \* requests
  Project,   \* projects there may be
  Origin,    \* origins of URLs
  None,
  MaxEdits   \* bound: edits of a project

VARIABLES
  at, result, \* where each import is, and how it ended
  wants,      \* the projectId of its request, or None
  origin,     \* the origin of its URL
  chosen,     \* the project it found
  base, other,\* base_url (or None) and the other variable when it read them
  told,       \* the base_url it answers with
  warned,     \* imports that answer with a warning
  projects,   \* projects in the database
  baseUrl, variable, \* variables of each project
  endpoints,  \* imports whose endpoint is in the database
  events,     \* imports announced to the interface
  made,       \* projects created by imports
  lost,       \* imports whose endpoint was deleted with its project
  tidy,       \* "yes" while imports never overlapped and nothing was deleted
  calm        \* imports nothing has happened beside since they began

import == <<at, result, wants, origin, chosen, base, other, told, warned>>
database == <<projects, baseUrl, variable, endpoints>>
vars == <<import, database, events, made, lost, tidy, calm>>

Init ==
  /\ at = [i \in Import |-> "idle"] /\ result = [i \in Import |-> "none"]
  /\ wants = [i \in Import |-> None] /\ chosen = [i \in Import |-> None]
  /\ origin \in [Import -> Origin]
  /\ base = [i \in Import |-> None] /\ other = [i \in Import |-> 0]
  /\ told = [i \in Import |-> None] /\ warned = {}
  /\ projects \in SUBSET Project
  /\ baseUrl = [p \in Project |-> None] /\ variable = [p \in Project |-> 0]
  /\ endpoints = {} /\ events = {} /\ made = {} /\ calm = {}
  /\ lost = {} /\ tidy = "yes"

Goto(i, from, to) == at[i] = from /\ at' = [at EXCEPT ![i] = to]
Ends(i, from, r) == Goto(i, from, "done") /\ result' = [result EXCEPT ![i] = r]

-----------------------------------------------------------------------------
(* An import *)

Begin(i) ==
  /\ Goto(i, "idle", "resolve")
  /\ \E p \in projects \cup {None} : wants' = [wants EXCEPT ![i] = p]
  /\ calm' = IF \A j \in Import : at[j] \in {"idle", "done"} THEN {i} ELSE {}
  /\ tidy' = IF calm' = {} THEN "no" ELSE tidy
  /\ UNCHANGED <<result, origin, chosen, base, other, told, warned, database,
                 events, made, lost>>

\* resolve_project: the one that is asked for, or the only one.  Several are
\* refused, and without any one is made.
Resolve(i) ==
  LET fits == IF wants[i] # None THEN projects \cap {wants[i]} ELSE projects IN
  /\ CASE Cardinality(fits) = 1 ->
            /\ Goto(i, "resolve", "base") /\ UNCHANGED result
            /\ \E p \in fits : /\ chosen' = [chosen EXCEPT ![i] = p]
                               /\ base' = [base EXCEPT ![i] = baseUrl[p]]
                               /\ other' = [other EXCEPT ![i] = variable[p]]
       [] fits = {} /\ wants[i] = None ->
            Goto(i, "resolve", "make") /\ UNCHANGED <<result, chosen, base, other>>
       [] OTHER ->
            Ends(i, "resolve", "refused") /\ UNCHANGED <<chosen, base, other>>
  /\ UNCHANGED <<wants, origin, told, warned, database, events, made, lost, tidy, calm>>

\* A new project, under a new id.
Make(i) ==
  /\ Goto(i, "make", "base")
  /\ \E p \in Project \ (projects \cup made) :
       /\ projects' = projects \cup {p} /\ made' = made \cup {p}
       /\ chosen' = [chosen EXCEPT ![i] = p]
       /\ baseUrl' = [baseUrl EXCEPT ![p] = None]
       /\ variable' = [variable EXCEPT ![p] = 0]
  /\ UNCHANGED <<result, wants, origin, base, other, told, warned, endpoints,
                 events, lost, tidy, calm>>

\* Slip: the origin of the URL always becomes base_url.
SetBaseAlways(i) ==
  /\ Goto(i, "base", "save")
  /\ told' = [told EXCEPT ![i] = origin[i]]
  /\ projects' = projects \cup {chosen[i]}
  /\ baseUrl' = [baseUrl EXCEPT ![chosen[i]] = origin[i]]
  /\ variable' = [variable EXCEPT ![chosen[i]] = other[i]]
  /\ UNCHANGED <<result, wants, origin, chosen, base, other, warned, endpoints,
                 events, made, lost, tidy, calm>>

\* ensure_base_url.  A project that had none gets the origin: all of it is written
\* as it was read, and inserted if it is gone.
SetBase(i) ==
  /\ Goto(i, "base", "save")
  /\ told' = [told EXCEPT ![i] = IF base[i] = None THEN origin[i] ELSE base[i]]
  /\ warned' = IF base[i] \in {None, origin[i]} THEN warned ELSE warned \cup {i}
  /\ IF base[i] # None THEN UNCHANGED database
     ELSE /\ projects' = projects \cup {chosen[i]}
          /\ baseUrl' = [baseUrl EXCEPT ![chosen[i]] = origin[i]]
          /\ variable' = [variable EXCEPT ![chosen[i]] = other[i]]
          /\ UNCHANGED endpoints
  /\ UNCHANGED <<result, wants, origin, chosen, base, other, events, made, lost, tidy, calm>>

\* save_endpoint: the foreign key refuses a project that is gone.
Save(i) ==
  /\ IF chosen[i] \in projects
     THEN /\ Goto(i, "save", "tell") /\ UNCHANGED result
          /\ endpoints' = endpoints \cup {i}
     ELSE Ends(i, "save", "error") /\ UNCHANGED endpoints
  /\ UNCHANGED <<wants, origin, chosen, base, other, told, warned, projects,
                 baseUrl, variable, events, made, lost, tidy, calm>>

\* The project's time is touched, the interface told and the client answered.
Tell(i) ==
  /\ Ends(i, "tell", "ok") /\ events' = events \cup {i}
  /\ UNCHANGED <<wants, origin, chosen, base, other, told, warned, database, made,
                 lost, tidy, calm>>

\* The client gives up, after 15 seconds or because it ends.
Abandon(i) ==
  /\ at[i] \notin {"idle", "done"} /\ Ends(i, at[i], "gone")
  /\ UNCHANGED <<wants, origin, chosen, base, other, told, warned, database,
                 events, made, lost, tidy, calm>>

-----------------------------------------------------------------------------
(* The user *)

\* update_project writes all variables as the interface has them, to a project
\* that is there.
Edit(p, o) ==
  /\ p \in projects /\ variable[p] < MaxEdits /\ calm' = {}
  /\ baseUrl' = [baseUrl EXCEPT ![p] = o]
  /\ variable' = [variable EXCEPT ![p] = @ + 1]
  /\ UNCHANGED <<import, projects, endpoints, lost, tidy, events, made>>

\* The endpoints of a project go with it.
Delete(p) ==
  /\ p \in projects /\ calm' = {} /\ tidy' = "no" /\ projects' = projects \ {p}
  /\ endpoints' = {i \in endpoints : chosen[i] # p}
  /\ lost' = lost \cup (endpoints \ endpoints')
  /\ UNCHANGED <<import, baseUrl, variable, events, made>>

Next ==
  \/ \E i \in Import : \/ Begin(i) \/ Resolve(i) \/ Make(i) \/ SetBase(i)
                       \/ Save(i) \/ Tell(i) \/ Abandon(i)
  \/ \E p \in Project : Delete(p) \/ \E o \in Origin \cup {None} : Edit(p, o)

Spec == Init /\ [][Next]_vars

-----------------------------------------------------------------------------
(* Properties *)

\* What a client is told is saved is what the interface is told, and it is in the
\* database until its project is deleted, whoever gives up when.
AnnouncedIsSaved ==
  /\ {i \in Import : result[i] = "ok"} = events
  /\ events \subseteq endpoints \cup lost

\* An import that nothing happens beside gives base_url a value only where there
\* was none, and changes no other variable.
SerialImportKeepsVariables ==
  [][\A i \in calm : at[i] = "base" /\ at'[i] = "save" =>
       /\ variable' = variable
       /\ \A p \in Project : baseUrl'[p] # baseUrl[p] => baseUrl[p] = None]_vars

\* The answer to such an import names the base_url of its project, and warns if
\* and only if the URL has another origin.
SerialAnswerIsTrue ==
  \A i \in calm : result[i] = "ok" =>
    told[i] = baseUrl[chosen[i]] /\ (i \in warned <=> told[i] # origin[i])

\* Imports that never overlap make one project between them, even if the first
\* one's client gives up half-way.
SerialMakesOneProject == tidy = "yes" => Cardinality(made) <= 1
=============================================================================
