------------------------------ MODULE MCTestRuns ------------------------------
(***************************************************************************)
(* For TLC: what runs until it ends by itself, a load test with two workers, *)
(* a collection of three cases with one or two, or scripts of three callers; *)
(* and what checks say of an answer.  They share nothing, so a behaviour is   *)
(* one of one of them.                                                      *)
(***************************************************************************)
EXTENDS TestRuns, TLC

CONSTANTS w1, w2

TwoWorkers == {w1, w2}

VARIABLE part

\* One script after the other, of three callers.
CONSTANTS c1, c2, c3
Scripts ==
  {<<"set", "header", "test">>, <<"global", "hidden", "float", "test">>,
   <<"look", "later", "await", "set">>, <<"later", "throw">>, <<"bad later", "later", "set">>,
   <<"bad test", "busy", "set", "float">>, <<"spin">>, <<"later", "look", "await", "spin">>}

VARIABLES script, call, line, task, turns, world, clock
engine == <<script, call, line, task, turns, world, clock>>

X == INSTANCE Sandbox WITH
  Caller <- {c1, c2, c3}, Script <- Scripts, queue <- line, Limit <- 2, Slack <- 1, Drift <- 2, Hops <- 1

InTurn ==
  /\ call[c2].at # "before" => call[c1].at # "before"
  /\ call[c3].at # "before" => call[c2].at # "before"

\* Answers with a header once, twice or not at all, and bodies of every kind.
VARIABLES reply, asked

Numbers == (<<"7">> :> 7) @@ (<<"7", ".", "0">> :> 7) @@ (<<"2">> :> 2) @@ (<<"3">> :> 3)
Json(kind, text, size) == [kind |-> kind, text |-> text, size |-> size]
Values ==
  {Json("string", <<"a", "b">>, 2), Json("string", <<"7">>, 1), Json("string", << >>, 0),
   Json("number", <<"7">>, 0), Json("bool", <<"true">>, 0), Json("null", <<"null">>, 0),
   Json("array", <<"[", "a", "]">>, 1), Json("object", <<"{", "}">>, 0)}
Bodies ==
  {("$" :> v) @@ ("$.a" :> w) @@ ("errors" :> w) : v \in Values, w \in Values}
  \cup {("$" :> v) @@ ("$.b" :> v) : v \in Values}
Answered ==
  {[status |-> <<"7">>, duration |-> <<"7", ".", "0">>, headers |-> h, body |-> <<"a", "b">>,
    json |-> b # << >>, at |-> b] :
     h \in {<< >>, <<[name |-> "h", value |-> <<"a">>]>>,
            <<[name |-> "h", value |-> <<"a">>], [name |-> "h", value |-> <<"7">>]>>},
     b \in Bodies \cup {<< >>}}
Specs ==
  {<< >>} \cup ({[name |-> n, from |-> f[1], path |-> f[2]] :
                  n \in {"x"}, f \in {<<"header", "h">>, <<"body", "$.a">>, <<"body", "$">>}}
               \X {[name |-> n, from |-> f[1], path |-> f[2]] :
                  n \in {"x", "y"}, f \in {<<"header", "h">>, <<"body", "$.b">>}})

K == INSTANCE Checks WITH
  Answers <- Answered, Asked <- Specs, answer <- reply, Number <- Numbers,
  Expected <- {<<"7">>, <<"7", ".", "0">>, <<"a">>, << >>, <<"(">>, <<".", "b">>}

\* Every kind of case occurs in one of the collections.
Plans ==
  {<<"both", "both", "asserts">>, <<"sets", "broken", "adds">>, <<"none", "sets", "both">>}

MCInit ==
  /\ part \in {"load", "cases", "scripts", "checks"}
  /\ Init /\ C!Init /\ w1 \in crew /\ plan \in Plans
  /\ part # "cases" => crew = {w1} /\ plan[1] = "none"
  /\ IF part = "scripts" THEN X!Init ELSE /\ script = 0 /\ call = 0 /\ line = 0 /\ task = 0 /\ turns = 0 /\ world = 0 /\ clock = 0
  /\ IF part = "checks" THEN K!Init ELSE reply = << >> /\ asked = << >>

others == <<engine, reply, asked>>

MCNext ==
  \/ part = "load" /\ Next /\ UNCHANGED <<part, cases, others>>
  \/ part = "cases" /\ C!Next /\ UNCHANGED <<part, vars, others>>
  \/ part = "scripts" /\ X!Next /\ InTurn' /\ UNCHANGED <<part, vars, cases, reply, asked>>

\* The fairness of each part, where it is the one that runs; all scripts are run.
MCFairness ==
  /\ WF_vars(part = "load" /\ Command) /\ WF_vars(part = "load" /\ CancelToken)
  /\ \A w \in Worker : WF_vars(part = "load" /\ Work(w))
  /\ \A w \in Worker : WF_cases(part = "cases" /\ C!Step(w))
  /\ WF_cases(part = "cases" /\ C!Receive) /\ WF_cases(part = "cases" /\ C!Return)
  /\ WF_engine(part = "scripts" /\ X!Next)

MCSpec == MCInit /\ [][MCNext]_<<part, vars, cases, others>> /\ MCFairness

\* A script knows nothing of another one.
ScriptsApart == part = "scripts" => X!ScriptsApart

\* Checks and extraction agree with each other.
ChecksAgree == part = "checks" => K!ChecksAgree

\* Load tests, collections and scripts come to an end.
AllEnd ==
  <>CASE part = "load" -> phase = "returned"
      [] part = "cases" -> command = "returned"
      [] part = "scripts" -> \A c \in {c1, c2, c3} : call[c].at = "back"
      [] part = "checks" -> TRUE
=============================================================================
