-------------------------------- MODULE Sandbox --------------------------------
(***************************************************************************)
(* The sandbox for scripts of users (fox-http/script_sandbox.rs), which the   *)
(* library offers and the application does not call yet.                     *)
(*                                                                          *)
(* Actors: callers of run, each with one script; and one thread that takes    *)
(* scripts from a queue and runs them, one after the other, in one engine.    *)
(* The engine outlives a script: so do its global object and its queue of     *)
(* jobs, in which functions that nobody awaits go on.  A script is a sequence *)
(* of operations; time passes in ticks, a second each, where one takes time.  *)
(***************************************************************************)
EXTENDS Naturals, Sequences, FiniteSets, SequencesExt

CONSTANTS
  Caller,   \* callers of run
  Script,   \* scripts, of operations of the set Operation
  Limit,    \* SCRIPT_TIMEOUT_MS
  Slack,    \* CALLER_SLACK_MS
  Drift,    \* turns that a promise takes in the queue of jobs
  Hops      \* turns between the end of a script and the end of its promise

\* set: an environment variable; header: upsert; global, hidden: a property of the
\* global object, that can be enumerated or not; look: at that object; test, bad test;
\* later, bad later: a test that is a promise; float: a function that nobody awaits and
\* that sets a variable when it comes to its end.
Operation == {"set", "header", "global", "hidden", "look", "test", "bad test", "later",
              "bad later", "float", "await", "busy", "spin", "throw"}

Nobody == "nobody"

VARIABLES
  script,   \* what each caller wants to run
  call,     \* of each caller: where it is, since when, and its answer
  queue,    \* the channel of jobs
  task,     \* the script that runs, with its ScriptState
  turns,    \* the engine's queue of jobs
  world,    \* properties of the global object
  clock

vars == <<script, call, queue, task, turns, world, clock>>

Idle == [of |-> Nobody]
NoAnswer == [kind |-> "none"]

Init ==
  /\ script \in [Caller -> Script]
  /\ call = [c \in Caller |-> [at |-> "before", since |-> 0, answer |-> NoAnswer]]
  /\ queue = << >> /\ task = Idle /\ turns = << >> /\ world = {} /\ clock = 0

---------------------------------------------------------------------------
(* Callers. *)

\* run: the job is in the queue before the caller begins to wait.
Run(c) ==
  /\ call[c].at = "before"
  /\ call' = [call EXCEPT ![c].at = "waits", ![c].since = clock]
  /\ queue' = Append(queue, c)
  /\ UNCHANGED <<script, task, turns, world, clock>>

Expired(c) == call[c].at = "waits" /\ clock >= call[c].since + Limit + Slack

\* The time limit of run: the job stays in the queue, or goes on.
GiveUp(c) ==
  /\ Expired(c)
  /\ call' = [call EXCEPT ![c].at = "back", ![c].answer = [kind |-> "late"]]
  /\ UNCHANGED <<script, queue, task, turns, world, clock>>

---------------------------------------------------------------------------
(* The thread. *)

\* Slip: the time limit of the first script is kept.
TakeOnce ==
  /\ task = Idle /\ queue # << >>
  /\ LET c == Head(queue)
     IN task' = [of |-> c, ops |-> script[c], deadline |-> Limit, phase |-> "body",
                 env |-> Nobody, free |-> {}, header |-> Nobody, seen |-> {},
                 tests |-> << >>, open |-> 0, failed |-> FALSE]
  /\ queue' = Tail(queue) /\ world' = world \ {"global"}
  /\ UNCHANGED <<script, call, turns, clock>>

\* run_script: a new time limit, the global object without what can be enumerated,
\* new bindings; not a new queue of jobs.
Take ==
  /\ task = Idle /\ queue # << >>
  /\ LET c == Head(queue)
     IN task' = [of |-> c, ops |-> script[c], deadline |-> clock + Limit, phase |-> "body",
                 env |-> Nobody, free |-> {}, header |-> Nobody, seen |-> {},
                 tests |-> << >>, open |-> 0, failed |-> FALSE]
  /\ queue' = Tail(queue) /\ world' = world \ {"global"}
  /\ UNCHANGED <<script, call, turns, clock>>

Turn(kind, of, left) == [kind |-> kind, of |-> of, left |-> left]

\* What an operation does to the state of the script.
After(op, t) ==
  CASE op = "set" -> [t EXCEPT !.env = t.of]
    [] op = "header" -> [t EXCEPT !.header = t.of]
    [] op = "look" -> [t EXCEPT !.seen = world]
    [] op \in {"test", "bad test"} -> [t EXCEPT !.tests = Append(@, <<t.of, op>>)]
    [] op \in {"later", "bad later"} -> [t EXCEPT !.open = @ + 1]
    [] op = "await" -> [t EXCEPT !.phase = "turns"]
    [] op = "throw" -> [t EXCEPT !.failed = TRUE, !.phase = "turns"]
    [] OTHER -> t

\* What it puts into the queue of jobs.
Starts(op, of) ==
  CASE op \in {"later", "bad later", "float"} -> <<Turn(op, of, Drift)>>
    [] op = "await" -> <<Turn("resume", of, 0)>>
    [] op = "throw" -> <<Turn("end", of, Hops)>>
    [] OTHER -> << >>

\* One operation of the script.
Operate ==
  /\ task # Idle /\ task.phase = "body" /\ task.ops # << >>
  /\ LET op == Head(task.ops)
     IN /\ op \notin {"busy", "spin"}
        /\ task' = After(op, [task EXCEPT !.ops = Tail(@)])
        /\ turns' = turns \o Starts(op, task.of)
        /\ world' = IF op \in {"global", "hidden"} THEN world \cup {op} ELSE world
  /\ UNCHANGED <<script, call, queue, clock>>

\* The end of the user's code: Promise.all of the tests that are open.
Close ==
  /\ task # Idle /\ task.phase = "body" /\ task.ops = << >>
  /\ task' = [task EXCEPT !.phase = "turns"]
  /\ turns' = IF task.open = 0 THEN Append(turns, Turn("end", task.of, Hops)) ELSE turns
  /\ UNCHANGED <<script, call, queue, world, clock>>

\* finish of drive_promise: the next job, whoever left it, with the bindings of the
\* script that runs.  The last test that is settled, or the first that fails, settles
\* them all, if the script has come to wait for them.
Drive ==
  /\ task # Idle /\ task.phase = "turns" /\ turns # << >>
  /\ LET t == Head(turns)
         own == t.of = task.of
         waited == own /\ task.ops = << >> /\ ~task.failed
                   /\ \A u \in ToSet(Tail(turns)) : u.kind \notin {"end", "resume"} \/ u.of # task.of
     IN /\ t.left = 0 => t.kind # "end"
        /\ IF t.left > 0
           THEN turns' = Append(Tail(turns), [t EXCEPT !.left = @ - 1]) /\ UNCHANGED task
           ELSE CASE t.kind = "resume" ->
                       turns' = Tail(turns) /\ task' = [task EXCEPT !.phase = "body"]
                  [] t.kind = "float" ->
                       turns' = Tail(turns) /\ task' = [task EXCEPT !.free = @ \cup {t.of}]
                  [] t.kind \in {"later", "bad later"} ->
                       /\ task' = [task EXCEPT !.tests = Append(@, <<t.of, t.kind>>),
                                               !.open = IF own THEN @ - 1 ELSE @,
                                               !.failed = @ \/ (waited /\ t.kind = "bad later")]
                       /\ turns' = IF waited /\ (t.kind = "bad later" \/ task.open = 1)
                                   THEN Append(Tail(turns), Turn("end", t.of, Hops))
                                   ELSE Tail(turns)
  /\ UNCHANGED <<script, call, queue, world, clock>>

\* The answer goes to a caller that still waits; what the script has not awaited stays.
Answer(result) ==
  /\ call' = IF call[task.of].at = "waits"
             THEN [call EXCEPT ![task.of].at = "back", ![task.of].answer = result] ELSE call
  /\ turns' = SelectSeq(turns, LAMBDA t : t.kind \notin {"resume", "end"})
  /\ task' = Idle
  /\ UNCHANGED <<script, queue, world, clock>>

\* The promise is settled: an error, or what the script has made.
Finish ==
  /\ task # Idle /\ task.phase = "turns" /\ turns # << >>
  /\ Head(turns).kind = "end" /\ Head(turns).left = 0
  /\ Answer(IF task.failed THEN [kind |-> "failed"]
            ELSE [kind |-> "done", env |-> task.env, free |-> task.free, header |-> task.header,
                  seen |-> task.seen, tests |-> task.tests])

\* The interrupt handler, or the check between two rounds of jobs.
Interrupt == task # Idle /\ clock >= task.deadline /\ Answer([kind |-> "late"])

\* Time passes where a script lets it, and nobody is past its limit.
Tick ==
  /\ task # Idle /\ task.phase = "body" /\ task.ops # << >> /\ Head(task.ops) \in {"busy", "spin"}
  /\ clock < task.deadline /\ \A c \in Caller : ~Expired(c)
  /\ clock' = clock + 1
  /\ task' = IF Head(task.ops) = "busy" THEN [task EXCEPT !.ops = Tail(@)] ELSE task
  /\ UNCHANGED <<script, call, queue, turns, world>>

Thread == Take \/ Operate \/ Close \/ Drive \/ Finish \/ Interrupt \/ Tick

Next == Thread \/ \E c \in Caller : Run(c) \/ GiveUp(c)

Spec == Init /\ [][Next]_vars

---------------------------------------------------------------------------

Ops(c) == ToSet(script[c])
Count(c, op) == Cardinality({i \in DOMAIN script[c] : script[c][i] = op})
Fails(c) == {"throw", "bad later"} \intersect Ops(c) # {}
Slow(c) == "spin" \in Ops(c) \/ Count(c, "busy") >= Limit
Of(c, tests) == SelectSeq(tests, LAMBDA t : t[1] = c)
Names(tests) == [i \in DOMAIN tests |-> tests[i][2]]
Written(c) == SelectSeq(script[c], LAMBDA op : op \in {"test", "bad test"})

\* It ends before its tests are settled.
Leaves(c) == {"later", "bad later"} \intersect Ops(c) # {} /\ (Fails(c) \/ Slow(c))

TypeOK ==
  /\ script \in [Caller -> Script] /\ UNION {ToSet(s) : s \in Script} \subseteq Operation
  /\ \A c \in Caller :
       /\ call[c].at \in {"before", "waits", "back"} /\ call[c].since <= clock
       /\ call[c].answer.kind \in {"none", "failed", "late", "done"}
  /\ task.of \in Caller \cup {Nobody}
  /\ ToSet(queue) \subseteq Caller /\ world \subseteq {"global", "hidden"}

\* A script that is done has set its own variable and its own header, and has seen what
\* it has made global or what others have hidden.
OwnState(c, answer) ==
  /\ answer.env = IF "set" \in Ops(c) THEN c ELSE Nobody
  /\ answer.header = IF "header" \in Ops(c) THEN c ELSE Nobody
  /\ "global" \in answer.seen => "global" \in Ops(c)
  /\ answer.free \subseteq {x \in Caller : "float" \in Ops(x)}

\* It has all of its tests, those that are no promise in order, and of others only
\* those that they left.
OwnTests(c, answer) ==
  LET own == Names(Of(c, answer.tests))
  IN /\ SelectSeq(own, LAMBDA op : op \in {"test", "bad test"}) = Written(c)
     /\ Len(own) = Len(Written(c)) + Count(c, "later")
     /\ \A t \in ToSet(answer.tests) : t[1] = c \/ Leaves(t[1])

\* A caller hears what its script has done: no other script's state, but for what that
\* left in the queue of jobs; that it failed if it did; that it was late only if it
\* needs the time, or the scripts before it did.  Nobody waits longer than the limit.
\* (run, run_script, reset_globals, execute, drive_promise)
ScriptsApart ==
  /\ TypeOK
  /\ \A c \in Caller :
       LET answer == call[c].answer
       IN /\ answer.kind = "done" => ~Fails(c) /\ OwnState(c, answer) /\ OwnTests(c, answer)
          /\ answer.kind = "failed" => Fails(c)
          /\ answer.kind = "late" => Slow(c) \/ \E x \in Caller \ {c} : {"busy", "spin"} \intersect Ops(x) # {}
          /\ call[c].at = "waits" => clock <= call[c].since + Limit + Slack
=============================================================================
