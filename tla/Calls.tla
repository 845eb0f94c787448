-------------------------------- MODULE Calls --------------------------------
(***************************************************************************)
(* Calls of an endpoint: execute_request and grpc_invoke of                 *)
(* crates/fox-tauri with the engines they drive (crates/fox-http/client.rs, *)
(* crates/fox-grpc), the registry of cancel tokens they share               *)
(* (request_cancels), the table of open streams (grpc_streams) and the      *)
(* cache of descriptor pools.                                               *)
(*                                                                          *)
(* Actors: the commands of the calls, which overlap; a task per stream; the *)
(* user, who cancels calls and closes streams; and the servers.  A step is  *)
(* the code between two awaits or two accesses to what the actors share.    *)
(* The interface makes a new id for every call, so a call is its own id.    *)
(*                                                                          *)
(* Left out: what is sent and answered, and requests without an id.         *)
(***************************************************************************)
EXTENDS Naturals, FiniteSets

CONSTANTS
  Call,     \* calls that may overlap
  Server,   \* gRPC servers with reflection
  Files,    \* a selection of proto files of the project
  None,     \* no pool
  Cap,      \* body_cap
  MaxBody,  \* bound: bytes of a response
  MaxTold   \* bound: messages of a stream

ASSUME CallsAssumption == Cap \in Nat /\ MaxBody \in Nat /\ MaxTold \in Nat

Source == Server \cup {Files}
Kind == {"http", "digest", "unary", "stream"}
Grpc == {"unary", "stream"}

\* cache_key: the contents of proto files, one key for all reflected servers.
Key == {"files", "reflection"}
CacheKey(source) == IF source = Files THEN "files" ELSE "reflection"

VARIABLES
  kind, want, reload, \* what is called, where its pool comes from, force_reload
  at,        \* where each command is
  cancels,   \* request_cancels: calls whose token it holds
  token,     \* the token of each call: "live" or "cancelled"
  result,    \* of each command
  sends,     \* requests sent for a call
  came, got, \* bytes of the response that came, and that were kept
  truncated, \* "yes" if the body was cut
  pools,     \* POOL_CACHE: the source of the pool under each key, or None
  pool,      \* the source of the pool a call uses
  streams,   \* grpc_streams: calls whose stream is listed
  task,      \* the task of each stream
  told,      \* messages emitted by it
  ends,      \* terminal events emitted by it
  saving,    \* calls whose history row is about to be written
  rows       \* history rows of each call

args == <<kind, want, reload>>
body == <<sends, came, got, truncated>>
stream == <<streams, task, told, ends>>
history == <<saving, rows>>
vars == <<args, at, cancels, token, result, body, pools, pool, stream, history>>

Init ==
  /\ kind = [c \in Call |-> "http"] /\ want = [c \in Call |-> Files]
  /\ reload = [c \in Call |-> "no"]
  /\ at = [c \in Call |-> "idle"] /\ result = [c \in Call |-> "none"]
  /\ cancels = {} /\ token = [c \in Call |-> "live"]
  /\ sends = [c \in Call |-> 0] /\ truncated = [c \in Call |-> "no"]
  /\ came = [c \in Call |-> 0] /\ got = [c \in Call |-> 0]
  /\ pools = [k \in Key |-> None] /\ pool = [c \in Call |-> None]
  /\ streams = {} /\ task = [c \in Call |-> "none"]
  /\ told = [c \in Call |-> 0] /\ ends = [c \in Call |-> 0]
  /\ saving = {} /\ rows = [c \in Call |-> 0]

Goto(c, from, to) == at[c] = from /\ at' = [at EXCEPT ![c] = to]

\* The command has its result and is about to leave the registry.
Leaving(c, from, r) ==
  Goto(c, from, "leave") /\ result' = [result EXCEPT ![c] = r]

-----------------------------------------------------------------------------
(* The beginning of a command: variables, rendering and validation, and for *)
(* gRPC the pool of descriptors.  Nothing here can be cancelled.            *)

Begin(c) ==
  /\ Goto(c, "idle", "load")
  /\ \E k \in Kind, s \in Source, r \in {"yes", "no"} :
       /\ k \notin Grpc => s = Files /\ r = "no"
       /\ kind' = [kind EXCEPT ![c] = k]
       /\ want' = [want EXCEPT ![c] = s] /\ reload' = [reload EXCEPT ![c] = r]
  /\ UNCHANGED <<cancels, token, result, body, pools, pool, stream, history>>

\* The database fails, or the address or the method or the files are no good.
Refuse(c) ==
  /\ at[c] \in {"load", "fetch", "resolve"}
  /\ at' = [at EXCEPT ![c] = "done"] /\ result' = [result EXCEPT ![c] = "failed"]
  /\ UNCHANGED <<args, cancels, token, body, pools, pool, stream, history>>

\* Slip: a reload is served from the cache.
HitAlways(c) == pools[CacheKey(want[c])]

Hit(c) == IF reload[c] = "yes" THEN None ELSE pools[CacheKey(want[c])]

\* acquire_pool: a cached pool, unless a reload is forced.
Lookup(c) ==
  /\ kind[c] \in Grpc
  /\ Goto(c, "load", IF Hit(c) = None THEN "fetch" ELSE "resolve")
  /\ pool' = [pool EXCEPT ![c] = Hit(c)]
  /\ UNCHANGED <<args, cancels, token, result, body, pools, stream, history>>

\* The files are compiled, or the server's reflection (v1, else v1alpha) was
\* read; the last to finish is the one that is cached.
Fetch(c) ==
  /\ Goto(c, "fetch", "resolve")
  /\ pool' = [pool EXCEPT ![c] = want[c]]
  /\ pools' = [pools EXCEPT ![CacheKey(want[c])] = want[c]]
  /\ UNCHANGED <<args, cancels, token, result, body, stream, history>>

\* Slip: streams are not registered.
ResolveUnary(c) ==
  /\ Goto(c, "resolve", IF kind[c] = "unary" THEN "unary" ELSE "list")
  /\ cancels' = IF kind[c] = "unary" THEN cancels \cup {c} ELSE cancels
  /\ task' = [task EXCEPT ![c] = IF kind[c] = "stream" THEN "setup" ELSE "none"]
  /\ UNCHANGED <<args, token, result, body, pools, pool, streams, told, ends,
                 history>>

\* The method is known, and settings give the timeout.  The token is registered
\* and a unary call made; or a stream's task spawned, not yet listed.
Resolve(c) ==
  /\ Goto(c, "resolve", IF kind[c] = "unary" THEN "unary" ELSE "list")
  /\ cancels' = cancels \cup {c}
  /\ task' = [task EXCEPT ![c] = IF kind[c] = "stream" THEN "setup" ELSE "none"]
  /\ UNCHANGED <<args, token, result, body, pools, pool, streams, told, ends,
                 history>>

Register(c) ==
  /\ kind[c] \notin Grpc /\ Goto(c, "load", "auth")
  /\ cancels' = cancels \cup {c}
  /\ UNCHANGED <<args, token, result, body, pools, pool, stream, history>>

-----------------------------------------------------------------------------
(* send_request_inner *)

\* The payload is built and the authorization applied, which may refresh an
\* OAuth token.  The cancel token is not looked at here.
Authorize(c) ==
  /\ Goto(c, "auth", "send") /\ sends' = [sends EXCEPT ![c] = 1]
  /\ UNCHANGED <<args, cancels, token, result, came, got, truncated, pools, pool,
                 stream, history>>

AuthorizeFails(c) ==
  /\ Leaving(c, "auth", "failed")
  /\ UNCHANGED <<args, cancels, token, body, pools, pool, stream, history>>

Retry(c) == kind[c] = "digest" /\ sends[c] = 1

\* 401 with a challenge that can be answered: the payload is built again and
\* the request sent once more.
Challenged(c) ==
  /\ Retry(c) /\ Goto(c, "send", "send")
  /\ sends' = [sends EXCEPT ![c] = @ + 1]
  /\ UNCHANGED <<args, cancels, token, result, came, got, truncated, pools, pool,
                 stream, history>>

Answered(c) ==
  /\ Goto(c, "send", "body")
  /\ UNCHANGED <<args, cancels, token, result, body, pools, pool, stream, history>>

\* No connection, no answer in time, or no payload for the second request.
SendFails(c) ==
  /\ Leaving(c, "send", "failed")
  /\ UNCHANGED <<args, cancels, token, body, pools, pool, stream, history>>

\* Slip: a unary call looks at the token only after it has connected.
AbortSend(c) ==
  /\ token[c] = "cancelled" /\ Leaving(c, "send", "cancelled")
  /\ UNCHANGED <<args, cancels, token, body, pools, pool, stream, history>>

\* The token wins the race against the server.
Abort(c) ==
  /\ token[c] = "cancelled"
  /\ Leaving(c, "send", "cancelled") \/ Leaving(c, "unary", "cancelled")
  /\ UNCHANGED <<args, cancels, token, body, pools, pool, stream, history>>

TooMuch(n) == n > Cap

Chunk(c) ==
  /\ at[c] = "body" /\ token[c] = "live"
  /\ \E n \in 1 .. MaxBody - came[c] :
       /\ came' = [came EXCEPT ![c] = @ + n]
       /\ IF TooMuch(got[c] + n)
          THEN /\ got' = [got EXCEPT ![c] = Cap]
               /\ truncated' = [truncated EXCEPT ![c] = "yes"]
               /\ Leaving(c, "body", "ok")
          ELSE /\ got' = [got EXCEPT ![c] = @ + n]
               /\ UNCHANGED <<at, result, truncated>>
  /\ UNCHANGED <<args, cancels, token, sends, pools, pool, stream, history>>

\* The token is looked at when the next piece, or an error, has come.
ChunkCancelled(c) ==
  /\ token[c] = "cancelled" /\ Leaving(c, "body", "cancelled")
  /\ UNCHANGED <<args, cancels, token, body, pools, pool, stream, history>>

\* The connection breaks, or the time for the whole request is over.
BodyFails(c) ==
  /\ Leaving(c, "body", IF token[c] = "live" THEN "failed" ELSE "cancelled")
  /\ UNCHANGED <<args, cancels, token, body, pools, pool, stream, history>>

\* The end of the body is not a piece: the token is not looked at.
BodyEnds(c) ==
  /\ Leaving(c, "body", "ok")
  /\ UNCHANGED <<args, cancels, token, body, pools, pool, stream, history>>

-----------------------------------------------------------------------------
(* Unary calls, and the end of a command *)

\* The answer of a unary call, whatever its grpc-status.
UnaryAnswers(c) ==
  /\ \E r \in {"ok", "status"} : Leaving(c, "unary", r)
  /\ UNCHANGED <<args, cancels, token, body, pools, pool, stream, history>>

UnaryFails(c) ==
  /\ Leaving(c, "unary", "failed")
  /\ UNCHANGED <<args, cancels, token, body, pools, pool, stream, history>>

\* However the call ended, its token is removed; a task saves the history.
Leave(c) ==
  /\ Goto(c, "leave", "done")
  /\ cancels' = cancels \ {c}
  /\ saving' = IF result[c] = "ok" THEN saving \cup {c} ELSE saving
  /\ UNCHANGED <<args, token, result, body, pools, pool, stream, rows>>

\* A failed write is only logged.
SaveHistory(c) ==
  /\ c \in saving /\ saving' = saving \ {c}
  /\ \E n \in {0, 1} : rows' = [rows EXCEPT ![c] = @ + n]
  /\ UNCHANGED <<args, at, cancels, token, result, body, pools, pool, stream>>

-----------------------------------------------------------------------------
(* start_stream and spawn_server_stream *)

\* The command lists the stream and returns its id.
ListStream(c) ==
  /\ Goto(c, "list", "done") /\ result' = [result EXCEPT ![c] = "ok"]
  /\ streams' = streams \cup {c}
  /\ UNCHANGED <<args, cancels, token, body, pools, pool, task, told, ends,
                 history>>

TaskLive(c) == task[c] \in {"setup", "open", "aborting"}

StreamOpens(c) ==
  /\ task[c] = "setup" /\ task' = [task EXCEPT ![c] = "open"]
  /\ UNCHANGED <<args, at, cancels, token, result, body, pools, pool, streams,
                 told, ends, history>>

StreamTells(c) ==
  /\ task[c] \in {"open", "aborting"} /\ told[c] < MaxTold
  /\ told' = [told EXCEPT ![c] = @ + 1]
  /\ UNCHANGED <<args, at, cancels, token, result, body, pools, pool, streams,
                 task, ends, history>>

\* Slip: after a failure the task goes on to the next message.
StreamEndsAlive(c) ==
  /\ ends' = [ends EXCEPT ![c] = 1] /\ UNCHANGED task
  /\ streams' = streams \ {c} /\ cancels' = cancels \ {c}
  /\ UNCHANGED <<args, at, token, result, body, pools, pool, told, history>>

\* on_event with a terminal event, End or Failed.
StreamEnds(c) ==
  /\ task' = [task EXCEPT ![c] = "over"] /\ ends' = [ends EXCEPT ![c] = @ + 1]
  /\ streams' = streams \ {c} /\ cancels' = cancels \ {c}
  /\ UNCHANGED <<args, at, token, result, body, pools, pool, told, history>>

\* The server ends the stream, or something fails.
StreamOver(c) == TaskLive(c) /\ StreamEnds(c)

\* The cancelled token wins; also while the server is still connected to.
StreamCancelled(c) == TaskLive(c) /\ token[c] = "cancelled" /\ StreamEnds(c)

\* An abort drops the task at its next await, without a terminal event.
AbortTakes(c) ==
  /\ task[c] = "aborting" /\ task' = [task EXCEPT ![c] = "aborted"]
  /\ UNCHANGED <<args, at, cancels, token, result, body, pools, pool, streams,
                 told, ends, history>>

-----------------------------------------------------------------------------
(* The user *)

\* cancel_request; of a call without a token it only answers false.
Cancel(c) ==
  /\ c \in cancels /\ cancels' = cancels \ {c}
  /\ token' = [token EXCEPT ![c] = "cancelled"]
  /\ UNCHANGED <<args, at, result, body, pools, pool, stream, history>>

\* grpc_stream_close, by a user who knows the stream's id.
Close(c) ==
  /\ c \in streams /\ at[c] = "done" /\ streams' = streams \ {c}
  /\ token' = [token EXCEPT ![c] = "cancelled"]
  /\ task' = [task EXCEPT ![c] = IF TaskLive(c) THEN "aborting" ELSE @]
  /\ UNCHANGED <<args, at, cancels, result, body, pools, pool, told, ends,
                 history>>

-----------------------------------------------------------------------------

\* What the program does by itself.
Run(c) ==
  \/ Resolve(c) \/ Register(c) \/ Abort(c) \/ ChunkCancelled(c)
  \/ Leave(c) \/ SaveHistory(c) \/ ListStream(c)
  \/ StreamCancelled(c) \/ AbortTakes(c)

\* What servers, files and the database do.
Outside(c) ==
  \/ Refuse(c) \/ Lookup(c) \/ Fetch(c) \/ Authorize(c) \/ AuthorizeFails(c)
  \/ Challenged(c) \/ Answered(c) \/ SendFails(c)
  \/ Chunk(c) \/ BodyFails(c) \/ BodyEnds(c)
  \/ UnaryAnswers(c) \/ UnaryFails(c)
  \/ StreamOpens(c) \/ StreamTells(c) \/ StreamOver(c)

User(c) == Begin(c) \/ Cancel(c) \/ Close(c)

Next == \E c \in Call : Run(c) \/ Outside(c) \/ User(c)

Spec == Init /\ [][Next]_vars

\* The program's own steps, and the time limit of reqwest, which runs until the
\* body is read.  Servers owe nothing.
Fairness ==
  \A c \in Call :
    /\ WF_vars(Resolve(c) \/ Register(c)) /\ WF_vars(Abort(c))
    /\ WF_vars(Leave(c)) /\ WF_vars(ListStream(c))
    /\ WF_vars(StreamCancelled(c) \/ AbortTakes(c))
    /\ WF_vars(ChunkCancelled(c) \/ BodyFails(c))

-----------------------------------------------------------------------------
(* Properties *)

Places == {"idle", "load", "fetch", "resolve", "auth", "send", "body", "unary",
           "list", "leave", "done"}

TypeOK ==
  /\ kind \in [Call -> Kind] /\ want \in [Call -> Source]
  /\ reload \in [Call -> {"yes", "no"}]
  /\ at \in [Call -> Places]
  /\ cancels \subseteq Call /\ token \in [Call -> {"live", "cancelled"}]
  /\ result \in [Call -> {"none", "ok", "status", "failed", "cancelled"}]
  /\ sends \in [Call -> 0 .. 2] /\ truncated \in [Call -> {"yes", "no"}]
  /\ came \in [Call -> 0 .. MaxBody] /\ got \in [Call -> 0 .. Cap]
  /\ pools \in [Key -> Source \cup {None}] /\ pool \in [Call -> Source \cup {None}]
  /\ streams \subseteq Call
  /\ task \in [Call -> {"none", "setup", "open", "aborting", "aborted", "over"}]
  /\ told \in [Call -> 0 .. MaxTold] /\ ends \in [Call -> 0 .. 1]
  /\ saving \subseteq Call /\ rows \in [Call -> 0 .. 1]

\* Whatever waits for a server can be cancelled, or has been: its token is in
\* the registry until the call or the stream's task is over.
Cancellable ==
  \A c \in Call :
    at[c] \in {"auth", "send", "body", "unary"} \/ task[c] \in {"setup", "open"}
      => c \in cancels \/ token[c] = "cancelled"

\* The registry keeps no token of a call that is over, except of a stream that
\* was closed: its abort skips the terminal event that removes the token.
RegistryCleared ==
  \A c \in cancels : at[c] = "done" => TaskLive(c) \/ task[c] = "aborted"

\* A stream the user knows of is listed, and so can be closed, until it ends or
\* is being closed.
OpenStreamsListed ==
  \A c \in Call : at[c] = "done" /\ task[c] \in {"setup", "open"} =>
    c \in streams

\* The body is what came up to the cap, and is marked if and only if that is
\* not all; also when just the cap came.
BodyIsPrefix ==
  \A c \in Call :
    /\ got[c] = IF came[c] <= Cap THEN came[c] ELSE Cap
    /\ truncated[c] = "yes" <=> came[c] > Cap

\* A reload, or a call with proto files, uses a pool of its own source, whoever
\* fills the cache meanwhile.
ReloadedPoolIsOwn ==
  \A c \in Call :
    pool[c] # None /\ (reload[c] = "yes" \/ want[c] = Files) => pool[c] = want[c]

\* History has one row at most of a call, and only of one that was answered.
HistoryOfAnswered ==
  \A c \in Call : rows[c] = 1 \/ c \in saving =>
    rows[c] + (IF c \in saving THEN 1 ELSE 0) = 1 /\ result[c] = "ok"

\* An answer is what the server sent, by the server's own descriptions, and is in
\* the history once.
AnswersTrue == BodyIsPrefix /\ ReloadedPoolIsOwn /\ HistoryOfAnswered

\* A stream says nothing after its terminal event.
EndIsLast ==
  [][\A c \in Call : ends[c] = 1 \/ task[c] = "aborted" =>
       told'[c] = told[c] /\ ends'[c] = ends[c]]_vars

\* A cancelled call ends although its server never answers; only a body that
\* is being read may last until the time limit.
CancelEnds ==
  \A c \in Call :
    token[c] = "cancelled" /\ at[c] \in {"send", "unary", "body"} ~> at[c] = "done"

\* A cancelled or closed stream ends although its server never answers.
CloseEnds ==
  \A c \in Call : token[c] = "cancelled" /\ TaskLive(c) ~> ~TaskLive(c)
=============================================================================
