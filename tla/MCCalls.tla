------------------------------- MODULE MCCalls -------------------------------
(***************************************************************************)
(* For TLC: Calls with two calls, Sessions with a WebSocket and an SSE      *)
(* session, or the requests that are built from some endpoints.  They share *)
(* nothing, so a behaviour is one of one of them.                           *)
(***************************************************************************)
EXTENDS Connections

CONSTANTS c1, c2, s1, s2, ws, sse

TwoCalls == {c1, c2}
TwoServers == {s1, s2}

TwoSessions == {ws, sse}
OneWs == {ws}

VARIABLES part, request

---------------------------------------------------------------------------

Variables == {"{{a}}", "{{b}}", "{{c}}", "{{$uuid}}", "{{$timestamp}}", "{{$key}}",
              "{{$secret}}", "{{base_url}}"}
BuiltIn == [v \in {"{{$uuid}}", "{{$timestamp}}"} |->
              IF v = "{{$uuid}}" THEN "uuid" ELSE "seconds"]
LowerCase == [w \in {"X", "Y", "Content-Type"} |-> CASE w = "X" -> "x"
                                                     [] w = "Y" -> "y"
                                                     [] w = "Content-Type" -> "content-type"]

Row(key, value, enabled) == [key |-> key, value |-> value, enabled |-> enabled]
Global(key, local, remote) == [key |-> key, local |-> local, remote |-> remote, enabled |-> TRUE]
Param(key, value, location) ==
  [key |-> key, value |-> value, enabled |-> TRUE, location |-> location]

\* Variables: a chain of three levels, one of four, a circle, and one that is not
\* defined; the same name in several tables, and a built-in one that is defined.
Nothing == << >>
Tables ==
  {[global |-> Nothing, project |-> Nothing, environment |-> [base |-> Nothing, variables |-> Nothing]],
   [global |-> <<Global("{{a}}", Nothing, <<"{{b}}">>), Global("{{b}}", <<"{{c}}", "1">>, <<"2">>),
                 Global("{{c}}", Nothing, <<"x">>)>>,
    project |-> [v \in {"{{$uuid}}"} |-> <<"y">>],
    environment |-> [base |-> <<"1">>, variables |-> Nothing]],
   [global |-> <<Global("{{a}}", Nothing, <<"1">>)>>,
    project |-> [v \in {"{{a}}", "{{b}}"} |-> IF v = "{{a}}" THEN <<"{{b}}">> ELSE <<"{{c}}">>],
    environment |-> [base |-> <<"1">>,
                     variables |-> <<Global("{{c}}", <<"{{base_url}}">>, Nothing),
                                     Global("{{base_url}}", Nothing, <<"{{$uuid}}">>),
                                     Global("{{a}}", Nothing, Nothing)>>]],
   [global |-> <<Global("{{a}}", Nothing, <<"{{b}}">>), Global("{{b}}", Nothing, <<"{{a}}">>)>>,
    project |-> Nothing,
    environment |-> [base |-> Nothing, variables |-> <<Global("{{c}}", <<"2">>, <<"{{a}}">>)>>]]}

Auth(way, key, value, template) ==
  [kind |-> way, key |-> key, value |-> value, template |-> template]
Auths ==
  {Auth(k, <<"k">>, <<"{{a}}">>, Nothing) :
     k \in {"none", "bearer", "basic", "oauth2", "header", "query", "digest", "hawk",
            "aws", "hmac"}}
  \cup {Auth("header", <<"Content-Type">>, <<"1">>, Nothing), Auth("query", Nothing, <<"1">>, Nothing)}
  \cup {Auth("dynamic", key, <<"s">>, <<"{{$key}}", "{{$secret}}", "{{$timestamp}}">>) :
          key \in {Nothing, <<"k">>}}

Bodies ==
  {[mode |-> m, rows |-> <<Row(<<"x">>, <<"{{a}}">>, TRUE), Row(Nothing, <<"{{$uuid}}">>, TRUE)>>] :
     m \in {"none", "json", "text", "form", "multipart", "graphql", "binary"}}

Headers ==
  {Nothing, <<Row(<<"content-type">>, <<"{{b}}">>, TRUE), Row(<<"X">>, <<"1">>, FALSE)>>,
   <<Row(<<"Content-Type">>, <<"1">>, TRUE), Row(<<"content-type">>, <<"2">>, TRUE)>>,
   <<Row(<<"{{c}}">>, <<"{{a}}">>, TRUE)>>}

Queries == {Nothing, <<Row(<<"X">>, <<"{{c}}">>, TRUE), Row(<<"y">>, <<"1">>, FALSE)>>}

GlobalParams ==
  {Nothing, <<Param(<<"x">>, <<"{{a}}">>, "query"), Param(<<"y">>, <<"1">>, "query"),
            Param(<<"Y">>, <<"2">>, "header")>>,
   <<Param(<<"y">>, <<"1">>, "query"), Param(<<"y">>, <<"2">>, "query"),
     Param(<<"content-type">>, <<"{{b}}">>, "header"), Param(<<"x">>, <<"2">>, "header")>>}

Requested(tables, params, queries, headers, auths, bodies) ==
  {[global |-> t.global, project |-> t.project, environment |-> t.environment,
    params |-> g, endpoint |-> [params |-> q, headers |-> h, auth |-> a, body |-> b]] :
     t \in tables, g \in params, q \in queries, h \in headers, a \in auths, b \in bodies}

\* Every table and row, and every body with every authorization.
SomeRequests ==
  Requested(Tables, GlobalParams, Queries, Headers, {a \in Auths : a.kind = "query"},
            {b \in Bodies : b.mode = "form"})
  \cup Requested({t \in Tables : t.project # Nothing}, {g \in GlobalParams : Len(g) = 4},
                 Queries, {h \in Headers : Len(h) = 1} \cup {Nothing}, Auths, Bodies)

R == INSTANCE Requests WITH
  Ref <- Variables, Dynamic <- BuiltIn, Lower <- LowerCase, BaseUrl <- "{{base_url}}",
  Depth <- 3, Cases <- SomeRequests

---------------------------------------------------------------------------

Special == {"quote", "double quote", "backslash", "line", "dollar", "backtick"}
Word(text) == <<Row(Nothing, text, TRUE)>>
Fields == <<Row(<<"x">>, <<"quote">>, TRUE), Row(<<"y">>, <<"1", "dollar">>, TRUE),
            Row(<<"x">>, <<"2">>, TRUE), Row(<<"c">>, <<"3">>, FALSE)>>
JsonText == <<"{", "double quote", " ", "quote", "backslash", "}">>

\* Any special sign in the address, in a header and in a text, one at a time, and every
\* body with every authorization and header.
Snippet(methods, urls, headers, auths, bodies) ==
  {[method |-> m, url |-> u,
    spec |-> [params |-> Nothing, headers |-> h, auth |-> a, body |-> b]] :
     m \in methods, u \in urls, h \in headers, a \in auths, b \in bodies}
Body(way, fields) == [mode |-> way, rows |-> fields]
CodeCase == [w \in DOMAIN LowerCase \cup {"Authorization"} |->
               IF w = "Authorization" THEN "authorization" ELSE LowerCase[w]]
Copied ==
  Snippet({"GET", "PUT"}, {<<"host">>},
          Headers \cup {<<Row(<<"Authorization">>, <<"1">>, TRUE)>>, <<Row(<<"authorization">>, <<"1">>, TRUE)>>},
          Auths \ {Auth("digest", <<"k">>, <<"{{a}}">>, Nothing)},
          {Body("none", Nothing), Body("json", Word(JsonText)), Body("json", Word(<<"oops">>)),
           Body("json", Word(Nothing)), Body("text", Word(JsonText)), Body("text", Word(<<"1">>))}
          \cup {Body(m, Fields) : m \in {"form", "multipart", "graphql"}})
  \cup Snippet({"POST"}, {<<"host">> \o u : u \in {Nothing} \cup {<<t>> : t \in Special}},
               {Nothing} \cup {<<Row(<<"X">>, <<t>>, TRUE)>> : t \in Special}, {Auth("none", Nothing, Nothing, Nothing)},
               {Body(m, Word(<<"{", t, "}">>)) : m \in {"json", "text"}, t \in Special}
               \cup {Body("multipart", <<Row(<<"x">>, <<t>>, TRUE)>>) : t \in Special})

\* Up to three options, and one or two addresses.
Options ==
  {<<<<"-X">>, <<"PUT">>>>, <<<<"--request", "=", "GET">>>>, <<<<"-X">>, <<"1">>>>,
   <<<<"-H">>, <<"X", ":", "1", ":">>>>, <<<<"--header", "=", ":", "1">>>>, <<<<"-d">>, <<"--">>>>,
   <<<<"--data", "=", "{", "}">>>>, <<<<"-b">>, <<"X">>>>, <<<<"--retry", "=", "3">>>>,
   <<<<"--retry">>, <<"3">>>>, <<<<"-k">>>>, <<<<"-u">>, <<"k", ":", "s">>>>, <<<<"--digest">>>>,
   <<<<"--">>>>, <<<<"--url">>, <<"host">>>>, <<<<"/r">>>>}
Pasted == {[options |-> <<o, p, q>>] : o \in Options, p \in Options, q \in {p \in Options : p[1][1] \in {"--", "--url", "/r", "-b"}}}

N == INSTANCE Snippets WITH
  Ref <- Variables, Dynamic <- BuiltIn, Lower <- CodeCase, BaseUrl <- "{{base_url}}",
  Depth <- 1, Cases <- Copied \cup Pasted, Mark <- Special

\* Objects of objects, with keys that are written alike or not, and arrays of up to
\* three elements.
Leaf == {[kind |-> k] : k \in {"null", "int", "float", "str"}}
Keys == {<<"plain", "Data">>, <<"capital", "Data">>, <<"plain", "Info">>}
Object(fields) == [kind |-> "object", fields |-> fields]
Field(k, v) == [key |-> k, value |-> v]
Twigs ==
  Leaf \cup {Object(<<Field(k, [kind |-> t])>>) : k \in Keys, t \in {"int", "str"}}
Branches ==
  {Object(<<Field(k, v), Field(l, w)>>) :
     k \in {<<"plain", "Data">>}, l \in Keys \ {<<"plain", "Data">>}, v \in Twigs, w \in Twigs}
\* Keys of any style, of one word or two, with words that a language keeps, or without.
Styled ==
  {<<"plain">>, <<"plain", "2x">>}
  \cup {<<s, w>> : s \in {"plain", "capital"}, w \in {"Data", "Type", "Class"}}
  \cup {<<s, "User", w>> : s \in {"plain", "camel", "capital"}, w \in {"Name", "2x"}}
  \cup {<<"camel", "N", "2x">>}
Arrays ==
  LET few == [kind : {"null", "int", "float", "str"}]
             \cup {Object(<<Field(<<"plain", "Data">>, [kind |-> t])>>) : t \in {"int", "str"}}
      some == UNION {[1 .. n -> few] : n \in 0 .. 3}
  IN {[kind |-> "array", items |-> s] : s \in some}
Trees ==
  {Object(<<Field(<<"plain", "Data">>, v), Field(<<"plain", "Info">>, w)>>) :
     v \in Branches, w \in Twigs \cup {b \in Branches : b.fields[1].value.kind = "int"}}
  \cup Arrays \cup {Object(<<Field(<<"plain", "Data">>, a)>>) : a \in Arrays}
  \cup {Object(<<Field(f[1], [kind |-> "int"]), Field(f[2], [kind |-> "str"])>>) :
           f \in {f \in Styled \X Styled : f[1] # f[2]}}

T == INSTANCE Types WITH Samples <- Trees, sample <- request

---------------------------------------------------------------------------

\* One of the parts moves, the others stay in their initial states.
MCInit ==
  /\ Init /\ S!Init
  /\ \/ part \in {"calls", "sessions"} /\ request = << >>
     \/ part = "wire" /\ R!Init
     \/ part = "snippet" /\ N!Init
     \/ part = "types" /\ T!Init

MCNext ==
  \/ part = "calls" /\ Next /\ UNCHANGED <<part, sessions, request>>
  \/ part = "sessions" /\ S!Next /\ UNCHANGED <<part, vars, request>>

MCSpec ==
  MCInit /\ [][MCNext]_<<part, vars, sessions, request>> /\ Fairness /\ S!Fairness

\* What is sent is what the user wrote: variables to the end, own keys first, a
\* body with its type, and the same again from the history.
SentAsWritten == part = "wire" => R!SentAsWritten

\* The time that a signature covers is the time that is sent beside it.
SignedTimeIsSent == part = "wire" => R!SignedTimeIsSent

\* Code that is made of a request sends it, and as a command it can be read again.
SnippetsTrue == part = "snippet" => N!SnippetsTrue

\* Types that are made of a sample hold it, under names of their own.
TypesFit == part = "types" => T!TypesFit

\* What was cancelled or closed ends, and a session's last event is heard.
AllEnd == CancelEnds /\ CloseEnds /\ S!LastEventHeard
=============================================================================
