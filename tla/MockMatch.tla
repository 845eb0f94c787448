------------------------------- MODULE MockMatch -------------------------------
(***************************************************************************)
(* How the mock server finds the definition that answers a request          *)
(* (fox-mock/src/server.rs): set_definitions compiles and indexes them,      *)
(* match_request looks only at the candidates of the request's method and   *)
(* number of segments, and the reply's template is filled in with what the  *)
(* request carries.  Beside it, resolve: the same choice without an index.  *)
(***************************************************************************)
EXTENDS Integers, SequencesExt

CONSTANTS
  Upper,        \* to_ascii_uppercase: a function from methods, however written
  Placeholder,  \* the words of a path template that have the form {name}
  NoWord,       \* the empty word: what a doubled or last slash makes
  Rules,        \* the active project's mock rules
  Endpoints,    \* and its endpoints, each with its example or << >>
  MaxDefinitions,
  Requests      \* the requests that arrive

VARIABLES
  routes,       \* the compiled definitions, in order
  index         \* <<method, number of segments>> -> positions in routes

---------------------------------------------------------------------------

Segments(path) == SelectSeq(path, LAMBDA w : w # NoWord)

\* A query is a sequence of pairs; of pairs with one key the first counts.
ParseQuery(query) ==
  [k \in {query[i].key : i \in DOMAIN query} |->
     query[CHOOSE i \in DOMAIN query :
             query[i].key = k /\ \A j \in 1 .. i - 1 : query[j].key # k].value]

\* A condition names a key and a value, or no value when any will do.
Holds(items, values) ==
  \A item \in items :
    item.key \in DOMAIN values /\ item.value \in {NoWord, values[item.key]}

Fits(template, path) ==
  /\ Len(template) = Len(path)
  /\ \A i \in DOMAIN path : template[i] \in Placeholder \/ template[i] = path[i]

\* Of placeholders with one name the last one's segment is kept.
Captured(template, path) ==
  [p \in Placeholder \intersect ToSet(template) |->
     path[CHOOSE i \in DOMAIN template :
            template[i] = p /\ \A j \in i + 1 .. Len(template) : template[j] # p]]

Rank(source) == CASE source = "rule" -> 2 [] source = "example" -> 1 [] source = "default" -> 0

Picks(a, b) ==
  IF a.source # b.source THEN Rank(a.source) > Rank(b.source) ELSE a.priority > b.priority

---------------------------------------------------------------------------

Init == routes = << >> /\ index = << >>

\* from_rule: a rule's definition has all the rule has.
FromRule(rule) ==
  [method |-> rule.method, path |-> rule.path, source |-> "rule", query |-> rule.query,
   headers |-> rule.headers, priority |-> rule.priority, body |-> rule.body]

\* from_endpoint: an endpoint answers any query and headers with its example, or
\* without one with a fixed body.
FromEndpoint(endpoint) ==
  [method |-> endpoint.method, path |-> endpoint.path, query |-> {}, headers |-> {},
   source |-> IF endpoint.example = << >> THEN "default" ELSE "example",
   priority |-> IF endpoint.example = << >> THEN 0 - 10 ELSE 0,
   body |-> endpoint.example]

\* Slip: empty words of a template are counted.
CompiledWhole(def) ==
  [def |-> def, method |-> Upper[def.method], segments |-> def.path]

Compiled(def) ==
  [def |-> def, method |-> Upper[def.method], segments |-> Segments(def.path)]

KeyOf(route) == <<route.method, Len(route.segments)>>

\* set_definitions: everything is replaced under one lock.
SetDefinitions(defs) ==
  LET made == [i \in DOMAIN defs |-> Compiled(defs[i])]
  IN /\ routes' = made
     /\ index' = [k \in {KeyOf(made[i]) : i \in DOMAIN made} |->
                    SelectSeq([i \in DOMAIN made |-> i], LAMBDA i : KeyOf(made[i]) = k)]

\* build_definitions lists the rules before the endpoints.
Next ==
  \E rules \in SeqOf(Rules, MaxDefinitions), endpoints \in SeqOf(Endpoints, MaxDefinitions) :
    /\ Len(rules) + Len(endpoints) <= MaxDefinitions
    /\ SetDefinitions([i \in DOMAIN rules |-> FromRule(rules[i])]
                      \o [i \in DOMAIN endpoints |-> FromEndpoint(endpoints[i])])

---------------------------------------------------------------------------

Suits(def, req) ==
  /\ Holds(def.query, ParseQuery(req.query))
  /\ Holds(def.headers, req.headers)

\* match_request: the position of the definition that answers, 0 if none does.
MatchRequest(req) ==
  LET path == Segments(req.path)
      key == <<Upper[req.method], Len(path)>>
      Better(best, i) ==
        IF /\ Fits(routes[i].segments, path) /\ Suits(routes[i].def, req)
           /\ best = 0 \/ Picks(routes[i].def, routes[best].def)
        THEN i ELSE best
  IN IF key \in DOMAIN index THEN FoldLeft(Better, 0, index[key]) ELSE 0

\* resolve: every definition in turn, compiled on the way.
Resolve(defs, req) ==
  LET path == Segments(req.path)
      Better(best, i) ==
        IF /\ Upper[defs[i].method] = Upper[req.method]
           /\ Fits(Segments(defs[i].path), path) /\ Suits(defs[i], req)
           /\ best = 0 \/ Picks(defs[i], defs[best])
        THEN i ELSE best
  IN FoldLeft(Better, 0, [i \in DOMAIN defs |-> i])

\* lookup: what a piece of the template becomes; what is unknown becomes empty.
Lookup(piece, params, query, headers) ==
  LET from == CASE piece.of = "params" -> params
                [] piece.of = "query" -> query
                [] piece.of = "headers" -> headers
                [] OTHER -> << >>
  IN IF piece.of = "text" THEN piece.name
     ELSE IF piece.name \in DOMAIN from THEN from[piece.name] ELSE NoWord

\* render_template_with_query, for the definition at position i.
Render(i, req) ==
  LET params == Captured(routes[i].segments, Segments(req.path))
  IN [n \in DOMAIN routes[i].def.body |->
        Lookup(routes[i].def.body[n], params, ParseQuery(req.query), req.headers)]

---------------------------------------------------------------------------

\* The index gives the answer that a look at every definition gives: of those
\* that suit the request, one no other is preferred to, the first of equals.
\* (match_request and resolve choose alike.)
MatchIsResolve ==
  \A req \in Requests :
    LET defs == [i \in DOMAIN routes |-> routes[i].def]
        chosen == MatchRequest(req)
        Suited(i) ==
          /\ Upper[defs[i].method] = Upper[req.method] /\ Suits(defs[i], req)
          /\ Fits(Segments(defs[i].path), Segments(req.path))
    IN /\ chosen = Resolve(defs, req)
       /\ chosen = 0 <=> ~\E i \in DOMAIN defs : Suited(i)
       /\ \A i \in DOMAIN defs :
            Suited(i) => /\ Suited(chosen) /\ ~Picks(defs[i], defs[chosen])
                         /\ i < chosen => Picks(defs[chosen], defs[i])

\* What is captured is the request's own, if no name occurs twice: put back into
\* the template it makes the path, and {{params.x}} becomes the segment where {x}
\* stands. (match_compiled, render_template_with_query)
CaptureIsOwn ==
  \A req \in Requests :
    LET chosen == MatchRequest(req)
        template == routes[chosen].segments
        path == Segments(req.path)
        params == Captured(template, path)
        body == routes[chosen].def.body
    IN chosen # 0 /\ IsInjective(SelectSeq(template, LAMBDA w : w \in Placeholder)) =>
         /\ path = [n \in DOMAIN template |->
                     IF template[n] \in DOMAIN params THEN params[template[n]] ELSE template[n]]
         /\ \A n \in DOMAIN body : body[n].of = "params" =>
              \/ \E k \in DOMAIN template :
                   template[k] = body[n].name /\ Render(chosen, req)[n] = path[k]
              \/ body[n].name \notin ToSet(template) /\ Render(chosen, req)[n] = NoWord
=============================================================================
