------------------------------- MODULE Requests -------------------------------
(***************************************************************************)
(* What goes over the wire for an endpoint as the user wrote it: variables   *)
(* are merged and filled in (state.rs, fox-core/variable.rs), global         *)
(* parameters added (commands/request.rs), and the request built, signed     *)
(* and kept in the history (fox-http/client.rs, signature.rs).              *)
(*                                                                          *)
(* A text is a sequence of tokens, some of which name a variable.  Spaces,   *)
(* encodings and the bytes of bodies and digests are left out.              *)
(***************************************************************************)
EXTENDS Naturals, SequencesExt

CONSTANTS
  Ref,      \* the tokens that name a variable: {{x}}, {{$uuid}}
  Dynamic,  \* those of them with a built-in value, and that value
  Lower,    \* to_ascii_lowercase, of the tokens that have capitals
  BaseUrl,  \* {{base_url}}
  Depth,    \* MAX_VARIABLE_DEPTH
  Cases     \* what is looked at: endpoints with tables and global parameters

VARIABLE request  \* one of them

Init == request \in Cases

Blank == << >>

---------------------------------------------------------------------------
(* Variables. *)

\* A later table wins over an earlier one.
Over(table, under) ==
  [n \in DOMAIN table \cup DOMAIN under |-> IF n \in DOMAIN table THEN table[n] ELSE under[n]]

\* EnvironmentVariable::effective_value: the local value, else the shared one.
Effective(v) == IF v.local # Blank THEN v.local ELSE v.remote

\* Of rows with one key the last one counts.
Table(rows) ==
  [n \in {rows[i].key : i \in DOMAIN rows} |->
     Effective(rows[CHOOSE i \in DOMAIN rows :
                      rows[i].key = n /\ \A j \in i + 1 .. Len(rows) : rows[j].key # n])]

\* variables_for: environment over project over global.  An environment has no
\* empty variables, and its address is one if it is not defined otherwise.
VariablesFor(global, project, environment) ==
  LET own == Table(SelectSeq(environment.variables,
                             LAMBDA v : v.enabled /\ Effective(v) # Blank))
      based == IF BaseUrl \notin DOMAIN own /\ environment.base # Blank
               THEN Over(own, [n \in {BaseUrl} |-> environment.base]) ELSE own
  IN Over(based, Over(project, Table(SelectSeq(global, LAMBDA v : v.enabled))))

Spread(text, of) ==
  FlattenSeq([i \in DOMAIN text |-> IF text[i] \in Ref THEN of[text[i]] ELSE <<text[i]>>])

\* What a variable's token becomes with d levels left: its value with the variables
\* in it, a built-in value, or itself.  (resolve_into, lookup)
Expansion(vars) ==
  LET f[d \in 0 .. Depth] ==
        [n \in Ref |->
           IF d = 0 THEN <<n>>
           ELSE IF n \in DOMAIN vars THEN Spread(vars[n], f[d - 1])
           ELSE IF n \in DOMAIN Dynamic THEN <<Dynamic[n]>>
           ELSE <<n>>]
  IN f[Depth]

\* resolve_variables
Resolve(text, vars) == Spread(text, Expansion(vars))

---------------------------------------------------------------------------
(* The rendered request. *)

RenderRows(rows, vars) ==
  [i \in DOMAIN rows |->
     [rows[i] EXCEPT !.key = Resolve(@, vars), !.value = Resolve(@, vars)]]

\* Of an OAuth authorization the token is not rendered, of a signature everything is.
RenderAuth(auth, vars) ==
  [auth EXCEPT !.key = Resolve(@, vars), !.template = Resolve(@, vars),
               !.value = IF auth.kind = "oauth2" THEN @ ELSE Resolve(@, vars)]

RenderSpec(spec, vars) ==
  [params |-> RenderRows(spec.params, vars), headers |-> RenderRows(spec.headers, vars),
   auth |-> RenderAuth(spec.auth, vars),
   body |-> [spec.body EXCEPT !.rows = RenderRows(@, vars)]]

KeyOf(row) ==
  [i \in DOMAIN row.key |-> IF row.key[i] \in DOMAIN Lower THEN Lower[row.key[i]] ELSE row.key[i]]
Keys(rows) == {KeyOf(rows[i]) : i \in {i \in DOMAIN rows : rows[i].enabled}}

\* apply_global_params: those that the request does not have.
ApplyGlobalParams(spec, params, vars) ==
  LET Add(s, p) ==
        LET row == [key |-> p.key, value |-> Resolve(p.value, vars), enabled |-> TRUE]
        IN IF ~p.enabled \/ p.key = Blank THEN s
           ELSE IF p.location = "query"
                THEN IF KeyOf(p) \in Keys(s.params) THEN s
                     ELSE [s EXCEPT !.params = Append(@, row)]
                ELSE IF KeyOf(p) \in Keys(s.headers) THEN s
                     ELSE [s EXCEPT !.headers = Append(@, row)]
  IN FoldLeft(Add, spec, params)

Rendered(spec, params, vars) == ApplyGlobalParams(RenderSpec(spec, vars), params, vars)

---------------------------------------------------------------------------
(* The request that is sent. *)

Enabled(rows) == SelectSeq(rows, LAMBDA r : r.enabled)
Keyed(rows) == SelectSeq(Enabled(rows), LAMBDA r : r.key # Blank)
Pairs(rows) == [i \in DOMAIN rows |-> [key |-> rows[i].key, value |-> rows[i].value]]
Pair(key, value) == <<[key |-> key, value |-> value]>>

\* build_payload: what is sent, its type, and whether its bytes are known before.
Payload(body) ==
  [type |-> CASE body.mode \in {"json", "graphql"} -> "application/json"
              [] body.mode = "text" -> "text/plain"
              [] body.mode = "form" -> "application/x-www-form-urlencoded"
              [] body.mode = "multipart" -> "multipart/form-data"
              [] body.mode = "binary" -> "application/octet-stream"
              [] body.mode = "none" -> "none",
   known |-> IF body.mode \in {"multipart", "binary"} THEN "no" ELSE "yes",
   length |-> IF body.mode = "binary" THEN <<"length">> ELSE Blank,
   data |-> CASE body.mode = "none" -> << >>
              [] body.mode = "form" -> Pairs(Enabled(body.rows))
              [] body.mode = "multipart" -> Pairs(Keyed(body.rows))
              [] body.mode = "graphql" -> Pairs(RenderRows(Keyed(body.rows), << >>))
              [] OTHER -> Pairs(body.rows)]

Has(headers, name) == \E i \in DOMAIN headers : KeyOf(headers[i]) = name
Signing == {"hawk", "aws", "hmac"}

\* The hash of a body whose bytes are not known is left out.
HashOf(payload) == IF payload.known = "yes" THEN payload.data ELSE << >>

\* apply_signature: the placeholders that are left in the template are filled in
\* with the key, the secret and the time in milliseconds.
SignedText(auth) ==
  FlattenSeq([i \in DOMAIN auth.template |->
    CASE auth.template[i] = "{{$key}}" -> auth.key
      [] auth.template[i] = "{{$secret}}" -> auth.value
      [] auth.template[i] = "{{$timestamp}}" -> <<"milliseconds">>
      [] OTHER -> <<auth.template[i]>>])

\* apply_auth: headers to add.  A signature is shown by what it covers.
AuthHeaders(auth, query, payload) ==
  CASE auth.kind \in {"none", "digest"} -> << >>
    [] auth.kind = "bearer" ->
         IF auth.value = Blank THEN << >> ELSE Pair(<<"authorization">>, auth.value)
    [] auth.kind = "basic" -> Pair(<<"authorization">>, auth.key \o <<":">> \o auth.value)
    [] auth.kind = "oauth2" -> Pair(<<"authorization">>, auth.value)
    [] auth.kind = "header" ->
         IF auth.key = Blank THEN << >> ELSE Pair(auth.key, auth.value)
    [] auth.kind = "query" -> << >>
    [] auth.kind \in Signing ->
         Pair(<<"authorization">>, <<[query |-> query, hash |-> HashOf(payload)]>>)
    [] auth.kind = "dynamic" ->
         Pair(<<"x-key">>, auth.key) \o Pair(<<"x-timestamp">>, <<"milliseconds">>)
         \o Pair(<<"x-sig">>, <<SignedText(auth)>>)

\* apply_auth: parameters to add.
AuthQuery(auth) ==
  IF auth.kind = "query" /\ auth.key # Blank THEN Pair(auth.key, auth.value) ELSE << >>

\* Slip: the payload's type beside one the user has set.
TypeAlways(headers, payload) ==
  IF payload.type = "none" THEN << >> ELSE Pair(<<"content-type">>, <<payload.type>>)

TypeHeader(headers, payload) ==
  IF payload.type = "none" \/ Has(headers, <<"content-type">>) THEN << >>
  ELSE Pair(<<"content-type">>, <<payload.type>>)

LengthHeader(headers, payload) ==
  IF payload.length = Blank \/ Has(headers, <<"content-length">>) THEN << >>
  ELSE Pair(<<"content-length">>, payload.length)

Refused(spec) ==
  spec.auth.kind = "dynamic" /\ Blank \in {spec.auth.key, spec.auth.value, spec.auth.template}

\* send_request_inner, up to the first send.  Headers are added, none replaced.
Wire(spec) ==
  LET query == Pairs(Keyed(spec.params))
      payload == Payload(spec.body)
      headers == Pairs(Enabled(spec.headers)) \o AuthHeaders(spec.auth, query, payload)
  IN [query |-> query \o AuthQuery(spec.auth),
      headers |-> SelectSeq(headers, LAMBDA h : h.key # Blank)
                  \o TypeHeader(headers, payload) \o LengthHeader(headers, payload),
      payload |-> payload]

---------------------------------------------------------------------------
(* The history. *)

NoAuth == [kind |-> "none", key |-> Blank, value |-> Blank, template |-> Blank]

\* build_history: the rendered request without its authorization.
Kept(spec) == [spec EXCEPT !.auth = NoAuth]

\* restoreFromHistory: into the endpoint, whose authorization stays.  Without
\* parameters the editor takes those of the address, which has none here.
Restored(endpoint, kept) ==
  [params |-> kept.params, headers |-> kept.headers, auth |-> endpoint.auth,
   body |-> kept.body]

---------------------------------------------------------------------------

Vars == VariablesFor(request.global, request.project, request.environment)
Sent == Rendered(request.endpoint, request.params, Vars)

\* The names that are filled in completely within k levels.
Settled[k \in 0 .. Depth] ==
  IF k = 0 THEN Ref \ (DOMAIN Vars \cup DOMAIN Dynamic)
  ELSE {n \in Ref :
          IF n \in DOMAIN Vars THEN ToSet(Vars[n]) \intersect Ref \subseteq Settled[k - 1]
          ELSE TRUE}

\* A name is filled in completely exactly if its values lead to an end within the
\* depth; what has no value stays as it is. (resolve_into)
FilledToTheEnd ==
  \A n \in Ref :
    n \in Settled[Depth] <=>
      ToSet(Resolve(<<n>>, Vars)) \intersect (DOMAIN Vars \cup DOMAIN Dynamic) = {}

Rows(rows, key) == SelectSeq(rows, LAMBDA r : r.enabled /\ KeyOf(r) = key)

\* A key of the request's own is sent as the request has it; any other key of the
\* global parameters once, with the first of their values.  (apply_global_params)
OwnKeysWin ==
  \A i \in DOMAIN request.params :
    LET p == request.params[i]
        place == IF p.location = "query" THEN "params" ELSE "headers"
        own == Rows(RenderSpec(request.endpoint, Vars)[place], KeyOf(p))
        others == SelectSeq(request.params, LAMBDA q :
                    q.enabled /\ q.location = p.location /\ KeyOf(q) = KeyOf(p))
        sent == Rows(Sent[place], KeyOf(p))
    IN p.enabled /\ p.key # Blank =>
         IF own # << >> THEN sent = own
         ELSE Len(sent) = 1 /\ sent[1].value = Resolve(others[1].value, Vars)

\* A signature covers the parameters and the body that are sent, and a body has a
\* type, that of the user or else its own.  (apply_auth, build_payload)
WireFits ==
  ~Refused(Sent) =>
    LET wire == Wire(Sent)
        types == SelectSeq(wire.headers, LAMBDA h : KeyOf(h) = <<"content-type">>)
        apiKey == [key |-> Sent.auth.key, value |-> Sent.auth.value,
                   enabled |-> Sent.auth.kind = "header"]
        own == Rows(Append(Sent.headers, apiKey), <<"content-type">>)
    IN /\ Sent.auth.kind \in Signing =>
            \E i \in DOMAIN wire.headers :
              /\ wire.headers[i].key = <<"authorization">>
              /\ wire.headers[i].value = <<[query |-> wire.query, hash |-> HashOf(wire.payload)]>>
       /\ own # << >> => types = Pairs(own)
       /\ own = << >> => Len(types) = IF Sent.body.mode = "none" THEN 0 ELSE 1

\* A request taken from the history is sent as it was, if its variables have values
\* to the end, and keys of global parameters name none.  (build_history)
HistoryRepeats ==
  LET again == Rendered(Restored(request.endpoint, Kept(Sent)), request.params, Vars)
  IN Settled[Depth] = Ref => Wire(again) = Wire(Sent)

\* The four, of every request.
SentAsWritten == FilledToTheEnd /\ OwnKeysWin /\ WireFits /\ HistoryRepeats

\* The time that a signature covers is the time that is sent beside it.
\* (apply_signature makes both at the last moment)
SignedTimeIsSent ==
  LET wire == Wire(Sent)
  IN request.endpoint.auth.kind = "dynamic" /\ ~Refused(Sent) =>
       \A i, j \in DOMAIN wire.headers :
         /\ wire.headers[i].key = <<"x-sig">> /\ wire.headers[j].key = <<"x-timestamp">>
         /\ "{{$timestamp}}" \in ToSet(request.endpoint.auth.template)
         => ToSet(wire.headers[j].value) \subseteq ToSet(wire.headers[i].value[1])
=============================================================================
