-------------------------------- MODULE Snippets --------------------------------
(***************************************************************************)
(* A request as a piece of code (fox-codegen: lib.rs, and generators/ with   *)
(* util.rs, which the application does not call yet), and a cURL command as   *)
(* a request (fox-core/curl_parser.rs).                                      *)
(*                                                                          *)
(* Of the code only that counts which decides whether it runs and what it     *)
(* sends: which escape goes into which literal, and how headers, types and    *)
(* bodies are handed to the language's library.  Requests says what the       *)
(* application itself sends.  A command is a sequence of words without quotes. *)
(* Here request is one that goes out as code, or a command that comes in.     *)
(***************************************************************************)
EXTENDS Requests

CONSTANT Mark  \* the tokens that a literal of some language gives a meaning to

Engine == {"+curl", "+python", "+go", "+java"}
Language == {"curl", "python", "js", "go", "java", "php", "rust"} \cup Engine

---------------------------------------------------------------------------
(* Literals. *)

\* What ends or alters a literal if it stands there as it is.
Needs(literal) ==
  CASE literal = "shell" -> {"quote"}
    [] literal = "double" -> {"double quote", "backslash", "line"}
    [] literal = "single" -> {"quote", "backslash", "line"}
    [] literal = "php" -> {"double quote", "backslash", "dollar"}
    [] literal = "code" -> {}
    [] literal = "raw" -> {"backtick"}

\* sq, dq, pq, py_sq: what each escapes.
Handles(escape, literal) ==
  CASE escape = "sq" -> IF literal = "shell" THEN {"quote"} ELSE {}
    [] escape = "dq" -> {"double quote", "backslash", "line"}
    [] escape = "pq" -> {"backslash"}
    [] escape = "py_sq" -> {"quote", "backslash", "line"}
    [] escape = "none" -> {}

\* The escape of a quote that another literal does not read as one.
Spoils(escape, literal) ==
  IF escape = "pq" \/ (escape = "sq" /\ literal # "shell") THEN {"quote"} ELSE {}

Survives(tokens, how) ==
  tokens \intersect ((Needs(how[2]) \ Handles(how[1], how[2])) \cup Spoils(how[1], how[2])) = {}

\* How the address is written, and headers and bodies.
Address(l) ==
  CASE l \in {"curl", "+curl"} -> <<"sq", "shell">>
    [] l = "python" -> <<"sq", "double">>
    [] l = "js" -> <<"sq", "single">>
    [] l = "php" -> <<"dq", "php">>
    [] OTHER -> <<"dq", "double">>

Literal(l) ==
  CASE l \in {"curl", "+curl"} -> <<"sq", "shell">>
    [] l = "js" -> <<"dq", "single">>
    [] l = "php" -> <<"dq", "php">>
    [] OTHER -> <<"dq", "double">>

\* A JSON text is code in JavaScript and in the engine's Python, and in its Go a raw
\* literal if it can be one.  Fields of a form have an escape of their own in PHP.
BodyLiteral(l, mode, tokens) ==
  CASE l = "js" /\ mode \in {"json", "graphql"} -> <<"none", "code">>
    [] l = "+python" /\ mode \in {"json", "graphql", "multipart"} -> <<"py_sq", "single">>
    [] l = "+go" /\ mode \in {"json", "graphql"} /\ "backtick" \notin tokens -> <<"none", "raw">>
    [] l = "php" /\ mode = "multipart" -> <<"pq", "php">>
    [] OTHER -> Literal(l)

---------------------------------------------------------------------------
(* What a snippet sends. *)

Flat(rows) == FlattenSeq([i \in DOMAIN rows |-> rows[i].key \o rows[i].value])
Encoded(text) == [i \in DOMAIN text |-> IF text[i] \in Mark THEN "%" ELSE text[i]]

\* body_parts, graphql_json, encode_component: the body as a text.
TextOf(body) ==
  CASE body.mode = "form" -> Encoded(Flat(Enabled(body.rows)))
    [] body.mode = "graphql" -> <<"{">> \o Flat(Keyed(body.rows)) \o <<"}">>
    [] body.mode \in {"json", "text"} -> Flat(body.rows)
    [] OTHER -> Blank

\* Its type: a text has none.
TypeOf(body) == IF body.mode \in {"text", "multipart"} THEN "none" ELSE Payload(body).type

\* auth_headers: as they are sent, but no dynamic signature, and no empty key.
AuthOf(spec) ==
  IF spec.auth.kind = "dynamic" \/ (spec.auth.kind = "header" /\ spec.auth.value = Blank) THEN << >>
  ELSE AuthHeaders(spec.auth, Pairs(Keyed(spec.params)), Payload(spec.body))

\* Slip: only keys that are written alike are one header.
MergeExactly(spec) ==
  LET Put(headers, h) ==
        IF \E i \in DOMAIN headers : headers[i].key = h.key
        THEN [i \in DOMAIN headers |-> IF headers[i].key = h.key THEN h ELSE headers[i]]
        ELSE Append(headers, h)
  IN FoldLeft(Put, AuthOf(spec), Pairs(Keyed(spec.headers)))

\* merge_headers, merged_headers: a later header takes the place of an earlier one.
Merge(spec) ==
  LET Put(headers, h) ==
        IF Has(headers, KeyOf(h))
        THEN [i \in DOMAIN headers |->
                IF KeyOf(headers[i]) = KeyOf(h) THEN [headers[i] EXCEPT !.value = h.value]
                ELSE headers[i]]
        ELSE Append(headers, h)
  IN FoldLeft(Put, AuthOf(spec), Pairs(Keyed(spec.headers)))

IsType(h) == KeyOf(h) = <<"content-type">>
Types(headers) == LET t == SelectSeq(headers, IsType) IN {t[i].value : i \in DOMAIN t}
Others(headers) == ToSet(SelectSeq(headers, LAMBDA h : ~IsType(h)))

\* The type that is sent: the user's if code looks for it first, else the body's
\* takes its place.  OkHttp lets the type of the body win, and a text is JSON to it.
TypesOf(l, spec) ==
  LET own == Types(Merge(spec))
      body == IF TypeOf(spec.body) = "none" THEN {} ELSE {<<TypeOf(spec.body)>>}
      given == IF spec.body.mode = "text" /\ l = "+java" THEN {<<"text/plain">>}
               ELSE IF spec.body.mode = "text" /\ l = "java" THEN {<<"application/json">>} ELSE body
      exact == \E i \in DOMAIN Merge(spec) : Merge(spec)[i].key = <<"Content-Type">>
  IN CASE l \in {"curl", "php", "rust", "+curl", "+python", "+go"} ->
            IF own # {} THEN own ELSE body
       [] l \in {"python", "go"} -> IF body # {} THEN body ELSE own
       [] l = "js" -> IF own # {} /\ ~exact THEN own \cup body ELSE IF body # {} THEN body ELSE own
       [] l = "java" -> IF TextOf(spec.body) # Blank THEN given ELSE IF own # {} THEN own ELSE body
       [] l = "+java" -> IF given # {} THEN given ELSE own

Compact(text) == SelectSeq(text, LAMBDA t : t # " ")
Rewritten(l, mode) == mode \in {"json", "graphql"} /\ l \in {"js"} \cup Engine

\* The fields of a form, of which a map keeps the last with one key.
Fields(l, body) ==
  LET rows == Pairs(Keyed(body.rows))
  IN IF l \in {"python", "php", "+python"}
     THEN SelectSeq(rows, LAMBDA r : \A q \in ToSet(rows) : q.key = r.key => q = r) ELSE rows

DataOf(l, body) ==
  CASE body.mode = "multipart" -> Fields(l, body)
    [] body.mode = "binary" -> IF l = "curl" THEN Pairs(body.rows) ELSE << >>
    [] OTHER -> LET text == IF Rewritten(l, body.mode) THEN Compact(TextOf(body)) ELSE TextOf(body)
                IN IF text = Blank THEN << >> ELSE Pair(Blank, text)

Invalid == "oops"  \* in a text: it is no JSON

\* What the compiler or the library refuses: an import that is not used, a builder
\* for a body, a statement in an object, the other kind of form, a body or none
\* where the method wants it otherwise.
Accepted(l, method, body) ==
  /\ l = "go" => TextOf(body) # Blank
  /\ l \in {"java", "+java"} =>
       /\ body.mode # "multipart"
       /\ TextOf(body) = Blank => method \notin {"POST", "PUT", "PATCH"}
       /\ TextOf(body) # Blank => method \notin {"GET", "HEAD"}
  /\ l = "js" =>
       /\ body.mode # "multipart" /\ (TextOf(body) # Blank => method \notin {"GET", "HEAD"})
       /\ body.mode = "json" => Invalid \notin ToSet(TextOf(body))
  /\ l = "rust" => body.mode # "multipart"

Tokens(pairs) == UNION {ToSet(pairs[i].key) \cup ToSet(pairs[i].value) : i \in DOMAIN pairs}

\* A JSON text has quotes around its names.
BodyTokens(body) ==
  CASE body.mode \in {"json", "graphql"} -> {"double quote"} \cup ToSet(TextOf(body))
    [] body.mode \in {"multipart", "binary"} -> Tokens(Keyed(body.rows))
    [] OTHER -> ToSet(TextOf(body))

\* Hawk puts quotes around what it sends, the other signatures have digits only.
HeaderTokens(spec) ==
  Tokens(Pairs(Keyed(spec.headers)))
  \cup CASE spec.auth.kind = "hawk" -> {"double quote"}
        [] spec.auth.kind \in Signing \ {"hawk"} -> {}
        [] OTHER -> Tokens(AuthOf(spec))

\* What is written is what the language reads.
Intact(l, url, spec) ==
  /\ Survives(ToSet(url), Address(l))
  /\ Survives(HeaderTokens(spec), Literal(l))
  /\ Survives(BodyTokens(spec.body), BodyLiteral(l, spec.body.mode, BodyTokens(spec.body)))

---------------------------------------------------------------------------
(* cURL commands. *)

HeaderWord(h) == h.key \o <<":">> \o h.value

\* render_curl
RenderCurl(method, url, spec) ==
  LET headers == Merge(spec)
      body == spec.body
      type == IF TypeOf(body) = "none" \/ Has(headers, <<"content-type">>) THEN << >>
              ELSE <<<<"-H">>, <<"Content-Type", ":", TypeOf(body)>>>>
      fields == Pairs(Keyed(body.rows))
      data == CASE body.mode = "binary" -> <<<<"--data-binary">>, <<"@">> \o Flat(body.rows)>>
                [] body.mode = "multipart" ->
                     FlattenSeq([i \in DOMAIN fields |->
                       <<<<"-F">>, fields[i].key \o <<"=">> \o fields[i].value>>])
                [] TextOf(body) # Blank -> <<<<"--data">>, TextOf(body)>>
                [] OTHER -> << >>
  IN <<<<"curl">>, <<"-X">>, <<method>>, url>>
     \o FlattenSeq([i \in DOMAIN headers |-> <<<<"-H">>, HeaderWord(headers[i])>>])
     \o data \o type

\* Options with a value that counts, with one that is skipped, and without one.
Option ==
  [o \in {"-X", "--request", "-H", "--header", "-u", "--user", "-d", "--data", "--data-raw",
          "--data-binary", "--data-urlencode", "--url"} |->
     CASE o \in {"-X", "--request"} -> "method" [] o \in {"-H", "--header"} -> "header"
       [] o \in {"-u", "--user"} -> "user" [] o = "--url" -> "url" [] OTHER -> "data"]
Skipped == {"-b", "-F", "-ikLb", "--cookie", "--form", "--proxy", "--retry"}
Flag == {"-k", "-s", "--insecure", "--compressed"}
Method == {"GET", "POST", "PUT", "DELETE", "PATCH", "HEAD", "OPTIONS", "GRPC"}

\* The word up to a token, and what follows it.
Before(word, token) ==
  SubSeq(word, 1, (CHOOSE i \in DOMAIN word :
                     word[i] = token /\ \A j \in 1 .. i - 1 : word[j] # token) - 1)
After(word, token) == SubSeq(word, Len(Before(word, token)) + 2, Len(word))

\* apply_value_option, parse_method, push_header, parse_user: a method that is not
\* known takes the place of one that is, a header needs a key, the first address counts.
Apply(s, does, word) ==
  CASE does = "method" -> [s EXCEPT !.method = IF word[1] \in Method THEN word[1] ELSE "none"]
    [] does = "header" ->
         IF ":" \notin ToSet(word) \/ Before(word, ":") = Blank THEN s
         ELSE [s EXCEPT !.headers = Append(@, [key |-> Before(word, ":"), value |-> After(word, ":"),
                                               enabled |-> TRUE])]
    [] does = "user" ->
         [s EXCEPT !.user = IF ":" \in ToSet(word) THEN <<Before(word, ":"), After(word, ":")>>
                            ELSE <<word, Blank>>]
    [] does = "data" -> [s EXCEPT !.data = Append(@, word)]
    [] does = "url" -> IF s.url = Blank THEN [s EXCEPT !.url = word] ELSE s
    [] OTHER -> s

Ignore(s, option) == [s EXCEPT !.ignored = @ \cup {option}]
Wait(s, for) == [s EXCEPT !.waits = for]

\* --name=value, of an option that begins with two dashes.
Long == {o \in DOMAIN Option : o \notin {"-X", "-H", "-u", "-d"}}
Joined(word) == Len(word) > 1 /\ word[2] = "=" /\ word[1] \in Long \cup Skipped \cup Flag

\* One word: the value of the option before it, an option, or else the address.
Read(s, word) ==
  CASE s.waits = "over" -> s
    [] s.waits = "last" -> Wait(Apply(s, "url", word), "over")
    [] s.waits \notin {"no", "over", "last"} -> Wait(Apply(s, s.waits, word), "no")
    [] s.waits = "no" /\ word = <<"--">> -> Wait(s, "last")
    [] s.waits = "no" /\ Joined(word) ->
         IF word[1] \in Long THEN Apply(s, Option[word[1]], After(word, "=")) ELSE Ignore(s, word[1])
    [] s.waits = "no" /\ word = <<"--digest">> -> [s EXCEPT !.digest = TRUE]
    [] s.waits = "no" /\ Len(word) = 1 /\ word[1] \in DOMAIN Option -> Wait(s, Option[word[1]])
    [] s.waits = "no" /\ Len(word) = 1 /\ word[1] \in Skipped -> Wait(Ignore(s, word[1]), "skip")
    [] s.waits = "no" /\ Len(word) = 1 /\ word[1] \in Flag -> Ignore(s, word[1])
    [] OTHER -> Apply(s, "url", word)

\* infer_body
LooksJson(text) ==
  /\ text # Blank /\ text[1] \in {"{", "["} /\ text[Len(text)] \in {"}", "]"}
  /\ Invalid \notin ToSet(text)
InferBody(text) ==
  [mode |-> IF LooksJson(text) THEN "json" ELSE "text",
   rows |-> <<[key |-> Blank, value |-> text, enabled |-> TRUE]>>]

JoinData(data) ==
  FoldLeft(LAMBDA text, d : IF text = << >> THEN d ELSE text \o <<"&">> \o d, << >>, data)

\* parse_curl; without an address it fails.
ParseCurl(words) ==
  LET first == IF words[1] \in {<<"curl">>, <<"curl.exe">>, <<"/usr/bin/curl">>} THEN Tail(words) ELSE words
      s == FoldLeft(Read, [waits |-> "no", url |-> Blank, method |-> "none", headers |-> << >>,
                           user |-> << >>, digest |-> FALSE, data |-> << >>, ignored |-> {}], first)
  IN [url |-> s.url, ignored |-> s.ignored,
      method |-> IF s.method # "none" THEN s.method ELSE IF s.data # << >> THEN "POST" ELSE "GET",
      spec |-> [params |-> << >>, headers |-> s.headers,
                auth |-> IF s.user = << >> THEN NoAuth
                         ELSE [kind |-> IF s.digest THEN "digest" ELSE "basic",
                               key |-> s.user[1], value |-> s.user[2], template |-> Blank],
                body |-> IF s.data = << >> THEN [mode |-> "none", rows |-> << >>]
                         ELSE InferBody(JoinData(s.data))]]

---------------------------------------------------------------------------

\* Every header has a name of its own, and the code can say how one is authorized.
Plain(spec) ==
  LET headers == Wire(spec).headers
  IN /\ \A i, j \in DOMAIN headers : KeyOf(headers[i]) = KeyOf(headers[j]) => i = j
     /\ spec.auth.kind \notin {"query", "dynamic"}
     /\ spec.auth.kind \in {"header", "bearer", "oauth2"} => spec.auth.value # Blank

\* A snippet that runs sends what the application sends: the headers, and a body that
\* is JSON, a text or a form; with a type of the user's in the languages that look for
\* one.  Only a text has no type of its own.  A header that is there twice, in capitals
\* or not, is sent once, as the user wrote it last. (render_*, merge_headers)
SnippetSends(l, spec) ==
  LET wire == Wire(spec)
      own == Types(Merge(spec))
      rows == Keyed(spec.headers)
      merged == Merge(spec)
  IN /\ \A i, j \in DOMAIN merged : KeyOf(merged[i]) = KeyOf(merged[j]) => i = j
     /\ \A i \in DOMAIN rows : (\A j \in i + 1 .. Len(rows) : KeyOf(rows[j]) # KeyOf(rows[i])) =>
          \E h \in ToSet(merged) : KeyOf(h) = KeyOf(rows[i]) /\ h.value = rows[i].value
     /\ Plain(spec) =>
       /\ Others(Merge(spec)) = {h \in ToSet(wire.headers) : ~IsType(h) /\ h.key # <<"content-length">>}
       /\ spec.body.mode \in {"none", "json", "form", "graphql"} /\ (own = {} \/ l \notin {"python", "js", "go", "java", "+java"}) =>
            TypesOf(l, spec) = Types(wire.headers)
       /\ spec.body.mode \in {"json", "form", "text", "graphql"} /\ TextOf(spec.body) # Blank =>
            \E text \in {TextOf(spec.body), Compact(TextOf(spec.body))} : DataOf(l, spec.body) = Pair(Blank, text)
       /\ spec.body.mode = "multipart" => ToSet(DataOf(l, spec.body)) \subseteq ToSet(wire.payload.data)

\* Whatever is written in headers, in the address and in a body is what the language
\* reads, but for a quote in JavaScript, a dollar sign and fields of a form in PHP, and
\* some of the addresses; and JSON and forms can be posted from every language.
\* (sq, dq, pq, py_sq)
SnippetReads(l, url, spec) ==
  LET all == ToSet(url) \cup BodyTokens(spec.body) \cup HeaderTokens(spec)
      text == TextOf(spec.body)
      writable == CASE l = "php" -> "dollar" \notin all /\ spec.body.mode # "multipart"
                    [] l = "js" -> "quote" \notin all /\ {"backslash", "line"} \intersect ToSet(url) = {}
                    [] l = "python" -> ToSet(url) \intersect Mark \subseteq {"dollar", "backtick"}
                    [] OTHER -> TRUE
  IN /\ writable => Intact(l, url, spec)
     /\ spec.body.mode \in {"json", "form"} /\ text # Blank /\ Invalid \notin ToSet(text) =>
          Accepted(l, "POST", spec.body)

\* A request that is copied as a command and pasted again is sent as it was, with the
\* same address, method, headers and text; fields and files do not come back, and a
\* text that looks like JSON is taken for it. (render_curl, parse_curl)
PasteReturns(method, url, spec) ==
  LET back == ParseCurl(RenderCurl(method, url, spec))
      wire == Wire(back.spec)
  IN /\ back.url = url /\ back.method = method
     /\ back.ignored = IF spec.body.mode = "multipart" /\ Keyed(spec.body.rows) # << >> THEN {"-F"} ELSE {}
     /\ Others(Wire(back.spec).headers) = Others(Merge(spec))
     /\ spec.body.mode \in {"json", "form", "text", "graphql"} =>
          /\ TextOf(back.spec.body) = TextOf(spec.body)
          /\ Plain(spec) /\ TextOf(spec.body) # Blank
             /\ (spec.body.mode = "text" => ~LooksJson(TextOf(spec.body))) =>
               Types(wire.headers) = Types(Wire(spec).headers)

\* What an option is for.
For(option) ==
  LET name == option[1][1]
  IN IF name \in DOMAIN Option THEN Option[name]
     ELSE IF name \in Skipped \cup Flag \cup {"--", "--digest"} THEN name ELSE "url"

\* Options that are for different things can be written in any order, with their
\* values as words of their own or joined; after two dashes there is only an address.
\* (parse_curl)
CommandRead(options) ==
  LET Parsed(order) ==
        ParseCurl(<<<<"curl">>>> \o FlattenSeq([i \in DOMAIN order |-> options[order[i]]]))
      given == [i \in DOMAIN options |-> i]
  IN \A order \in {f \in [DOMAIN options -> DOMAIN options] : IsInjective(f)} :
       /\ (\A i, j \in DOMAIN options : For(options[i]) = For(options[j]) => i = j)
          /\ (\A i \in DOMAIN options : For(options[i]) # "--") => Parsed(order) = Parsed(given)
       /\ For(options[order[1]]) = "--" => Parsed(order).method = "GET"

\* All of it: of each request in each language, or of a command.
SnippetsTrue ==
  IF "options" \in DOMAIN request THEN CommandRead(request.options)
  ELSE /\ \A l \in Language :
            SnippetSends(l, request.spec) /\ SnippetReads(l, request.url, request.spec)
       /\ PasteReturns(request.method, request.url, request.spec)
=============================================================================
