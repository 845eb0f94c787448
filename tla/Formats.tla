-------------------------------- MODULE Formats --------------------------------
(***************************************************************************)
(* Endpoints as documents and back: what an export takes (import_export.rs), *)
(* OpenAPI (fox-openapi: export.rs, import.rs), Swagger 2.0 (swagger2.rs)   *)
(* and Postman collections (postman_export.rs, postman.rs).                  *)
(*                                                                          *)
(* A text is a core with so many quotations around it: with one it is a JSON *)
(* string.  A path is what comes before its first slash, what follows, and   *)
(* whether it has a query; a name is a sequence of words.  Descriptions and   *)
(* the names of examples are left out.                                       *)
(***************************************************************************)
EXTENDS Integers, SequencesExt

CONSTANTS
  Exported,  \* what is exported: sequences of endpoints
  Written    \* what others write down: an operation in no format yet

VARIABLE matter  \* one of them

Init == matter \in [endpoints : Exported] \cup [api : Written]

Unset == "none"
Default == 0  \* the response for other numbers
Text(quotes, core) == [quotes |-> quotes, core |-> core]
Blank == Text(0, "blank")
Braces == Text(0, "{}")
Null == Text(0, "null")

Row(key, value, enabled) == [key |-> key, value |-> value, enabled |-> enabled]
Enabled(rows) == SelectSeq(rows, LAMBDA r : r.enabled)
Keyed(rows) == SelectSeq(Enabled(rows), LAMBDA r : r.key # "")

NoBody == [mode |-> Unset, text |-> Blank, rows |-> << >>]
Raw(mode, text) == [mode |-> mode, text |-> text, rows |-> << >>]
Form(mode, rows) == [mode |-> mode, text |-> Blank, rows |-> rows]

NoAuth == [kind |-> Unset, cred |-> ""]
Imported(name, method, path, params, headers, variables, body, auth, examples, folder) ==
  [name |-> IF name = << >> THEN <<method, path>> ELSE name, method |-> method, path |-> path,
   params |-> params, headers |-> headers, variables |-> variables, body |-> body,
   auth |-> auth, examples |-> examples, folder |-> folder]

---------------------------------------------------------------------------
(* What an export takes. *)

Living(endpoints) == SelectSeq(endpoints, LAMBDA e : ~e.deprecated)

\* export_docs: a deprecated endpoint is left out, unless nothing is left of the
\* one that was asked for: then there is no document.
ForDocs(endpoints) == Living(endpoints)

\* export_openapi: one stays, without its examples.
ForOpenApi(endpoints) ==
  [i \in DOMAIN endpoints |->
     IF endpoints[i].deprecated THEN [endpoints[i] EXCEPT !.examples = << >>] ELSE endpoints[i]]

---------------------------------------------------------------------------
(* OpenAPI. *)

\* A text is kept as JSON, or as a string if it is none; value_to_string takes the
\* quotes of a string away and writes other JSON without spaces.
Through(t) ==
  IF t.quotes > 0 THEN Text(t.quotes - 1, t.core)
  ELSE IF t.core = "spaced" THEN Text(0, "json") ELSE t

\* An example that is null is none.
ExampleOr(t, otherwise) == IF t = Null THEN otherwise ELSE Through(t)

\* Slip: rows that are switched off are written too.
ParametersAlways(place, rows) ==
  [i \in DOMAIN rows |-> [in |-> place, name |-> rows[i].key, example |-> rows[i].value]]

ParametersOf(place, rows) ==
  LET on == Enabled(rows)
  IN [i \in DOMAIN on |-> [in |-> place, name |-> on[i].key, example |-> on[i].value]]

Media(type, text, rows) == [type |-> type, text |-> text, rows |-> rows]

\* Of examples with one status the last one stays; without any one is made up.
Responses(examples) ==
  IF examples = << >> THEN [s \in {200} |-> <<Media("json", Braces, << >>)>>]
  ELSE [s \in {examples[i].status : i \in DOMAIN examples} |->
          LET last == CHOOSE i \in DOMAIN examples :
                        /\ examples[i].status = s
                        /\ \A j \in i + 1 .. Len(examples) : examples[j].status # s
          IN <<Media(examples[last].type, examples[last].text, << >>)>>]

\* build_operation: no tags, no authorization, and only a JSON body.
Operation(e) ==
  [summary |-> e.name, tags |-> << >>,
   parameters |-> ParametersOf("query", e.params) \o ParametersOf("header", e.headers)
                  \o ParametersOf("path", e.variables),
   content |-> IF e.body.mode = "json" THEN <<Media("json", e.body.text, << >>)>> ELSE << >>,
   responses |-> Responses(e.examples)]

\* export_project_value: an operation for each path and method, of the last
\* endpoint that has them; HTTP only.
ExportOpenApi(endpoints) ==
  LET http == SelectSeq(endpoints, LAMBDA e : e.method # "GRPC")
      At(i) == <<http[i].path, http[i].method>>
  IN [k \in {At(i) : i \in DOMAIN http} |->
        Operation(http[CHOOSE i \in DOMAIN http :
                         At(i) = k /\ \A j \in i + 1 .. Len(http) : At(j) # k])]

\* normalize_schema_node, for version 3.1: members named like keywords of a schema
\* are rewritten, in examples too.
Normalize(content) ==
  [i \in DOMAIN content |->
     IF content[i].text.quotes = 0 /\ content[i].text.core = "keyword"
     THEN [content[i] EXCEPT !.text = Text(0, "mangled")] ELSE content[i]]

NormalizeOpenApi31(op) ==
  [op EXCEPT !.content = Normalize(@),
             !.responses = [s \in DOMAIN @ |-> Normalize(@[s])]]

Of(parameters, place) ==
  LET some == SelectSeq(parameters, LAMBDA p : p.in = place)
  IN [i \in DOMAIN some |-> Row(some[i].name, some[i].example, TRUE)]

First(seq, Test(_)) == SelectSeq(seq, Test)[1]
Some(seq, Test(_)) == SelectSeq(seq, Test) # << >>

\* body_from_request_body
FromContent(content) ==
  IF Some(content, LAMBDA m : m.type = "json")
  THEN Raw("json", ExampleOr(First(content, LAMBDA m : m.type = "json").text, Braces))
  ELSE IF Some(content, LAMBDA m : m.type = "form")
  THEN Form("form", First(content, LAMBDA m : m.type = "form").rows)
  ELSE NoBody

\* An example of each response with a number, from the first of its contents.
FromResponses(responses) ==
  [s \in DOMAIN responses \ {Default} |->
     IF responses[s] = << >> THEN [type |-> "json", text |-> Blank]
     ELSE [type |-> responses[s][1].type, text |-> ExampleOr(responses[s][1].text, Blank)]]

\* import_endpoints, map_operation
ImportOpenApi(doc) ==
  {LET op == doc[k]
   IN Imported(op.summary, k[2], k[1], Of(op.parameters, "query"), Of(op.parameters, "header"),
               Of(op.parameters, "path"), FromContent(op.content), NoAuth,
               FromResponses(op.responses), IF op.tags = << >> THEN "" ELSE op.tags[1])
   : k \in DOMAIN doc}

---------------------------------------------------------------------------
(* Postman. *)

\* url_object, enabled_kv: rows that are on and have a key.
Rows(rows) == [i \in DOMAIN Keyed(rows) |-> [key |-> Keyed(rows)[i].key,
                                             value |-> Keyed(rows)[i].value, disabled |-> FALSE]]

\* attach_body: of a text only that it is one, of other modes nothing.
BodyItem(body) ==
  LET In(mode, language, text, rows) ==
        [mode |-> mode, language |-> language, text |-> text, rows |-> rows]
  IN CASE body.mode = "json" /\ body.text # Blank -> In("raw", "json", body.text, << >>)
       [] body.mode = "text" /\ body.text # Blank -> In("raw", Unset, body.text, << >>)
       [] body.mode = "form" /\ Keyed(body.rows) # << >> ->
            In("urlencoded", Unset, Blank, Rows(body.rows))
       [] OTHER -> In(Unset, Unset, Blank, << >>)

Known == {"bearer", "basic", "digest", "hawk", "awsv4"}

\* attach_auth: a key that goes into the query is written as one of a header.
AuthItem(auth) ==
  CASE auth.cred = "" -> NoAuth
    [] auth.kind \in Known -> auth
    [] auth.kind \in {"header", "query"} -> [auth EXCEPT !.kind = "header"]
    [] OTHER -> NoAuth

\* example_to_response
ResponseItem(x) ==
  [code |-> x.status, headers |-> x.headers, text |-> x.text,
   language |-> IF x.type = "json" THEN "json" ELSE "text"]

Item(e) ==
  [under |-> << >>, name |-> IF e.name = << >> THEN <<e.method, e.path>> ELSE e.name,
   method |-> e.method, raw |-> e.path, query |-> Rows(e.params), header |-> Rows(e.headers),
   body |-> BodyItem(e.body), auth |-> AuthItem(e.auth),
   responses |-> [i \in DOMAIN e.examples |-> ResponseItem(e.examples[i])]]

ExportPostman(endpoints) ==
  [auth |-> NoAuth, items |-> [i \in DOMAIN endpoints |-> Item(endpoints[i])]]

FromRows(rows) == [i \in DOMAIN rows |-> Row(rows[i].key, rows[i].value, ~rows[i].disabled)]

\* parse_body: a raw body is JSON unless it says that it is something else.
ParseBody(body) ==
  CASE body.mode = "raw" ->
         Raw(IF body.language \in {"xml", "html", "text"} THEN "text" ELSE "json", body.text)
    [] body.mode = "urlencoded" -> Form("form", FromRows(body.rows))
    [] body.mode = "formdata" -> Form("multipart", FromRows(body.rows))
    [] body.mode = "file" -> Raw("text", body.text)
    [] OTHER -> NoBody

\* parse_auth: a kind that is not known counts as none, so the collection's is used.
ParseAuth(auth, collection) ==
  IF auth.kind \in Known \cup {"header", "query"} THEN auth ELSE collection

\* The type that a header names, or one for the language.
TypeOf(response) ==
  LET named == SelectSeq(response.headers, LAMBDA h : h.key = "content-type")
  IN IF named # << >> THEN named[1].value
     ELSE IF response.language = "html" THEN "html" ELSE "json"

FromResponse(response) ==
  [status |-> response.code, type |-> TypeOf(response), text |-> response.text]

\* What follows the first slash, without a query.
PathOf(raw) ==
  [lead |-> "", rest |-> IF raw.rest = "" THEN "/" ELSE raw.rest, query |-> FALSE]

\* walk_items: the folder is the first on the way down that has a name.
FolderHint(under) ==
  LET named == SelectSeq(under, LAMBDA n : n # "") IN IF named = << >> THEN "" ELSE named[1]

\* map_request
FromItem(item, collection) ==
  Imported(item.name, item.method, PathOf(item.raw), FromRows(item.query), FromRows(item.header),
           << >>, ParseBody(item.body), ParseAuth(item.auth, collection),
           [i \in DOMAIN item.responses |-> FromResponse(item.responses[i])],
           FolderHint(item.under))

NoPath == [lead |-> "", rest |-> "", query |-> FALSE]

\* import_postman: what has no address is skipped.
ImportPostman(doc) ==
  LET addressed == SelectSeq(doc.items, LAMBDA item : item.raw # NoPath)
  IN [i \in DOMAIN addressed |-> FromItem(addressed[i], ParseAuth(doc.auth, NoAuth))]

---------------------------------------------------------------------------
(* Swagger 2.0. *)

\* map_security: basic first, then the first key; one named authorization is a bearer.
MapSecurity(defs) ==
  LET basic == SelectSeq(defs, LAMBDA d : d.type = "basic")
      keys == SelectSeq(defs, LAMBDA d : d.type = "apiKey")
  IN IF basic # << >> THEN [kind |-> "basic", cred |-> ""]
     ELSE IF keys = << >> THEN NoAuth
     ELSE IF keys[1].name = "authorization" THEN [kind |-> "bearer", cred |-> ""]
     ELSE [kind |-> IF keys[1].in = "header" THEN "header" ELSE "query", cred |-> ""]

\* An example is written as JSON, quotes and all.
AsJson(t) == IF t.core = "spaced" /\ t.quotes = 0 THEN Text(0, "json") ELSE t

\* The last body parameter, or else the form, in the first way the API consumes.
SwaggerBody(parameters, consumes) ==
  LET bodies == SelectSeq(parameters, LAMBDA p : p.in = "body")
      form == Of(parameters, "formData")
  IN IF bodies # << >> THEN Raw("json", AsJson(bodies[Len(bodies)].example))
     ELSE IF form = << >> THEN NoBody
     ELSE Form(IF "multipart" \in ToSet(consumes) THEN "multipart" ELSE "form", form)

\* map_operation.  What the operation says of its security makes no difference.
ImportSwagger(doc) ==
  {LET op == doc.operations[k]
       own == IF op.consumes = << >> THEN doc.consumes ELSE op.consumes
       types == IF op.produces = << >> THEN doc.produces ELSE op.produces
       Status(s) == IF s = Default THEN 200 ELSE s
   IN Imported(op.summary, k[2], k[1], Of(op.parameters, "query"), Of(op.parameters, "header"),
               Of(op.parameters, "path"), SwaggerBody(op.parameters, own),
               MapSecurity(doc.security),
               {[status |-> Status(s), type |-> IF types = << >> THEN "json" ELSE types[1],
                 text |-> AsJson(op.responses[s])] : s \in DOMAIN op.responses},
               IF op.tags = << >> THEN "" ELSE op.tags[1])
   : k \in DOMAIN doc.operations}
---------------------------------------------------------------------------
(* What others write: one operation, in each of the formats. *)

Written1(place, rows) ==
  [i \in DOMAIN rows |-> [in |-> place, name |-> rows[i].key, example |-> rows[i].value]]
WrittenRows(api) ==
  Written1("header", api.headers) \o Written1("path", api.variables) \o Written1("query", api.params)
Tags(api) == IF api.folder = "" THEN << >> ELSE <<api.folder>>

AsOpenApi(api) ==
  [k \in {<<api.path, "POST">>} |->
     [summary |-> << >>, tags |-> Tags(api), parameters |-> WrittenRows(api),
      content |-> CASE api.body.mode = "json" -> <<Media("other", Blank, << >>), Media("json", api.body.text, << >>)>>
                    [] api.body.mode = "form" -> <<Media("form", Blank, api.body.rows)>>
                    [] OTHER -> << >>,
      responses |-> [s \in {Default, 200} |-> << >>]]]

AsSwagger(api) ==
  [consumes |-> <<"form">>, produces |-> << >>, security |-> << >>,
   operations |-> [k \in {<<api.path, "POST">>} |->
     [summary |-> << >>, tags |-> Tags(api), consumes |-> << >>, produces |-> << >>,
      parameters |-> WrittenRows(api) \o
        CASE api.body.mode = "json" -> <<[in |-> "body", name |-> "b", example |-> api.body.text]>>
          [] api.body.mode = "form" -> Written1("formData", api.body.rows)
          [] OTHER -> << >>,
      responses |-> [s \in {200} |-> Blank]]]]

AsPostman(api) ==
  [auth |-> NoAuth,
   items |-> <<[under |-> <<"", api.folder, "g">>, name |-> << >>, method |-> "POST",
                raw |-> [api.path EXCEPT !.lead = "host", !.query = TRUE],
                query |-> Rows(api.params), header |-> Rows(api.headers), auth |-> NoAuth,
                responses |-> << >>,
                body |-> CASE api.body.mode = "json" ->
                                [mode |-> "raw", language |-> Unset, text |-> api.body.text, rows |-> << >>]
                           [] api.body.mode = "form" ->
                                [mode |-> "urlencoded", language |-> Unset, text |-> Blank, rows |-> Rows(api.body.rows)]
                           [] OTHER -> [mode |-> Unset, language |-> Unset, text |-> Blank, rows |-> << >>]]>>]

---------------------------------------------------------------------------
(* What should hold of them. *)

Pairs(rows) == [i \in DOMAIN rows |-> <<rows[i].key, rows[i].value>>]

\* JSON that is neither a string nor null, however it is spaced.
Plain(text) == text.quotes = 0 /\ text # Null
SameJson(text, other) == Through(text) = Through(other)

\* Every HTTP endpoint comes back from OpenAPI, the last of those with one path and
\* method, with the rows that are on and a JSON body of the same meaning, an example
\* for each status, and no authorization. (ExportOpenApi, ImportOpenApi)
OpenApiReturns(endpoints) ==
  LET back == ImportOpenApi(ExportOpenApi(endpoints))
      Is(i, b) == endpoints[i].path = b.path /\ endpoints[i].method = b.method
  IN /\ \A i \in DOMAIN endpoints :
          endpoints[i].method # "GRPC" <=> \E b \in back : Is(i, b)
     /\ \A b \in back : \E i \in DOMAIN endpoints :
          LET e == endpoints[i]
          IN /\ Is(i, b) /\ \A j \in i + 1 .. Len(endpoints) : ~Is(j, b)
             /\ Pairs(b.params) = Pairs(Enabled(e.params))
             /\ Pairs(b.headers) = Pairs(Enabled(e.headers))
             /\ Pairs(b.variables) = Pairs(Enabled(e.variables))
             /\ b.body.mode = IF e.body.mode = "json" THEN "json" ELSE Unset
             /\ b.body.mode = "json" /\ Plain(e.body.text) => SameJson(b.body.text, e.body.text)
             /\ b.auth = NoAuth
             /\ \A x \in ToSet(e.examples) : x.status \in DOMAIN b.examples
             /\ \A s \in DOMAIN b.examples : e.examples # << >> =>
                  \E x \in ToSet(e.examples) :
                    x.status = s /\ x.type = b.examples[s].type
                    /\ (Plain(x.text) => SameJson(b.examples[s].text, x.text))

\* Every endpoint with an address comes back from Postman, in its place, with the
\* rows that are on and have a key, with a body that is JSON or a form, with the
\* text of one that is a text, with its examples, and with no credentials but its own.
\* (ExportPostman, ImportPostman)
PostmanReturns(endpoints) ==
  LET addressed == SelectSeq(endpoints, LAMBDA e : e.path # NoPath)
      back == ImportPostman(ExportPostman(endpoints))
  IN /\ Len(back) = Len(addressed)
     /\ \A i \in DOMAIN back :
          LET e == addressed[i]
              b == back[i]
          IN /\ b.method = e.method /\ b.folder = ""
             /\ e.path.lead = "" /\ e.path.rest # "" => b.path = [e.path EXCEPT !.query = FALSE]
             /\ Pairs(b.params) = Pairs(Keyed(e.params))
             /\ Pairs(b.headers) = Pairs(Keyed(e.headers))
             /\ e.body.mode \in {"json", "text"} => b.body.text = e.body.text
             /\ e.body.mode = "json" /\ e.body.text # Blank => b.body.mode = "json"
             /\ e.body.mode = "form" => Pairs(b.body.rows) = Pairs(Keyed(e.body.rows))
             /\ b.auth.cred \in {"", e.auth.cred}
             /\ b.auth.kind \in {Unset, e.auth.kind} \/ e.auth.kind = "query"
             /\ [k \in DOMAIN b.examples |-> <<b.examples[k].status, b.examples[k].text>>]
                = [k \in DOMAIN e.examples |-> <<e.examples[k].status, e.examples[k].text>>]

\* importEndpoints: an endpoint as it is saved.
Saved(b, examples) ==
  [name |-> b.name, method |-> b.method, path |-> b.path, params |-> b.params,
   headers |-> b.headers, variables |-> b.variables, body |-> b.body, auth |-> b.auth,
   examples |-> examples, deprecated |-> FALSE]

SavedOpenApi(b) ==
  Saved(b, [i \in 1 .. Cardinality(DOMAIN b.examples) |->
              LET s == SetToSortSeq(DOMAIN b.examples, <)[i]
              IN [status |-> s, type |-> b.examples[s].type, text |-> b.examples[s].text,
                  headers |-> << >>]])
SavedPostman(b) ==
  Saved(b, [i \in DOMAIN b.examples |-> [status |-> b.examples[i].status, type |-> b.examples[i].type,
                                         text |-> b.examples[i].text, headers |-> << >>]])

Texts(endpoints) ==
  UNION {{endpoints[i].body.text} \cup {x.text : x \in ToSet(endpoints[i].examples)} : i \in DOMAIN endpoints}

\* What has gone through a document once does not change when it goes through one
\* again, apart from texts in quotes, which lose some each time, and from types of
\* examples that Postman keeps in headers. (Through, TypeOf)
SecondTimeSame(endpoints) ==
  LET once == ImportOpenApi(ExportOpenApi(endpoints))
      again == ImportOpenApi(ExportOpenApi(SetToSeq({SavedOpenApi(b) : b \in once})))
      first == ImportPostman(ExportPostman(endpoints))
      second == ImportPostman(ExportPostman([i \in DOMAIN first |-> SavedPostman(first[i])]))
      Untyped(back) ==
        [i \in DOMAIN back |-> [back[i] EXCEPT !.examples = [k \in DOMAIN @ |-> @[k].text]]]
  IN /\ (\A t \in Texts(endpoints) : t.quotes = 0) => again = once
     /\ Untyped(second) = Untyped(first)

\* One operation, whoever wrote it down, comes in the same: in OpenAPI of both versions,
\* in Swagger, and in Postman, which has no path variables here.  Only a text that is
\* a JSON string or null, or has members named like keywords, differs.
\* (ImportOpenApi, ImportSwagger, ImportPostman)
ImportersAgree(api) ==
  LET openapi == CHOOSE b \in ImportOpenApi(AsOpenApi(api)) : TRUE
      newer == CHOOSE b \in ImportOpenApi([k \in DOMAIN AsOpenApi(api) |->
                                             NormalizeOpenApi31(AsOpenApi(api)[k])]) : TRUE
      swagger == CHOOSE b \in ImportSwagger(AsSwagger(api)) : TRUE
      postman == ImportPostman(AsPostman(api))[1]
      Same(b, c) ==
        /\ b.name = c.name /\ b.path = c.path /\ b.folder = c.folder /\ b.auth = c.auth
        /\ b.params = c.params /\ b.headers = c.headers
        /\ b.body.mode = c.body.mode /\ b.body.rows = c.body.rows
        /\ Plain(api.body.text) => SameJson(b.body.text, c.body.text)
  IN /\ api.body.text # Text(0, "keyword") => newer = openapi
     /\ Same(openapi, swagger) /\ openapi.variables = swagger.variables
     /\ Same(openapi, [postman EXCEPT !.folder = api.folder])
     /\ postman.folder = IF api.folder = "" THEN "g" ELSE api.folder

\* All of it, of what the commands export and of what others write.
\* (export_openapi, export_docs, import_document)
FormatsKeep ==
  /\ "endpoints" \in DOMAIN matter =>
       /\ OpenApiReturns(ForOpenApi(matter.endpoints)) /\ PostmanReturns(ForDocs(matter.endpoints))
       /\ SecondTimeSame(ForDocs(matter.endpoints))
  /\ "api" \in DOMAIN matter => ImportersAgree(matter.api)
=============================================================================
