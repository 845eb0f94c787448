--------------------------------- MODULE Checks ---------------------------------
(***************************************************************************)
(* What a test says of an answer (fox-test/assert.rs) and takes from it       *)
(* (extract.rs).  A text is a sequence of tokens; a JSON value is its kind,   *)
(* its text and the number of its members; an answer names the values that a  *)
(* path finds in its body.  Here answer is one answer of a server, and asked  *)
(* is what a test asks of it.                                                *)
(***************************************************************************)
EXTENDS Naturals, Sequences, SequencesExt, TLC

CONSTANTS
  Answers,  \* answers of servers
  Asked,    \* sequences of what to extract, of records [name, from, path]
  Expected, \* texts that are expected
  Number    \* a function from the texts that are numbers to their values

VARIABLES answer, asked

Missing == [kind |-> "missing", text |-> << >>, size |-> 0]
Value(kind, text, size) == [kind |-> kind, text |-> text, size |-> size]
String(text) == Value("string", text, Len(text))

Init == answer \in Answers /\ asked \in Asked

---------------------------------------------------------------------------

\* The first header of a name, whatever its capitals.
Header(name) ==
  LET h == SelectSeq(answer.headers, LAMBDA p : p.name = name)
  IN IF h = << >> THEN Missing ELSE String(h[1].value)

\* extract_body_json: the text of the first value that a path finds; null is none.
Found(path) ==
  IF ~answer.json \/ path \notin DOMAIN answer.at \/ answer.at[path].kind = "null" THEN Missing
  ELSE String(answer.at[path].text)

\* json_len
Length(v) == IF v.kind \in {"string", "array", "object", "null"} THEN v.size ELSE Len(v.text)

Digit(n) == Value("number", <<ToString(n)>>, 0)

\* actual: without a path the length is that of the body.
Actual(type, path) ==
  CASE type = "status" -> Value("number", answer.status, 0)
    [] type = "header" -> Header(path)
    [] type = "response_time_ms" -> Value("number", answer.duration, 0)
    [] type = "body" -> String(answer.body)
    [] type = "jsonpath" -> Found(path)
    [] type = "graphql_errors" ->
         IF answer.json /\ "errors" \in DOMAIN answer.at /\ answer.at["errors"].kind = "array"
         THEN answer.at["errors"] ELSE Value("array", <<"[", "]">>, 0)
    [] type = "length" ->
         IF path = "none"
         THEN Digit(IF ~answer.json THEN 0
                    ELSE IF answer.at["$"].kind = "string" THEN answer.at["$"].size
                    ELSE Len(answer.at["$"].text))
         ELSE IF answer.json /\ path \in DOMAIN answer.at THEN Digit(Length(answer.at[path])) ELSE Missing
    [] OTHER -> IF answer.json THEN answer.at["$"] ELSE Missing

\* v_to_text, value_eq, to_f64, is_empty_value
TextOf(v) == IF v.kind = "null" THEN << >> ELSE v.text
Equal(v, text) == v.kind \in {"string", "number", "bool"} /\ v.text = text
Numeric(v) == v.kind \in {"string", "number"} /\ v.text \in DOMAIN Number
Empty(v) == v.kind = "null" \/ (v.kind \in {"string", "array", "object"} /\ v.size = 0)

Occurs(Like(_, _), part, text) ==
  \E i \in 0 .. Len(text) : i + Len(part) <= Len(text) /\ \A j \in DOMAIN part : Like(part[j], text[i + j])
Includes(text, part) == Occurs(LAMBDA p, t : p = t, part, text)

\* Regex::new and is_match, of patterns in which a dot stands for anything.
Pattern(p) == "(" \notin ToSet(p)
Matches(text, p) == Occurs(LAMBDA q, t : q \in {".", t}, p, text)

\* Slip: at most is taken for less.
CompareStrictly(op, got, want) ==
  CASE op = "gt" -> got > want [] op = "gte" -> got >= want [] OTHER -> got < want

\* cmp_ops
Compare(op, got, want) ==
  CASE op = "gt" -> got > want [] op = "gte" -> got >= want
    [] op = "lt" -> got < want [] OTHER -> got <= want

\* evaluate: whether it passes.  Of no value it can only be said that there is none.
Evaluate(type, path, op, expected) ==
  LET v == Actual(type, path)
  IN IF v = Missing THEN op = "not_exists"
     ELSE CASE op = "eq" -> Equal(v, expected)
            [] op = "neq" -> ~Equal(v, expected)
            [] op = "contains" -> Includes(TextOf(v), expected)
            [] op = "not_contains" -> ~Includes(TextOf(v), expected)
            [] op \in {"gt", "gte", "lt", "lte"} ->
                 /\ Numeric(v) /\ expected \in DOMAIN Number
                 /\ Compare(op, Number[v.text], Number[expected])
            [] op = "exists" -> TRUE
            [] op = "matches" -> Pattern(expected) /\ Matches(TextOf(v), expected)
            [] op = "not_matches" -> Pattern(expected) /\ ~Matches(TextOf(v), expected)
            [] op = "empty" -> Empty(v)
            [] op = "not_empty" -> ~Empty(v)
            [] OTHER -> FALSE

\* One variable of extract_variables.
Taken(spec) == IF spec.from = "header" THEN Header(spec.path) ELSE Found(spec.path)

\* extract_variables: the last that finds something sets a name.
Extracted(specs) ==
  FoldLeft(LAMBDA out, s : IF Taken(s) = Missing THEN out
                           ELSE [n \in DOMAIN out \cup {s.name} |-> IF n = s.name THEN Taken(s).text ELSE out[n]],
           [n \in {} |-> << >>], specs)
---------------------------------------------------------------------------

Type == {"status", "header", "response_time_ms", "body", "jsonpath", "graphql_errors", "length", "other"}
Path == {"$", "$.a", "$.b", "h", "none"}
Opposite == {<<"eq", "neq">>, <<"contains", "not_contains">>, <<"empty", "not_empty">>,
             <<"matches", "not_matches">>, <<"gt", "lte">>, <<"lt", "gte">>}

\* Of two opposite checks just one passes, unless there is no value, no number or no
\* pattern to speak of: then neither does.  There is a value or there is none.
Opposites ==
  \A type \in Type, path \in Path, expected \in Expected :
    LET Passes(op) == Evaluate(type, path, op, expected)
        Speaks(op) ==
          /\ Passes("exists")
          /\ op = "matches" => Pattern(expected)
          /\ op \in {"gt", "lt"} => expected \in DOMAIN Number /\ Numeric(Actual(type, path))
    IN /\ Passes("exists") # Passes("not_exists")
       /\ \A pair \in Opposite :
            IF Speaks(pair[1]) THEN Passes(pair[1]) # Passes(pair[2])
            ELSE ~Passes(pair[1]) /\ ~Passes(pair[2])

\* What is taken from an answer is what is checked in it: a variable is equal to what
\* the check of its place finds, and where the check finds nothing none is set.
TakenIsChecked ==
  LET out == Extracted(asked)
      Place(s) == IF s.from = "header" THEN "header" ELSE "jsonpath"
  IN /\ \A n \in DOMAIN out : \E s \in ToSet(asked) :
          /\ s.name = n /\ Evaluate(Place(s), s.path, "eq", out[n])
          /\ Evaluate(Place(s), s.path, "contains", out[n])
     /\ \A s \in ToSet(asked) : s.name \in DOMAIN out \/ Evaluate(Place(s), s.path, "not_exists", << >>)

\* Checks that contradict each other are not both passed, and variables are what was
\* checked. (evaluate, extract_variables)
ChecksAgree == Opposites /\ TakenIsChecked
=============================================================================
