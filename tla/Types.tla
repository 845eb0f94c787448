---------------------------------- MODULE Types ----------------------------------
(***************************************************************************)
(* Types of a language from a sample of JSON (fox-codegen/json_types, which   *)
(* the application does not call yet): what is inferred of a value, how the   *)
(* types of an array's elements become one, and how records get their names.  *)
(*                                                                          *)
(* A key is the style it is written in, user_name, userName or UserName, and  *)
(* its words; a name is a sequence of words.  Here sample is one sample.      *)
(***************************************************************************)
EXTENDS Naturals, Sequences, SequencesExt, TLC

CONSTANT Samples  \* JSON values

VARIABLE sample

Init == sample \in Samples

---------------------------------------------------------------------------
(* Inference (model.rs). *)

Simple(kind) == [kind |-> kind]
Unknown == Simple("unknown")
Record(name, fields) == [kind |-> "record", name |-> name, fields |-> fields]

\* to_pascal_case: written one way or another, the name is the same.
Preferred(key) == IF Len(key) < 2 THEN <<"Item">> ELSE Tail(key)

\* same_shape, same_fields: alike but for the names of records.
RECURSIVE SameShape(_, _)
SameFields(x, y) ==
  /\ Len(x) = Len(y)
  /\ \A i \in DOMAIN x : x[i].key = y[i].key /\ SameShape(x[i].ty, y[i].ty)
SameShape(a, b) ==
  /\ a.kind = b.kind
  /\ a.kind = "record" => SameFields(a.fields, b.fields)
  /\ a.kind = "array" => SameShape(a.of, b.of)

\* Slip: a conflict takes the type that was there.
RECURSIVE MergeFirst(_, _)
MergeFirst(a, b) ==
  CASE a = Unknown -> b [] b = Unknown -> a
    [] a.kind = "array" /\ b.kind = "array" -> [kind |-> "array", of |-> MergeFirst(a.of, b.of)]
    [] {a.kind, b.kind} = {"int", "float"} -> Simple("float")
    [] OTHER -> a

\* merge_types: null takes any type, integers become floats, all else that is not alike
\* is not known.
RECURSIVE MergeTypes(_, _)
MergeTypes(a, b) ==
  CASE a = Unknown -> b [] b = Unknown -> a
    [] a.kind = "array" /\ b.kind = "array" -> [kind |-> "array", of |-> MergeTypes(a.of, b.of)]
    [] {a.kind, b.kind} = {"int", "float"} -> Simple("float")
    [] a.kind \notin {"array", "record"} /\ a = b -> a
    [] a.kind = "record" /\ b.kind = "record" /\ SameFields(a.fields, b.fields) -> a
    [] OTHER -> Unknown

\* infer_value
RECURSIVE Infer(_, _)
Merged(key, items) ==
  FoldLeft(LAMBDA ty, v : MergeTypes(ty, Infer(key, v)), Unknown, items)
Infer(key, v) ==
  CASE v.kind = "null" -> Unknown
    [] v.kind = "array" -> [kind |-> "array", of |-> Merged(key, v.items)]
    [] v.kind = "object" ->
         Record(Preferred(key), [i \in DOMAIN v.fields |->
                  [key |-> v.fields[i].key, ty |-> Infer(v.fields[i].key, v.fields[i].value)]])
    [] OTHER -> Simple(v.kind)

\* infer_root: a record, or else an error.
InferRoot(key, v) == IF v.kind = "array" THEN Merged(key, v.items) ELSE Infer(key, v)

---------------------------------------------------------------------------
(* Names (emit.rs): of each record, in the order in which they are found. *)

NoNames == [records |-> << >>, done |-> {}]
NamesOf(reg) == {reg.records[i].name : i \in DOMAIN reg.records}

RECURSIVE ResolveFields(_, _, _), ResolveType(_, _, _)

\* The fields of a record, one after the other.
Fields(reg, fields, chain) ==
  FoldLeft(LAMBDA r, f : LET t == ResolveType(r.reg, f.ty, chain)
                         IN [reg |-> t.reg, out |-> Append(r.out, [key |-> f.key, ty |-> t.ty])],
           [reg |-> reg, out |-> << >>], fields)

\* resolve_fields: it is listed before the records in it, and done after them.
ResolveFields(reg, name, def) ==
  LET n == Len(reg.records) + 1
      r == Fields([reg EXCEPT !.records = Append(@, Record(name, << >>))], def.fields, <<name>>)
  IN [records |-> [r.reg.records EXCEPT ![n] = Record(name, r.out)], done |-> r.reg.done \cup {n}]

\* claim: the name of a record that is done and alike, its own if that is free, with an
\* ancestor's before it, or with a number.
Claim(reg, def, chain) ==
  LET alike == {i \in reg.done : SameFields(reg.records[i].fields, def.fields)}
      own == def.name
      with == {i \in DOMAIN chain : chain[i] \o own \notin NamesOf(reg)}
      Numbered(n) == Append(own, ToString(n))
      name == IF own \notin NamesOf(reg) THEN own
              ELSE IF with # {} THEN chain[CHOOSE i \in with : \A j \in with : j <= i] \o own
              ELSE Numbered(CHOOSE n \in 2 .. Len(reg.records) + 2 :
                              /\ Numbered(n) \notin NamesOf(reg)
                              /\ \A m \in 2 .. n - 1 : Numbered(m) \in NamesOf(reg))
  IN IF alike # {}
     THEN [reg |-> reg, name |-> reg.records[CHOOSE i \in alike : \A j \in alike : i <= j].name]
     ELSE [reg |-> ResolveFields(reg, name, def), name |-> name]

\* resolve_ty: the fields are resolved once more below the name that was claimed.
ResolveType(reg, ty, chain) ==
  CASE ty.kind = "array" ->
         LET t == ResolveType(reg, ty.of, chain)
         IN [reg |-> t.reg, ty |-> [kind |-> "array", of |-> t.ty]]
    [] ty.kind = "record" ->
         LET c == Claim(reg, ty, chain)
             r == Fields(c.reg, ty.fields, Append(chain, c.name))
         IN [reg |-> r.reg, ty |-> Record(c.name, r.out)]
    [] OTHER -> [reg |-> reg, ty |-> ty]

\* resolve
Resolve(root) == ResolveFields(NoNames, root.name, root).records

---------------------------------------------------------------------------
(* Fields (naming.rs, emit.rs): the name of a key in a language. *)

Language == {"rust", "java", "go"}
StyleOf(l) == CASE l = "rust" -> "plain" [] l = "java" -> "camel" [] l = "go" -> "capital"

\* Words that the language keeps for itself, and one that begins with a digit.
Keywords(l) == CASE l = "rust" -> {"Type", "Self"} [] l = "java" -> {"Class"} [] l = "go" -> {}
Digits == {"2x"}

\* rust_field_ident, java_field_ident, go_field_ident: what is put before the words.
Guard(l, words) ==
  CASE words = << >> \/ words[1] \in Digits -> IF l = "go" THEN <<"N">> ELSE <<"_">>
    [] Len(words) = 1 /\ words[1] \in Keywords(l) -> IF l = "rust" THEN <<"r#">> ELSE <<"_">>
    [] OTHER -> << >>

\* to_snake_case, to_camel_case, to_pascal_case: all by the words, in the language's style.
Ident(l, key) == Guard(l, Tail(key)) \o (IF Len(key) = 1 THEN <<"Empty">> ELSE Tail(key))

\* rust_field_name, java_field_name, go_tag: the key stands beside the field, unless
\* the field is written like it; a raw identifier is.
Renamed(l, key) ==
  \/ l = "go" \/ Guard(l, Tail(key)) \notin {<< >>, <<"r#">>}
  \/ key[1] # StyleOf(l) /\ (Len(key) # 2 \/ {key[1], StyleOf(l)} # {"plain", "camel"})

\* emit_rust, emit_java, emit_go: the field of each key, and what it is called in JSON.
Emit(l, record) ==
  [i \in DOMAIN record.fields |->
     LET key == record.fields[i].key
     IN [ident |-> Ident(l, key),
         json |-> IF Renamed(l, key) THEN key ELSE <<StyleOf(l)>> \o Tail(key)]]

---------------------------------------------------------------------------

\* A value that a type can hold; null stands for what is not there.
RECURSIVE Holds(_, _)
KeysOf(fields) == {fields[i].key : i \in DOMAIN fields}
Holds(ty, v) ==
  \/ ty = Unknown \/ v.kind = "null" \/ (ty.kind = "float" /\ v.kind = "int")
  \/ ty.kind = v.kind /\ (ty.kind = "array" => \A i \in DOMAIN v.items : Holds(ty.of, v.items[i]))
  \/ /\ ty.kind = "record" /\ v.kind = "object" /\ KeysOf(ty.fields) = KeysOf(v.fields)
     /\ \A i \in DOMAIN ty.fields, j \in DOMAIN v.fields :
          ty.fields[i].key = v.fields[j].key => Holds(ty.fields[i].ty, v.fields[j].value)

\* No array has more than two elements beside null: with a third one a conflict of the
\* first two is forgotten, as merge_types takes what is not known for nothing yet.
RECURSIVE Short(_)
Short(v) ==
  CASE v.kind = "array" ->
         /\ Len(SelectSeq(v.items, LAMBDA w : w.kind # "null")) <= 2
         /\ \A i \in DOMAIN v.items : Short(v.items[i])
    [] v.kind = "object" -> \A i \in DOMAIN v.fields : Short(v.fields[i].value)
    [] OTHER -> TRUE

\* The record that a field's type stands on, if it does.
RECURSIVE Named(_)
Named(ty) ==
  CASE ty.kind = "array" -> Named(ty.of) [] ty.kind = "record" -> {ty} [] OTHER -> {}
Used(record) == UNION {Named(record.fields[i].ty) : i \in DOMAIN record.fields}

\* Keys are one if they are written alike; one word is written alike in two styles.
SameKey(a, b) ==
  /\ Tail(a) = Tail(b)
  /\ a[1] = b[1] \/ (Len(a) <= 2 /\ {a[1], b[1]} = {"plain", "camel"})

\* Every field is read and written under its own key, and two of a record have names of
\* their own if their words differ; only in Go can the guard of a digit be another's word.
FieldsFit(record) ==
  \A l \in Language :
    LET fields == Emit(l, record)
    IN \A i, j \in DOMAIN fields :
         /\ SameKey(fields[i].json, record.fields[i].key)
         /\ fields[i].ident = fields[j].ident /\ i # j =>
              \/ Tail(record.fields[i].key) = Tail(record.fields[j].key)
              \/ l = "go" /\ fields[i].ident[1] = "N"

\* A type holds the sample it was made of.  Records have names of their own, the root's
\* first; each one is used by one that is listed before it, and a field's type names the
\* one record that is like its values; fields keep their keys. (infer_root, merge_types,
\* resolve, claim, emit_*)
TypesFit ==
  LET root == InferRoot(<<"plain", "Root">>, sample)
  IN /\ sample.kind = "object" => root.kind = "record" /\ (Short(sample) => Holds(root, sample))
     /\ root.kind = "record" =>
          LET records == Resolve(root)
          IN /\ \A i, j \in DOMAIN records : records[i].name = records[j].name => i = j
             /\ records[1].name = root.name /\ SameFields(records[1].fields, root.fields)
             /\ \A i \in 2 .. Len(records) :
                  \E j \in 1 .. i - 1 : \E ty \in Used(records[j]) : ty.name = records[i].name
             /\ \A i \in DOMAIN records : \A ty \in Used(records[i]) :
                  \E j \in DOMAIN records :
                    records[j].name = ty.name /\ SameFields(records[j].fields, ty.fields)
             /\ \A i \in DOMAIN records : FieldsFit(records[i])
=============================================================================
