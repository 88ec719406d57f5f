----------------------------- MODULE MockSchema -----------------------------
(***************************************************************************)
(* The bodies of schema-backed mocks (mocking/cue_schema.go,               *)
(* schema_runtime.go, template.go): a field of the CUE document becomes a  *)
(* schema node, the node of a response is rendered for every request, and  *)
(* requests are validated by nodes of the same kind.                       *)
(*                                                                         *)
(* Values are [kind, looks, items]: looks says which of Go's parsers take  *)
(* a string, items are the fields of an object or the elements of a list.  *)
(***************************************************************************)
EXTENDS Naturals, Sequences

VARIABLE field    \* the field of a document that is being looked at

Value(kind, looks) == [kind |-> kind, looks |-> looks, items |-> <<>>]
Str(looks) == Value("string", looks)
Nil == Value("nil", "blank")
NoValue == Value("absent", "blank")

\* fmt.Sprint: what a value looks like as a string.
Sprint(v) ==
    CASE v.kind = "string" -> v.looks
      [] v.kind = "integer" -> "int"
      [] v.kind = "number" -> v.looks
      [] v.kind = "boolean" -> "truth"
      [] OTHER -> "word"

-----------------------------------------------------------------------------
\* From the document to a schema node.  A field has an annotation or none, a
\* CUE kind, the looks of its literal or "", for the annotations what they
\* find, fall back to, generate or make, and the fields or elements in it.

Field(attr, kind, literal, items) ==
    [attr |-> attr, kind |-> kind, literal |-> literal, items |-> items,
     found |-> NoValue, fallback |-> NoValue, affix |-> FALSE, gen |-> ""]

\* Structs and lists with an annotation are strings.  CUE's number is an int or
\* a float, and int is asked first.
CueKindToSchemaType(kind) ==
    CASE kind \in {"int", "number"} -> "integer"
      [] kind = "float" -> "number"
      [] kind = "bool" -> "boolean"
      [] kind = "null" -> "null"
      [] OTHER -> "string"

\* A literal number without a fraction is an integer however it is written.
LiteralValue(c) ==
    IF c.kind = "float" /\ c.literal = "int" THEN Value("integer", "int")
    ELSE Value(CueKindToSchemaType(c.kind), c.literal)

RECURSIVE ParseSchemaField(_)
ParseSchemaField(c) ==
    LET node(type, example) == [type |-> type, example |-> example, of |-> c, items |-> <<>>]
        nested(type) == [type |-> type, example |-> NoValue, of |-> c,
                         items |-> [i \in DOMAIN c.items |-> ParseSchemaField(c.items[i])]]
    IN  CASE c.attr # "none" -> node(CueKindToSchemaType(c.kind), NoValue)
          [] c.attr = "none" /\ c.kind = "struct" -> nested("object")
          [] c.attr = "none" /\ c.kind = "list" -> nested("array")
          [] c.attr = "none" /\ c.kind \notin {"struct", "list"} /\ c.literal # "" -> node(LiteralValue(c).kind, LiteralValue(c))
          [] OTHER -> node(CueKindToSchemaType(c.kind), NoValue)

-----------------------------------------------------------------------------
\* From a node to a value.

\* A string that the type's parser does not take stays a string.
CoercePrimitive(type, looks) ==
    CASE type = "integer" /\ looks \in {"int", "one"} -> Value("integer", looks)
      [] type = "number" /\ looks \in {"int", "one", "fraction"} -> Value("number", looks)
      [] type = "boolean" /\ looks \in {"truth", "one"} -> Value("boolean", looks)
      [] type = "null" -> Nil
      [] OTHER -> Str(looks)

\* Mutant: a value that is no string is left as it is.
CoerceAnyStrings(type, v) == IF v.kind = "string" THEN CoercePrimitive(type, v.looks) ELSE v

CoerceAny(type, v) ==
    CASE v.kind = "nil" -> Nil
      [] v.kind = "string" -> CoercePrimitive(type, v.looks)
      [] v.kind \notin {"nil", "string"} /\ type = "string" -> Str(Sprint(v))
      [] OTHER -> v

\* Generated integers and booleans stay what they are unless text is asked for.
Generated(type, c) ==
    LET text == c.affix \/ type = "string"
    IN  CASE c.gen \in {"uuid", "timestamp", "string"} -> CoerceAny(type, Str("word"))
          [] c.gen = "pick" -> CoerceAny(type, Str(IF c.affix THEN "word" ELSE Sprint(c.found)))
          [] c.gen = "int" -> CoerceAny(type, IF text THEN Str(IF c.affix THEN "word" ELSE "int") ELSE Value("integer", "int"))
          [] c.gen = "boolean" -> CoerceAny(type, IF text THEN Str(IF c.affix THEN "word" ELSE "truth") ELSE Value("boolean", "truth"))
          [] OTHER -> NoValue

\* The path's value, or the fallback when there is none or it is blank.
Resolved(type, c) ==
    LET blank == c.found.kind \in {"absent", "nil"} \/ Sprint(c.found) = "blank"
        v     == IF blank /\ c.fallback # NoValue THEN c.fallback ELSE c.found
    IN  CASE v = NoValue -> NoValue
          [] v # NoValue /\ c.affix -> CoerceAny(type, Str("word"))
          [] OTHER -> CoerceAny(type, v)

\* A part that cannot be made leaves nothing of the whole.
Composed(type, c) ==
    IF Resolved("string", c) = NoValue \/ (c.gen # "" /\ Generated("string", c) = NoValue) THEN NoValue
    ELSE CoerceAny(type, Str("word"))

Directed(node) ==
    LET c == node.of
    IN  CASE c.attr = "compose"  -> Composed(node.type, c)
          [] c.attr = "gen"      -> Generated(node.type, c)
          [] c.attr = "resolve"  -> Resolved(node.type, c)
          [] c.attr = "template" -> CoercePrimitive(node.type, Sprint(c.found))
          [] OTHER               -> node.example

\* Without an annotation that gives a value, the zero value of the type.
RECURSIVE RenderSchemaValue(_)
RenderSchemaValue(node) ==
    LET v == Directed(node)
        nested(kind, n) == [kind |-> kind, looks |-> "word", items |-> [i \in 1..n |-> RenderSchemaValue(node.items[i])]]
    IN  CASE v # NoValue -> v
          [] v = NoValue /\ node.type = "object" -> nested("object", Len(node.items))
          [] v = NoValue /\ node.type = "array" -> nested("array", IF node.items = <<>> THEN 0 ELSE 1)
          [] v = NoValue /\ node.type \in {"integer", "number"} -> Value(node.type, "int")
          [] v = NoValue /\ node.type = "boolean" -> Value("boolean", "truth")
          [] v = NoValue /\ node.type = "null" -> Nil
          [] OTHER -> Str("blank")

-----------------------------------------------------------------------------
\* What validation accepts.  The required fields of a CUE header schema are a
\* list of strings, which validation does not read: nothing is required.
RECURSIVE ValidateSchemaValue(_, _)
ValidateSchemaValue(node, v) ==
    CASE node.type = "null"    -> v = Nil
      [] node.type = "object"  -> /\ v.kind = "object"
                                  /\ \A i \in DOMAIN node.items \cap DOMAIN v.items :
                                       ValidateSchemaValue(node.items[i], v.items[i])
      [] node.type = "array"   -> \/ v = Nil
                                  \/ /\ v.kind = "array"
                                     /\ node.items # <<>> =>
                                          \A i \in DOMAIN v.items : ValidateSchemaValue(node.items[1], v.items[i])
      [] node.type = "integer" -> v = Nil \/ v.kind = "integer" \/ (v.kind = "number" /\ v.looks # "fraction")
      [] node.type = "number"  -> v = Nil \/ v.kind \in {"integer", "number"}
      [] OTHER                 -> v = Nil \/ v.kind = node.type

-----------------------------------------------------------------------------
\* Documents: every leaf, and structs and lists of two of them.

CueKinds == {"string", "int", "float", "number", "bool", "null", "struct", "list"}
Contents == {NoValue, Nil, Str("blank"), Str("word"), Str("int"), Value("integer", "int"), Value("number", "fraction"),
             Value("boolean", "truth"), Value("object", "word")}

Literals ==
    {Field("none", k, "", <<>>) : k \in CueKinds}
        \cup {Field("none", p[1], p[2], <<>>) : p \in {<<"string", "word">>, <<"string", "int">>, <<"int", "int">>,
                                                       <<"float", "int">>, <<"float", "fraction">>, <<"bool", "truth">>}}
Annotated ==
    {[Field(attr, kind, "", <<>>) EXCEPT !.found = found, !.fallback = fallback, !.affix = affix, !.gen = gen] :
        attr \in {"gen", "resolve", "template", "compose"}, kind \in {"string", "int", "bool", "struct"},
        found \in Contents, fallback \in {NoValue, Nil, Str("word"), Value("integer", "int")}, affix \in BOOLEAN,
        gen \in {"", "uuid", "int", "pick", "boolean"}}
Sample == {f \in Annotated : f.fallback = NoValue /\ ~f.affix /\ f.kind = "string"
                             /\ f.found \in {NoValue, Value("object", "word")} /\ f.gen \in {"", "int"}}
Nested == {Field("none", kind, "", <<a, b>>) : kind \in {"struct", "list"}, a, b \in Literals \cup Sample}
Documents == Literals \cup Annotated \cup Nested
                 \cup {Field("none", "struct", "", <<a>>) : a \in {f \in Nested : f.items[1] \in Sample}}

SchemaInit == field = Field("start", "string", "", <<>>)
SchemaNext == field.attr = "start" /\ field' \in Documents
SchemaSpec == SchemaInit /\ [][SchemaNext]_field

-----------------------------------------------------------------------------

\* An annotation that makes text stands on a field for text.
RECURSIVE Fits(_)
Fits(c) ==
    /\ c.attr = "none" \/ CueKindToSchemaType(c.kind) = "string"
       \/ (c.attr = "gen" /\ ~c.affix /\ <<c.kind, c.gen>> \in {<<"int", "int">>, <<"bool", "boolean">>})
    /\ \A i \in DOMAIN c.items : Fits(c.items[i])

\* What a mock answers is of the type its document declares, whatever the
\* request or the state bring to its annotations and however deep they stand:
\* a response built from a schema passes the validation by that schema, if no
\* annotation that makes text stands on a field for something else.
RenderedConforms ==
    Fits(field) => LET node == ParseSchemaField(field) IN ValidateSchemaValue(node, RenderSchemaValue(node))
=============================================================================
