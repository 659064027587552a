-------------------------------- MODULE Schemas --------------------------------
(***************************************************************************)
(* What tools tell a model about their arguments: a JSON schema made fit   *)
(* for Gemini (gemini_schema_util.go), the declaration of a Go function    *)
(* (automatic_function_calling_util.go), and the validator of both.        *)
(*                                                                         *)
(* A schema is a record; a nil pointer, map or slice is Nil.  Fields that  *)
(* are copied unread are left out; "bounded" stands for the enumeration    *)
(* and the limits, "other" for the keywords Gemini does not know.  A       *)
(* conversion that may fail is the set of its results.                     *)
(***************************************************************************)
EXTENDS Naturals, Sequences, SequencesExt

CONSTANT Nil

VARIABLES
  subject, \* what is converted, with its kind
  result   \* Nil, or the set of results: empty when the conversion failed

schemaVars == <<subject, result>>

-----------------------------------------------------------------------------
(* Sanitizing: the formats Gemini knows, by type.                          *)

\* A variation: any known format with any type.
KnownFormat(type, format) == format \in {"int32", "int64", "date-time", "enum"}
FormatAllowed(type, format) ==
  \/ type \in {"integer", "number"} /\ format \in {"int32", "int64"}
  \/ type = "string" /\ format \in {"date-time", "enum"}

\* One type, or one type and null: a list of types loses all but its first.
\* What has neither a type nor anything to tell it by is an object.
SanitizeType(s) ==
  LET named == SelectSeq(s.types, LAMBDA t : t # "null")
      main == IF named = <<>> THEN "object" ELSE Head(named)
      bare == s.properties = Nil /\ s.items = Nil /\ s.anyOf = Nil /\ ~s.bounded
  IN CASE s.types # <<>> /\ Contains(s.types, "null") -> [s EXCEPT !.types = <<main, "null">>]
       [] s.types # <<>> /\ ~Contains(s.types, "null") -> [s EXCEPT !.type = main, !.types = <<>>]
       [] s.types = <<>> /\ s.type = "" /\ bare -> [s EXCEPT !.type = "object"]
       [] s.types = <<>> /\ s.type = "null" -> [s EXCEPT !.type = "", !.types = <<"object", "null">>]
       [] OTHER -> s

RECURSIVE SanitizeFormats(_)
SanitizeFormats(s) ==
  IF s = Nil THEN Nil
  ELSE LET type == IF s.type = "" /\ s.types # <<>> THEN Head(s.types) ELSE s.type
           Map(f) == IF f = Nil THEN Nil ELSE [i \in DOMAIN f |-> SanitizeFormats(f[i])]
       IN SanitizeType([s EXCEPT !.format = IF FormatAllowed(type, @) THEN @ ELSE "",
                                 !.items = SanitizeFormats(@), !.properties = Map(@),
                                 !.anyOf = Map(@), !.other = FALSE])

-----------------------------------------------------------------------------
(* The schemas of package genai.                                           *)

GeminiTypes == {"string", "integer", "number", "boolean", "array", "object"}
Untyped == [type |-> "", format |-> "", required |-> {}, nullable |-> Nil, bounded |-> FALSE,
            items |-> Nil, properties |-> Nil]
Typed(type) == [Untyped EXCEPT !.type = type]

\* A type that may be null has no place here: it is left unset, and so is
\* nullable, which is read from the extra field only.
RECURSIVE ConvertToGenai(_)
ConvertToGenai(s) ==
  IF s = Nil THEN Nil
  ELSE [type |-> IF s.type \in GeminiTypes \cup {""} THEN s.type ELSE "object",
        format |-> s.format, required |-> s.required, nullable |-> s.nullable,
        bounded |-> s.bounded, items |-> ConvertToGenai(s.items),
        properties |-> IF s.properties = Nil \/ s.properties = <<>> THEN Nil
                       ELSE [p \in DOMAIN s.properties |-> ConvertToGenai(s.properties[p])]]

ToGeminiSchema(s) == ConvertToGenai(SanitizeFormats(s))

\* ValidateGeminiSchema.
FormatValid(type, format) ==
  CASE format = "" -> TRUE
    [] type = "string" -> format \in {"date-time", "enum"}
    [] type \in {"integer", "number"} -> format \in {"int32", "int64"}
    [] OTHER -> TRUE

RECURSIVE Valid(_)
Valid(g) ==
  IF g = Nil THEN TRUE
  ELSE /\ FormatValid(g.type, g.format)
       /\ g.type = "array" => g.items # Nil /\ Valid(g.items)
       /\ g.type = "object" /\ g.properties # Nil =>
            /\ \A p \in DOMAIN g.properties : Valid(g.properties[p])
            /\ g.required \subseteq DOMAIN g.properties

-----------------------------------------------------------------------------
(* Declarations of Go functions by reflection.                             *)

\* A name of "-" hides a field; so does a lower-case initial.
Visible(field) == field.exported /\ field.name # "-"
Required(field) == Visible(field) /\ field.type.kind # "pointer" /\ ~field.omitempty

RECURSIVE TypeToSchema(_), Product(_)
Product(fields) ==
  IF fields = <<>> THEN {<<>>}
  ELSE {(Head(fields).name :> s) @@ rest :
           s \in TypeToSchema(Head(fields).type), rest \in Product(Tail(fields))}
StructToSchema(fields) ==
  LET shown == SelectSeq(fields, Visible)
      required == {f.name : f \in {g \in ToSet(fields) : Required(g)}}
  IN {[Typed("object") EXCEPT !.properties = ps, !.required = required] : ps \in Product(shown)}
TypeToSchema(t) ==
  CASE t.kind = "pointer" -> TypeToSchema(t.elem)
    [] t.kind \in {"string", "integer", "number", "boolean"} -> {Typed(t.kind)}
    [] t.kind = "slice" -> {[Typed("array") EXCEPT !.items = s] : s \in TypeToSchema(t.elem)}
    [] t.kind = "map" -> IF t.key = "string" THEN {Typed("object")} ELSE {}
    [] t.kind = "struct" -> StructToSchema(t.fields)
    [] t.kind = "any" -> {Untyped}
    [] t.kind \in {"context", "error"} -> {Typed("object")}
    [] t.kind = "chan" -> {}

Field(name, type) == [name |-> name, exported |-> TRUE, omitempty |-> FALSE, type |-> type]
\* Reflection does not know the names of parameters.
Numbered(prefix, types) ==
  [i \in DOMAIN types |-> Field(prefix \o ToString(i), types[i])]

ParametersSchema(params) ==
  LET named == IF params # <<>> /\ Head(params).kind = "context" THEN Tail(params) ELSE params
  IN StructToSchema(Numbered("param", named))

ResponseSchema(outs) ==
  CASE outs = <<>> -> {Typed("object")}
    [] Len(outs) = 2 /\ outs[2].kind = "error" -> TypeToSchema(outs[1])
    [] Len(outs) = 1 -> TypeToSchema(outs[1])
    [] OTHER -> {[Typed("object") EXCEPT !.properties = ps] : ps \in Product(Numbered("result", outs))}

BuildFunctionDeclaration(fn) ==
  {[parameters |-> p, response |-> r] :
      p \in ParametersSchema(fn.params),
      r \in IF fn.includeResponse THEN ResponseSchema(fn.outs) ELSE {Nil}}

-----------------------------------------------------------------------------
(* ToSnakeCase over kinds of characters: upper and lower case letters,     *)
(* digits, underscores and the rest.                                       *)

NeedsUnderscore(text, i) ==
  /\ text[i] = "A" /\ i > 1
  /\ \/ text[i - 1] \in {"a", "1"}
     \/ text[i - 1] = "A" /\ i < Len(text) /\ text[i + 1] = "a"

Separate(r) == IF r = <<>> \/ Last(r) = "_" THEN r ELSE Append(r, "_")

ToSnakeCase(text) ==
  LET snake[i \in 0 .. Len(text)] ==
        IF i = 0 THEN <<>>
        ELSE CASE text[i] \notin {"A", "a", "1"} -> Separate(snake[i - 1])
               [] NeedsUnderscore(text, i) -> Append(Separate(snake[i - 1]), "a")
               [] OTHER -> Append(snake[i - 1], IF text[i] = "A" THEN "a" ELSE text[i])
      all == snake[Len(text)]
  IN IF all # <<>> /\ Last(all) = "_" THEN Front(all) ELSE all

-----------------------------------------------------------------------------
(* The inputs of the runs.                                                 *)

Leaves ==
  {s \in [type : {"", "string", "integer", "null", "array"},
          types : {<<>>, <<"null", "string">>, <<"integer", "null">>, <<"string", "integer">>},
          format : {"", "date-time", "int32", "email"}, required : {{}}, nullable : {Nil, TRUE},
          bounded : BOOLEAN, items : {Nil}, properties : {Nil}, anyOf : {Nil}, other : {FALSE}] :
     s.type = "" \/ s.types = <<>>}
Inner == {s \in Leaves : s.nullable = Nil /\ ~s.bounded}
Nested ==
  [type : {"object", "array", "tuple", ""}, types : {<<>>}, format : {"", "date-time"},
   required : {{}, {"a"}}, nullable : {Nil}, bounded : {FALSE}, items : {Nil} \cup Inner,
   properties : {Nil, <<>>} \cup {"a" :> s : s \in Inner},
   anyOf : {Nil} \cup {<<CHOOSE s \in Leaves : s.type = "integer" /\ s.format = "int32">>},
   other : {TRUE}]

Go(kind) == [kind |-> kind, elem |-> Nil, key |-> Nil, fields |-> <<>>]
Simple == {Go(k) : k \in {"string", "integer", "any", "chan", "error", "context"}}
Composed ==
  Simple \cup {[Go(k) EXCEPT !.elem = t] : k \in {"pointer", "slice"}, t \in Simple}
    \cup {[Go("map") EXCEPT !.elem = Go("any"), !.key = k] : k \in {"string", "integer"}}
Structs ==
  {[Go("struct") EXCEPT !.fields =
      <<[name |-> n, exported |-> x, omitempty |-> o, type |-> t], Field("b", Go("boolean"))>>] :
     n \in {"a", "-"}, x \in BOOLEAN, o \in BOOLEAN, t \in Composed}
Signatures ==
  {[params |-> ps, outs |-> <<>>] : ps \in {<<>>, <<Go("context")>>, <<Go("context"), Go("string")>>}
                                           \cup {<<t>> : t \in Composed \cup Structs}}
  \cup {[params |-> <<>>, outs |-> os] : os \in {<<Go("string"), Go("integer"), Go("error")>>}
      \cup {<<t>> : t \in Composed} \cup {<<t, Go("error")>> : t \in Composed}}
GoFunctions == {f @@ [includeResponse |-> r] : f \in Signatures, r \in BOOLEAN}

Texts == UNION {[1 .. n -> {"A", "a", "1", "_", " "}] : n \in 0 .. 5}

Init == subject = Nil /\ result = Nil

Convert(kind, of, results) ==
  /\ subject' = [kind |-> kind, of |-> of]
  /\ result' = results

Next ==
  /\ subject = Nil
  /\ \/ \E s \in Leaves \cup Nested : Convert("schema", s, {ToGeminiSchema(s)})
     \/ \E fn \in GoFunctions : Convert("function", fn, BuildFunctionDeclaration(fn))
     \/ \E text \in Texts : Convert("text", text, {ToSnakeCase(text)})

Spec == Init /\ [][Next]_schemaVars
-----------------------------------------------------------------------------
TypeOK == subject # Nil => subject.kind \in {"schema", "function", "text"} /\ \A r, q \in result : r = q

RECURSIVE WellFormed(_)
WellFormed(s) ==
  IF s = Nil THEN TRUE
  ELSE /\ "array" \in {s.type} \cup ToSet(s.types) => s.items # Nil
       /\ s.properties \notin {Nil, <<>>} => s.required \subseteq DOMAIN s.properties
       /\ WellFormed(s.items)
       /\ s.properties # Nil => \A p \in DOMAIN s.properties : WellFormed(s.properties[p])

\* gemini_schema_util.go: ToGeminiSchema makes of a well-formed JSON schema one
\* that ValidateGeminiSchema accepts, whatever its types and formats; and so
\* does the declaration of every Go function it does not refuse.
SchemasAreValid ==
  subject # Nil =>
    /\ subject.kind = "schema" /\ WellFormed(subject.of) => \A g \in result : Valid(g)
    /\ subject.kind = "function" => \A d \in result : Valid(d.parameters) /\ Valid(d.response)

\* gemini_schema_util.go: a name in snake case has its words apart by one
\* underscore, and is its own snake case.
SnakeCaseIsStable ==
  subject # Nil /\ subject.kind = "text" => \A name \in result :
    /\ ToSnakeCase(name) = name
    /\ name # <<>> => Head(name) # "_" /\ Last(name) # "_"
    /\ \A i \in 1 .. Len(name) - 1 : name[i] # "_" \/ name[i + 1] # "_"
=============================================================================
