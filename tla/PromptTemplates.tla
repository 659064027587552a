--------------------------- MODULE PromptTemplates ---------------------------
(***************************************************************************)
(* Templates of the prompt service with the simple engine (template.go,    *)
(* apply.go): a template is a sequence of characters, of which the model   *)
(* keeps the braces, the letters of names, and other text.  ApplyTemplate   *)
(* replaces placeholders one variable after the other in the text so far,  *)
(* so a value that holds braces may be taken for a placeholder.            *)
(***************************************************************************)
EXTENDS Naturals, Sequences, SequencesExt, FiniteSets

CONSTANTS Letters,   \* characters of variable names
          MaxPieces  \* a template is made of at most so many pieces

Text == "text"      \* a character no name has
Braces == {"{", "}"}
Characters == Letters \cup Braces \cup {Text}

VARIABLES
  template, \* the template of the request
  request,  \* the rest of it: declared variables, values, strict mode
  outcome,  \* "none", "loaded", "applied" or "refused"
  response  \* the response

vars == <<template, request, outcome, response>>

(* {name} matches where nothing but letters lies between the braces.       *)
PlaceholderAt(t, i, j) ==
  /\ t[i] = "{" /\ t[j] = "}" /\ j > i + 1
  /\ \A k \in i + 1 .. j - 1 : t[k] \in Letters

Placeholders(t) ==
  {p \in (1 .. Len(t)) \X (1 .. Len(t)) : PlaceholderAt(t, p[1], p[2])}

Name(t, p) == SubSeq(t, p[1] + 1, p[2] - 1)

(* extractSimpleVariables: the names in the order of their first place.    *)
ExtractVariables(t) ==
  LET ps == Placeholders(t)
      first == {p \in ps : \A q \in ps : Name(t, q) = Name(t, p) => p[1] <= q[1]}
  IN [k \in 1 .. Cardinality(first) |->
        Name(t, CHOOSE p \in first : Cardinality({q \in first : q[1] < p[1]}) = k - 1)]

(* Braces balance, and what lies between an opening brace and the next     *)
(* closing one is a name; matching goes on after the closing brace.        *)
ValidateSimpleTemplate(t) ==
  LET count(k, c) == Cardinality({i \in 1 .. k : t[i] = c})
      closes(i) == {j \in i + 1 .. Len(t) : t[j] = "}"}
      next(i) == CHOOSE j \in closes(i) : \A k \in closes(i) : j <= k
      opens == {i \in 1 .. Len(t) : t[i] = "{" /\ closes(i) # {}}
      covered == {i \in opens : \E h \in opens : h < i /\ i < next(h)}
  IN /\ \A k \in 1 .. Len(t) : count(k, "}") <= count(k, "{")
     /\ count(Len(t), "}") = count(Len(t), "{")
     /\ \A i \in opens \ covered : PlaceholderAt(t, i, next(i))

(* Mutation: the first place only.                                         *)
SubstituteFirst(t, name, value) ==
  LET ps == {p \in Placeholders(t) : Name(t, p) = name}
      first == CHOOSE p \in ps : \A q \in ps : p[1] <= q[1]
  IN SubSeq(t, 1, first[1] - 1) \o value \o SubSeq(t, first[2] + 1, Len(t))

(* strings.ReplaceAll of {name} by a value.                                *)
SubstituteAll(t, name, value) ==
  LET ps == {p \in Placeholders(t) : Name(t, p) = name}
      piece(i) == IF \E p \in ps : p[1] = i THEN value
                  ELSE IF \E p \in ps : p[1] < i /\ i <= p[2] THEN <<>>
                  ELSE <<t[i]>>
  IN FlattenSeq([i \in 1 .. Len(t) |-> piece(i)])

Missing(t, values) == {v \in ToSet(ExtractVariables(t)) : v \notin DOMAIN values}

(* applySimpleVariables in the service's mode, which is never strict.      *)
ApplyVariables(t, values) ==
  LET names == ExtractVariables(t)
      result[k \in 0 .. Len(names)] ==
        IF k = 0 THEN t
        ELSE IF names[k] \in DOMAIN values
        THEN SubstituteAll(result[k - 1], names[k], values[names[k]])
        ELSE result[k - 1]
  IN [Content |-> result[Len(names)], MissingVariables |-> Missing(t, values)]

(* validateTemplateVariables: a prompt that declares no variable is not    *)
(* checked against its declarations.                                       *)
ValidateTemplateVariables(t, declared, values, strict) ==
  strict =>
    /\ Missing(t, values) = {}
    /\ declared # {} => ToSet(ExtractVariables(t)) \subseteq declared

Names == {<<l>> : l \in Letters}
Values == {<<Text>>, <<CHOOSE l \in Letters : TRUE>>, <<"{", CHOOSE l \in Letters : TRUE, "}">>}
Pieces == {<<c>> : c \in Characters} \cup {<<"{", l, "}">> : l \in Letters}
Templates == {FlattenSeq(ps) : ps \in UNION {[1 .. n -> Pieces] : n \in 0 .. MaxPieces}}

Init ==
  /\ template = <<>>
  /\ request = [declared |-> {}, values |-> <<>>, strict |-> FALSE]
  /\ outcome = "none"
  /\ response = [Content |-> <<>>, MissingVariables |-> {}]

(* The template of the request, or of the stored prompt it names.          *)
Load ==
  /\ outcome = "none"
  /\ template' \in Templates
  /\ outcome' = "loaded"
  /\ UNCHANGED <<request, response>>

(* The rest of ApplyTemplate.  A request that brings its template has no   *)
(* declared variables; strict is ValidateVariables with StrictMode, for    *)
(* StrictMode alone is not looked at.                                      *)
ApplyTemplate(declared, values, strict) ==
  /\ outcome = "loaded"
  /\ request' = [declared |-> declared, values |-> values, strict |-> strict]
  /\ IF ValidateTemplateVariables(template, declared, values, strict)
     THEN outcome' = "applied" /\ response' = ApplyVariables(template, values)
     ELSE outcome' = "refused" /\ UNCHANGED response
  /\ UNCHANGED template

Next ==
  \/ Load
  \/ \E bound \in SUBSET Names, strict \in BOOLEAN :
       \E values \in [bound -> Values], declared \in (IF strict THEN SUBSET Names ELSE {{}}) :
         ApplyTemplate(declared, values, strict)

Spec == Init /\ [][Next]_vars
-----------------------------------------------------------------------------
TypeOK ==
  /\ outcome \in {"none", "loaded", "applied", "refused"}
  /\ response.MissingVariables \subseteq ToSet(ExtractVariables(template))

Plain(values) == \A v \in DOMAIN values : ToSet(values[v]) \cap Braces = {}

(* Every placeholder replaced by its value, all at once.                   *)
Substituted(t, values) ==
  LET piece(i) ==
        IF \E p \in Placeholders(t) : p[1] = i /\ Name(t, p) \in DOMAIN values
        THEN values[Name(t, CHOOSE p \in Placeholders(t) : p[1] = i)]
        ELSE IF \E p \in Placeholders(t) : p[1] < i /\ i <= p[2] /\ Name(t, p) \in DOMAIN values
        THEN <<>>
        ELSE <<t[i]>>
  IN FlattenSeq([i \in 1 .. Len(t) |-> piece(i)])

(* A valid template whose values hold no braces: replacing one variable    *)
(* after the other is replacing all at once.                               *)
ReplacesAtOnce ==
  outcome = "applied" /\ ValidateSimpleTemplate(template) /\ Plain(request.values)
    => response.Content = Substituted(template, request.values)

(* A valid template applied in strict mode leaves no brace behind: no      *)
(* placeholder is forgotten, and none is put together from pieces.         *)
StrictLeavesNoBraces ==
  outcome = "applied" /\ request.strict /\ ValidateSimpleTemplate(template) /\ Plain(request.values)
    => ToSet(response.Content) \cap Braces = {}
=============================================================================
