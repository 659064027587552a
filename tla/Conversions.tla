---------------------------- MODULE Conversions ----------------------------
(***************************************************************************)
(* types/aiconv: conversion of the messages of the genai interface to the  *)
(* messages of the AI Platform API and back.                               *)
(*                                                                         *)
(* A conversion is an operator from a message to the set of its results:   *)
(* one result, or none when the code panics, so that the panic of a field  *)
(* is the panic of every message that holds it.  Messages are records; a   *)
(* nil pointer or map and an empty text are Nil, a slice is a sequence.    *)
(* An optional number is Nil, 0 or 1, an enumeration a set of names; the   *)
(* fields the code copies unread (names, texts, counts, indices) are not   *)
(* represented one by one: "rest" stands for them.                         *)
(***************************************************************************)
EXTENDS Integers, Sequences, FiniteSets
CONSTANT Nil
VARIABLES
    original,   \* the message, with its kind
    current,    \* what the conversions have made of it
    first,      \* what was read back the first time
    side,       \* "genai", "platform", or "panic"
    trips       \* times it was sent and read back

messageVars == <<original, current, first, side, trips>>

-----------------------------------------------------------------------------
(* How fields are converted.                                               *)

Safely(Convert(_), x) == IF x = Nil THEN {Nil} ELSE Convert(x)

Each(Convert(_), s) ==
    {r \in [1..Len(s) -> UNION {Safely(Convert, s[i]) : i \in 1..Len(s)}] :
        \A i \in 1..Len(s) : r[i] \in Safely(Convert, s[i])}

\* A pointer to a number becomes the number, 0 when nil; 0 becomes nil.
Number(p) == IF p = Nil THEN 0 ELSE p
Pointer(n) == IF n = 0 THEN Nil ELSE n

\* structpb.NewStruct and AsMap: a map that holds Go integers comes back with
\* floating point numbers, and one that holds any other type is refused.
ToStruct(map) ==
    CASE map = Nil -> {Nil}
      [] map \in {"integers", "floats"} -> {"numbers"}
      [] map = "texts" -> {"texts"}
      [] OTHER -> {}
\* A variation: numbers are decoded to a type of their own, which is refused.
FromStructNumber(struct) == {IF struct = "numbers" THEN "other" ELSE struct}
FromStruct(struct) == {IF struct = "numbers" THEN "floats" ELSE struct}

-----------------------------------------------------------------------------
(* Enumerations: both directions know the same names and panic on others.  *)

Type(t) == {t} \cap {"unspecified", "string", "number", "integer", "boolean", "array", "object"}
HarmCategory(c) ==
    {c} \cap {"unspecified", "harassment", "hate", "sexual", "dangerous"}
HarmBlockThreshold(t) == {t} \cap {"unspecified", "low", "medium", "high", "none"}
FinishReason(r) ==
    {r} \cap {"unspecified", "stop", "max_tokens", "safety", "recitation", "other"}
HarmProbability(p) == {p} \cap {"unspecified", "negligible", "low", "medium", "high"}
BlockedReason(r) == {r} \cap {"unspecified", "safety", "other"}
Modality(m) == {m} \cap {"unspecified", "text", "image", "audio", "video"}
URLRetrievalStatus(s) == {s} \cap {"unspecified", "success", "error"}

-----------------------------------------------------------------------------
(* Contents, parts and schemas.                                            *)

ToFunctionCall(fc) == {[name |-> fc.name, args |-> a] : a \in ToStruct(fc.args)}
FromFunctionCall(fc) ==
    {[id |-> Nil, name |-> fc.name, args |-> a] : a \in FromStruct(fc.args)}

ToFunctionResponse(fr) ==
    {[name |-> fr.name, response |-> r] : r \in ToStruct(fr.response)}
FromFunctionResponse(fr) ==
    {[id |-> Nil, name |-> fr.name, response |-> r] : r \in FromStruct(fr.response)}

\* A zero offset is left out of the message and read back as zero.
ToVideoMetadata(vm) == {[start |-> Pointer(vm.start), end |-> Pointer(vm.end)]}
FromVideoMetadata(vm) == {[start |-> Number(vm.start), end |-> Number(vm.end)]}

Datas == <<"text", "inlineData", "fileData", "functionCall", "functionResponse">>
EmptyPart == [text |-> Nil, inlineData |-> Nil, fileData |-> Nil, functionCall |-> Nil,
              functionResponse |-> Nil, videoMetadata |-> Nil]

ToData(d, x) == CASE d = "functionCall" -> ToFunctionCall(x)
                  [] d = "functionResponse" -> ToFunctionResponse(x)
                  [] OTHER -> {x}
FromData(d, x) == CASE d = "functionCall" -> FromFunctionCall(x)
                    [] d = "functionResponse" -> FromFunctionResponse(x)
                    [] OTHER -> {x}

\* A part is sent as the first datum it holds; its video metadata only when it
\* holds none, and nothing else of it.
ToPart(p) ==
    LET held == {i \in 1..Len(Datas) : p[Datas[i]] # Nil}
        d == Datas[CHOOSE i \in held : \A j \in held : i <= j]
    IN  CASE held # {} ->
               {[data |-> d, value |-> v, metadata |-> Nil] : v \in ToData(d, p[d])}
          [] held = {} /\ p.videoMetadata # Nil ->
               {[data |-> Nil, value |-> Nil, metadata |-> m] :
                   m \in ToVideoMetadata(p.videoMetadata)}
          [] OTHER -> {}
FromPart(q) ==
    IF q.data = Nil THEN {}
    ELSE {[EmptyPart EXCEPT ![q.data] = v, !.videoMetadata = m] :
             v \in FromData(q.data, q.value), m \in Safely(FromVideoMetadata, q.metadata)}

ToContent(c) == {[role |-> c.role, parts |-> ps] : ps \in Each(ToPart, c.parts)}
FromContent(c) == {[role |-> c.role, parts |-> ps] : ps \in Each(FromPart, c.parts)}

RECURSIVE ToSchema(_), FromSchema(_)
ToSchema(s) ==
    {[type |-> t, rest |-> s.rest, nullable |-> s.nullable = TRUE, bound |-> Number(s.bound),
      items |-> i, properties |-> ps] :
        t \in Type(s.type), i \in Safely(ToSchema, s.items), ps \in Each(ToSchema, s.properties)}
FromSchema(s) ==
    {[type |-> t, rest |-> s.rest, nullable |-> s.nullable, bound |-> Pointer(s.bound),
      items |-> i, properties |-> ps] :
        t \in Type(s.type), i \in Safely(FromSchema, s.items), ps \in Each(FromSchema, s.properties)}

ToFunctionDeclaration(fd) ==
    {[rest |-> fd.rest, parameters |-> p] : p \in Safely(ToSchema, fd.parameters)}
FromFunctionDeclaration(fd) ==
    {[rest |-> fd.rest, parameters |-> p] : p \in Safely(FromSchema, fd.parameters)}

\* The other kinds of tool the package genai has are left out.
ToTool(t) ==
    {[declarations |-> ds, codeExecution |-> t.codeExecution, retrieval |-> t.retrieval] :
        ds \in Each(ToFunctionDeclaration, t.declarations)}
FromTool(t) ==
    {[declarations |-> ds, codeExecution |-> t.codeExecution, retrieval |-> t.retrieval,
      googleSearch |-> Nil] : ds \in Each(FromFunctionDeclaration, t.declarations)}

ToGenerationConfig(gc) ==
    {[rest |-> gc.rest, maxOutputTokens |-> Pointer(gc.maxOutputTokens), responseSchema |-> s] :
        s \in Safely(ToSchema, gc.responseSchema)}
FromGenerationConfig(gc) ==
    {[rest |-> gc.rest, maxOutputTokens |-> Number(gc.maxOutputTokens), responseSchema |-> s] :
        s \in Safely(FromSchema, gc.responseSchema)}

SafetySetting(ss) ==
    {[category |-> c, threshold |-> t] :
        c \in HarmCategory(ss.category), t \in HarmBlockThreshold(ss.threshold)}

-----------------------------------------------------------------------------
(* Responses.  Where the two directions read alike they are one operator.  *)

SafetyRating(sr) ==
    {[category |-> c, probability |-> p, rest |-> sr.rest] :
        c \in HarmCategory(sr.category), p \in HarmProbability(sr.probability)}
URLMetadata(um) ==
    {[rest |-> um.rest, status |-> s] : s \in URLRetrievalStatus(um.status)}
ModalityTokenCount(mtc) ==
    {[modality |-> m, rest |-> mtc.rest] : m \in Modality(mtc.modality)}
UsageMetadata(um) ==
    {[rest |-> um.rest, details |-> ds] : ds \in Each(ModalityTokenCount, um.details)}
PromptFeedback(pf) ==
    {[blockReason |-> r, safetyRatings |-> rs] :
        r \in BlockedReason(pf.blockReason), rs \in Each(SafetyRating, pf.safetyRatings)}
\* Their messages hold copied fields only; nil and empty slices come out alike.
CitationMetadata(cm) == {cm}
GroundingMetadata(gm) == {gm}
LogprobsResult(lr) == {lr}

\* The fields of a candidate whose two directions read alike.
Common(c) ==
    {[finishReason |-> r, safetyRatings |-> rs, citation |-> ci, grounding |-> g,
      logprobs |-> l, urls |-> us, rest |-> c.rest] :
        r \in FinishReason(c.finishReason), rs \in Each(SafetyRating, c.safetyRatings),
        ci \in Safely(CitationMetadata, c.citation),
        g \in Safely(GroundingMetadata, c.grounding), l \in Safely(LogprobsResult, c.logprobs),
        us \in Each(URLMetadata, c.urls)}
ToCandidate(c) ==
    {[content |-> x, common |-> r] : x \in Safely(ToContent, c.content), r \in Common(c.common)}
FromCandidate(c) ==
    {[content |-> x, common |-> r] : x \in Safely(FromContent, c.content), r \in Common(c.common)}

ToResponse(resp) ==
    {[candidates |-> cs, feedback |-> f, usage |-> u] :
        cs \in Each(ToCandidate, resp.candidates),
        f \in Safely(PromptFeedback, resp.feedback), u \in Safely(UsageMetadata, resp.usage)}
FromResponse(resp) ==
    {[candidates |-> cs, feedback |-> f, usage |-> u] :
        cs \in Each(FromCandidate, resp.candidates),
        f \in Safely(PromptFeedback, resp.feedback), u \in Safely(UsageMetadata, resp.usage)}

-----------------------------------------------------------------------------
(* A message of the program is sent and read back, or one of the model is  *)
(* read; and what was read is sent again, as the history of a conversation *)
(* is.                                                                     *)

To(k, x) == CASE k = "content" -> ToContent(x)
              [] k = "tool" -> ToTool(x)
              [] k = "config" -> ToGenerationConfig(x)
              [] k = "safety" -> SafetySetting(x)
              [] k = "response" -> ToResponse(x)
From(k, y) == CASE k = "content" -> FromContent(y)
                [] k = "tool" -> FromTool(y)
                [] k = "config" -> FromGenerationConfig(y)
                [] k = "safety" -> SafetySetting(y)
                [] k = "response" -> FromResponse(y)

Parts ==
    {[EmptyPart EXCEPT !.text = t, !.fileData = f, !.videoMetadata = v] :
        t \in {Nil, "t"}, f \in {Nil, "f"}, v \in {Nil, [start |-> 0, end |-> 1]}}
    \cup {[EmptyPart EXCEPT !.functionCall = [id |-> i, name |-> "n", args |-> a]] :
        i \in {Nil, "id"}, a \in {Nil, "texts", "integers", "floats", "other"}}
    \cup {[EmptyPart EXCEPT !.functionResponse = [id |-> i, name |-> "n", response |-> "texts"]] :
        i \in {Nil, "id"}}
Texts == {[role |-> "model", parts |-> <<[EmptyPart EXCEPT !.text = t]>>] : t \in {Nil, "t"}}
Leaves == [type : {"unset", "string", "array"}, rest : {"r"}, nullable : {Nil, TRUE, FALSE},
           bound : {Nil, 0, 1}, items : {Nil}, properties : {<<>>}]
Schemas == Leaves \cup
    {[type |-> "object", rest |-> "r", nullable |-> Nil, bound |-> 1, items |-> i,
      properties |-> <<l>>] : i \in {Nil} \cup Leaves, l \in Leaves}
Commons ==
    [finishReason : {"unset", "stop", "unexpected_tool_call"},
     safetyRatings : {<<>>, <<[category |-> "hate", probability |-> "low", rest |-> "r"]>>},
     citation : {Nil, "c"}, grounding : {"g"}, logprobs : {Nil},
     urls : {<<>>, <<[rest |-> "r", status |-> "success"]>>}, rest : {"r"}]

Messages ==
    [kind : {"content"}, body : [role : {"user"}, parts : {<<>>} \cup {<<p>> : p \in Parts}
                                   \cup {<<p, q>> : p \in Parts, q \in Parts}]]
    \cup [kind : {"tool"}, body : [declarations : {<<>>} \cup
        {<<[rest |-> "r", parameters |-> s]>> : s \in Schemas \cup {Nil}},
        codeExecution : {Nil, "on"}, retrieval : {Nil}, googleSearch : {Nil, "on"}]]
    \cup [kind : {"config"}, body : [rest : {"r"}, maxOutputTokens : {0, 1},
        responseSchema : Leaves \cup {Nil}]]
    \cup [kind : {"safety"}, body : [category : {"hate", "unset"}, threshold : {"low", "none"}]]
    \cup [kind : {"response"}, body : [
        candidates : {<<[content |-> x, common |-> c]>> : x \in Texts \cup {Nil}, c \in Commons},
        feedback : {Nil, [blockReason |-> "safety", safetyRatings |-> <<>>]},
        usage : {Nil, [rest |-> "r", details |-> <<[modality |-> "text", rest |-> "r"]>>]}]]

\* Messages that come from a model: a text may be empty there, a datum have
\* video metadata beside it, a part hold neither.
ModelParts ==
    LET data == [data : {"text"}, value : {Nil, "t"}] \cup [data : {"fileData"}, value : {"f"}]
                  \cup [data : {"functionCall"},
                        value : [name : {"n"}, args : {Nil, "texts", "numbers"}]]
                  \cup [data : {"functionResponse"}, value : [name : {"n"}, response : {"texts"}]]
                  \cup [data : {Nil}, value : {Nil}]
    IN  {[data |-> d.data, value |-> d.value, metadata |-> m] :
            d \in data, m \in {Nil, [start |-> Nil, end |-> 1]}}
ModelTexts ==
    {[role |-> "model", parts |-> <<q>>] : q \in {q \in ModelParts : q.data = "text"}}

Answers ==
    [kind : {"content"}, body : [role : {"model"}, parts : {<<>>} \cup {<<q>> : q \in ModelParts}
                                   \cup {<<q, r>> : q \in ModelParts, r \in ModelParts}]]
    \cup [kind : {"response"}, body : [
        candidates : {<<[content |-> x, common |-> c]>> : x \in ModelTexts \cup {Nil}, c \in Commons},
        feedback : {Nil, [blockReason |-> "safety", safetyRatings |-> <<>>]},
        usage : {Nil, [rest |-> "r", details |-> <<[modality |-> "text", rest |-> "r"]>>]}]]

Init == /\ \/ original \in Messages /\ side = "genai"
           \/ original \in Answers /\ side = "platform"
        /\ current = original.body /\ first = Nil
        /\ trips = 0

Move(results, there, n) ==
    /\ IF results = {} THEN side' = "panic" /\ UNCHANGED current
       ELSE side' = there /\ current' \in results
    /\ trips' = n /\ UNCHANGED original

ToAIPlatform ==
    /\ side = "genai" /\ trips < 2
    /\ Move(To(original.kind, current), "platform", trips)
    /\ UNCHANGED first

FromAIPlatform ==
    /\ side = "platform"
    /\ Move(From(original.kind, current), "genai", trips + 1)
    /\ first' = IF trips = 0 /\ side' = "genai" THEN current' ELSE first

Next == ToAIPlatform \/ FromAIPlatform

Spec == Init /\ [][Next]_messageVars

-----------------------------------------------------------------------------
TypeOK ==
    /\ original \in Messages \cup Answers
    /\ side \in {"genai", "platform", "panic"} /\ trips \in 0..2

\* The contents of a message that may come from a model, which are sequences of
\* parts, or Nil.
PartsOf(k, x) ==
    CASE k = "content" -> <<x.parts>>
      [] k = "response" -> [i \in 1..Len(x.candidates) |->
            IF x.candidates[i].content = Nil THEN <<>> ELSE x.candidates[i].content.parts]
      [] OTHER -> <<>>

\* The message with parts ps in the place of its own.
WithParts(k, x, ps) ==
    CASE k = "content" -> [x EXCEPT !.parts = ps[1]]
      [] k = "response" -> [x EXCEPT !.candidates = [i \in 1..Len(@) |->
            IF @[i].content = Nil THEN @[i] ELSE [@[i] EXCEPT !.content.parts = ps[i]]]]
      [] OTHER -> x

\* A part was read that holds no datum: only an empty text is read as one.
EmptyTextRead ==
    \E i \in DOMAIN PartsOf(original.kind, first) :
        \E j \in DOMAIN PartsOf(original.kind, first)[i] :
            \A d \in 1..Len(Datas) : PartsOf(original.kind, first)[i][j][Datas[d]] = Nil

\* aiconv.go: what was read is converted again without a panic, so that a history
\* made of read messages can be sent, but for the empty texts of a model; and
\* without any further loss, but for the video metadata beside a datum.
ReadBackIsStable ==
    /\ side = "panic" /\ first # Nil => EmptyTextRead
    /\ side = "genai" /\ trips = 2 =>
         LET ps == PartsOf(original.kind, first)
             plain == [i \in DOMAIN ps |-> [j \in DOMAIN ps[i] |->
                        [ps[i][j] EXCEPT !.videoMetadata = Nil]]]
         IN  ~EmptyTextRead /\ current = WithParts(original.kind, first, plain)

\* aiconv.go: a response that comes back, or from the model, differs from the one
\* sent in its contents at most: no rating, citation, reason or count is lost on
\* the way.
ResponsesComeBack ==
    side = "genai" /\ original.kind = "response" =>
        /\ current.feedback = original.body.feedback /\ current.usage = original.body.usage
        /\ [i \in 1..Len(current.candidates) |-> current.candidates[i].common]
             = [i \in 1..Len(original.body.candidates) |-> original.body.candidates[i].common]
=============================================================================
