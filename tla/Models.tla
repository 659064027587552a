-------------------------------- MODULE Models --------------------------------
(***************************************************************************)
(* The models of model/: Gemini (google_llm.go) and Claude (anthropic.go). *)
(* A request is built and sent, and the answer comes at once or as a       *)
(* stream, which Gemini's is passed on with the texts collected, and of    *)
(* Claude's every event passes on all that was received so far.  The       *)
(* response goes into the history that is sent the next time.              *)
(*                                                                         *)
(* A text is the sequence of the chunks it arrived in, which are numbered. *)
(* Parts of a content are kinds: "call" is a function call and "nameless"  *)
(* one without name; "result" has a text as result, "number" something     *)
(* else and "opaque" none.                                                 *)
(***************************************************************************)
EXTENDS Naturals, Sequences, SequencesExt, FiniteSets

CONSTANTS Kinds,      \* kinds of the parts that others than the model add
          MaxTurns,   \* bound on the requests
          MaxChunks,  \* bound on the chunks of text of a response
          MaxEvents   \* bound on the events of a stream

VARIABLES
  model,     \* "gemini" or "claude"
  history,   \* Contents: sequence of [role, parts]
  sent,      \* the messages of the request that is answered
  phase,     \* "new", "idle", "stream", "finished", "failed", "stopped" or "panicked"
  message,   \* Claude: blocks received, Gemini: the text not aggregated yet
  received,  \* history: number of chunks of text of this stream
  finish,    \* why the response finished, or that a block is open
  yielded    \* what the consumer got of this stream

vars == <<model, history, sent, phase, message, received, finish, yielded>>

Content(role, parts) == [role |-> role, parts |-> parts]
Part(kind, text) == [kind |-> kind, text |-> text]

(* Each model is configured by the environment: an API key, or a project   *)
(* with a location and credentials.                                        *)
Environments == SUBSET {"key", "project", "location", "credentials"}
GeminiStarts(env) ==
  "key" \in env \/ ({"project", "location"} \subseteq env => "credentials" \in env)
ClaudeStarts(mode, env) == mode = "vertex" => {"project", "location"} \subseteq env

Init ==
  /\ model \in {"gemini", "claude"}
  /\ history = <<>>
  /\ sent = <<>>
  /\ phase = "new"
  /\ message = <<>>
  /\ received = 0
  /\ finish = "none"
  /\ yielded = <<>>

NewGemini(env) ==
  /\ phase = "new" /\ model = "gemini"
  /\ phase' \in (IF GeminiStarts(env) THEN {"idle"} ELSE {}) \cup {"failed"}
  /\ UNCHANGED <<model, history, sent, message, received, finish, yielded>>

NewClaude(mode, env) ==
  /\ phase = "new" /\ model = "claude"
  /\ phase' = IF ClaudeStarts(mode, env) THEN "idle" ELSE "failed"
  /\ UNCHANGED <<model, history, sent, message, received, finish, yielded>>
-----------------------------------------------------------------------------
(* Building the request.                                                   *)

AppendContent(role, kind) ==
  /\ phase = "idle"
  /\ Len(history) < 2 * MaxTurns - 1
  /\ history # <<>> => role = "user" /\ Last(history).role \in {"model", "assistant"}
  /\ history' = Append(history, Content(role, <<Part(kind, <<0>>)>>))
  /\ UNCHANGED <<model, sent, phase, message, received, finish, yielded>>

(* Gemini's last content has to be the user's.                             *)
appendUserContent(contents) ==
  IF contents = <<>> \/ Last(contents).role # "user"
  THEN Append(contents, Content("user", <<Part("request", <<>>)>>))
  ELSE contents

toClaudeRole(role) == IF role \in {"model", "assistant"} THEN "assistant" ELSE "user"

(* The parts that can be sent, and as which block: a call only without a   *)
(* name, for the test of the name is the wrong way round.                  *)
Block == [text |-> "text", code |-> "text", output |-> "text",
          nameless |-> "tool_use", result |-> "tool_result", image |-> "image"]

partToMessageBlock(part) ==
  IF part.kind \in DOMAIN Block \ {"image"} THEN <<Part(Block[part.kind], part.text)>> ELSE <<>>

(* Images, and parts that cannot be sent, are left out; a content of the   *)
(* system becomes an empty message.                                        *)
contentToMessageParam(content) ==
  IF content.role = "system" THEN [role |-> "", blocks |-> <<>>]
  ELSE [role |-> toClaudeRole(content.role),
        blocks |-> FlattenSeq([i \in DOMAIN content.parts |-> partToMessageBlock(content.parts[i])])]

Request ==
  IF model = "gemini" THEN appendUserContent(history)
  ELSE [i \in DOMAIN history |-> contentToMessageParam(history[i])]

(* A result that is not a text is asserted to be one.                      *)
Panics ==
  /\ model = "claude"
  /\ \E i \in DOMAIN history : history[i].role # "system" /\ \E j \in DOMAIN history[i].parts :
       history[i].parts[j].kind = "number"
-----------------------------------------------------------------------------
(* Blocks of a message that cannot be converted are left out: that of a    *)
(* tool call always, whose arguments are read into a nil map.              *)
contentBlockToPart(block) == IF block.kind = "text" THEN <<block>> ELSE <<>>

messageToResponse(blocks) ==
  Content("model", FlattenSeq([i \in DOMAIN blocks |-> contentBlockToPart(blocks[i])]))

Turns == Cardinality({i \in DOMAIN history : history[i].role \in {"model", "assistant"}})

GeminiAnswer == Append(appendUserContent(history), Content("model", <<Part("text", <<1>>)>>))

(* The answer at once; the request keeps what Gemini had to add to it.     *)
GenerateContent ==
  /\ phase = "idle"
  /\ Turns < MaxTurns
  /\ IF Panics THEN phase' = "panicked" /\ UNCHANGED history
     ELSE /\ \/ history' = IF model = "gemini" THEN appendUserContent(history) ELSE history
             \/ \E kinds \in {<<"text">>, <<"text", "tool_use">>, <<"thinking", "text">>} :
                  LET blocks == [i \in DOMAIN kinds |-> Part(kinds[i], <<i>>)]
                  IN history' = IF model = "gemini"
                                THEN GeminiAnswer
                                ELSE Append(history, messageToResponse(blocks))
          /\ UNCHANGED phase
  /\ UNCHANGED <<model, sent, message, received, finish, yielded>>

StreamGenerateContent ==
  /\ phase = "idle"
  /\ Turns < MaxTurns
  /\ IF Panics THEN phase' = "panicked" /\ UNCHANGED sent
     ELSE /\ sent' = Request
          /\ phase' = "stream"
  /\ UNCHANGED <<model, history, message, received, finish, yielded>>

(* What is yielded, as texts of its parts; the consumer may have enough.   *)
Item(kind, texts) == [kind |-> kind, texts |-> texts]
Yield(items) ==
  \/ yielded' = yielded \o items /\ UNCHANGED phase
  \/ \E n \in 1 .. Len(items) :
       /\ yielded' = yielded \o SubSeq(items, 1, n)
       /\ phase' = "stopped"

aggregate == IF message = <<>> THEN <<>> ELSE <<Item("aggregate", <<message>>)>>

(* A chunk of text is passed on and kept; anything else but sound brings   *)
(* the text kept so far before it.  A chunk has one part: in the code the  *)
(* first of several decides, and the others are passed on with it.         *)
GeminiChunk(kind, reason) ==
  /\ phase = "stream" /\ model = "gemini"
  /\ Len(yielded) < MaxEvents
  /\ finish' = reason
  /\ IF kind = "text"
     THEN /\ received < MaxChunks
          /\ received' = received + 1
          /\ message' = Append(message, received + 1)
          /\ Yield(<<Item("partial", <<<<received + 1>>>>)>>)
     ELSE /\ message' = IF kind = "audio" THEN message ELSE <<>>
          /\ Yield((IF kind = "audio" THEN <<>> ELSE aggregate) \o <<Item(kind, <<>>)>>)
          /\ UNCHANGED received
  /\ UNCHANGED <<model, history, sent>>

(* The text that is left is passed on when the response is complete.       *)
GeminiEnd ==
  /\ phase = "stream" /\ model = "gemini"
  /\ phase' = "finished"
  /\ yielded' = IF finish = "STOP" THEN yielded \o aggregate ELSE yielded
  /\ message' = IF finish = "STOP" THEN <<>> ELSE message
  /\ UNCHANGED <<model, history, sent, received, finish>>

(* An error is passed on and ends the stream; a context that has ended     *)
(* ends Gemini's without a word, and Claude's when it is found ended       *)
(* before the first event.                                                 *)
StreamFails ==
  /\ phase = "stream"
  /\ phase' = "failed"
  /\ \/ yielded' = Append(yielded, Item("error", <<>>))
     \/ (model = "gemini" \/ message = <<>>) /\ UNCHANGED yielded
  /\ UNCHANGED <<model, history, sent, message, received, finish>>

Texts(blocks) ==
  FlattenSeq([i \in DOMAIN blocks |->
    IF blocks[i].text = <<>> THEN <<>> ELSE <<blocks[i].text>>])

(* What each event but the last passes on: the chunk it brings, then the   *)
(* whole text of every block.  A block that is not text is an error, and a *)
(* consumer that wants more after it meets a nil part.                     *)
Pass(blocks, chunk) ==
  IF \E i \in DOMAIN blocks : contentBlockToPart(blocks[i]) = <<>>
  THEN /\ yielded' = Append(yielded, Item("error", <<>>))
       /\ phase' \in {"stopped", "panicked"}
  ELSE IF chunk \o Texts(blocks) = <<>> THEN UNCHANGED <<yielded, phase>>
  ELSE Yield(<<Item(IF Texts(blocks) = <<>> THEN "partial" ELSE "whole", chunk \o Texts(blocks))>>)

ClaudeBlock(kind) ==
  /\ phase = "stream" /\ model = "claude" /\ finish = "none"
  /\ Len(message) < 2
  /\ message' = Append(message, Part(kind, <<>>))
  /\ finish' = "block"
  /\ Pass(message', <<>>)
  /\ UNCHANGED <<model, history, sent, received>>

ClaudeDelta ==
  /\ phase = "stream" /\ model = "claude" /\ finish = "block"
  /\ received < MaxChunks
  /\ received' = received + 1
  /\ message' = [message EXCEPT ![Len(message)].text = Append(@, received + 1)]
  /\ Pass(message', <<<<received + 1>>>>)
  /\ UNCHANGED <<model, history, sent, finish>>

ClaudeBlockStop ==
  /\ phase = "stream" /\ model = "claude" /\ finish = "block"
  /\ finish' = "none"
  /\ Pass(message, <<>>)
  /\ UNCHANGED <<model, history, sent, message, received>>

(* message_delta: the end of the turn is not passed on.                    *)
ClaudeStop(reason) ==
  /\ phase = "stream" /\ model = "claude" /\ finish = "none"
  /\ finish' = reason
  /\ IF reason = "end_turn" THEN phase' = "finished" /\ UNCHANGED yielded
     ELSE Pass(message, <<>>)
  /\ UNCHANGED <<model, history, sent, message, received>>

(* message_stop, for the other reasons.                                    *)
ClaudeEnd ==
  /\ phase = "stream" /\ model = "claude" /\ finish \notin {"none", "block"}
  /\ phase' = "finished"
  /\ yielded' = IF Texts(message) = <<>> THEN yielded
                ELSE Append(yielded, Item("whole", Texts(message)))
  /\ UNCHANGED <<model, history, sent, message, received, finish>>

(* The last response of the stream goes into the history.                  *)
Reply ==
  /\ phase \in {"finished", "stopped"}
  /\ phase' = "idle"
  /\ LET last == IF yielded = <<>> THEN <<>> ELSE Last(yielded).texts
     IN history' = IF last = <<>> THEN history
                   ELSE Append(history, Content(IF model = "claude" THEN "assistant" ELSE "model",
                                          [i \in DOMAIN last |-> Part("text", last[i])]))
  /\ sent' = <<>>
  /\ message' = <<>>
  /\ received' = 0
  /\ finish' = "none"
  /\ yielded' = <<>>
  /\ UNCHANGED model

Next ==
  \/ \E env \in Environments : NewGemini(env)
  \/ \E mode \in {"anthropic", "vertex", "bedrock"}, env \in Environments : NewClaude(mode, env)
  \/ \E role \in {"user", "system"}, kind \in Kinds : AppendContent(role, kind)
  \/ GenerateContent \/ StreamGenerateContent
  \/ \E kind \in {"text", "call", "audio", "failure"}, reason \in {"none", "STOP", "MAX_TOKENS"} :
       GeminiChunk(kind, reason)
  \/ GeminiEnd \/ StreamFails
  \/ \E kind \in {"text", "tool_use", "thinking"} : ClaudeBlock(kind)
  \/ ClaudeDelta \/ ClaudeBlockStop
  \/ \E reason \in {"end_turn", "tool_use", "max_tokens"} : ClaudeStop(reason)
  \/ ClaudeEnd \/ Reply

Spec == Init /\ [][Next]_vars
-----------------------------------------------------------------------------
Text == Seq(Nat)
Parts == [kind : Kinds \cup {"text", "request"}, text : Text]
Blocks == [kind : {"text", "tool_use", "thinking"}, text : Text]
Items == [kind : {"partial", "aggregate", "whole", "call", "audio", "failure", "error"},
          texts : Seq(Text)]

TypeOK ==
  /\ model \in {"gemini", "claude"}
  /\ phase \in {"new", "idle", "stream", "finished", "failed", "stopped", "panicked"}
  /\ history \in Seq([role : {"user", "system", "model", "assistant"}, parts : Seq(Parts)])
  /\ message \in IF model = "gemini" THEN Text ELSE Seq(Blocks)
  /\ received \in 0 .. MaxChunks
  /\ finish \in {"none", "block", "STOP", "MAX_TOKENS", "end_turn", "tool_use", "max_tokens"}
  /\ yielded \in Seq(Items)
  /\ Turns <= MaxTurns

(* The texts that were passed on as collected, one behind the other.       *)
Aggregates ==
  FlattenSeq([i \in DOMAIN yielded |->
    IF yielded[i].kind = "aggregate" THEN yielded[i].texts[1] ELSE <<>>])

(* google_llm.go: the texts Gemini collects are what its chunks brought,   *)
(* each once and in order; all of it when the response is complete, and    *)
(* before whatever else than sound is passed on.                           *)
TextIsCollectedOnce ==
  model = "gemini" =>
    /\ phase = "stream" => Aggregates \o message = [i \in 1 .. received |-> i]
    /\ phase = "finished" /\ finish = "STOP" => Aggregates = [i \in 1 .. received |-> i]
    /\ \A i, j \in DOMAIN yielded :
         i < j /\ yielded[i].kind = "partial" /\ yielded[j].kind \in {"call", "failure"} =>
           \E k \in i + 1 .. j : yielded[k].kind = "aggregate"

(* anthropic.go: the last response of a stream Claude finished has all the *)
(* text, although the event that ends the turn is not passed on.           *)
LastResponseIsWhole ==
  model = "claude" /\ phase = "finished" /\ received > 0 =>
    Last(yielded).texts = Texts(message)

(* What a model answered is sent back as the model's, with all its texts.  *)
AnswersAreSentBack ==
  phase = "stream" => \A i \in DOMAIN history :
    history[i].role \in {"model", "assistant"} =>
      IF model = "gemini" THEN sent[i] = history[i]
      ELSE /\ sent[i].role = "assistant"
           /\ [j \in DOMAIN sent[i].blocks |-> sent[i].blocks[j].text]
                = [j \in DOMAIN history[i].parts |-> history[i].parts[j].text]
=============================================================================
