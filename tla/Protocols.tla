------------------------------ MODULE Protocols ------------------------------
(***************************************************************************)
(* internal/protocol: the client protocols of the gateway and their        *)
(* translation to and from OpenAI's chat format, the gateway's own.        *)
(*                                                                         *)
(* A text is a sequence of words and a content a sequence of typed blocks, *)
(* a plain string being one block of text.  One record stands for the      *)
(* requests of all protocols: a protocol without a system field has none,  *)
(* and max, temp and topP that are not given are 0 and FALSE.  A response  *)
(* has one choice.  Identifiers, and the model's name in responses, are    *)
(* left out.                                                               *)
(***************************************************************************)
EXTENDS Integers, Sequences, SequencesExt

Block(type, text) == [type |-> type, text |-> text]

StringContent(text) == <<Block("text", text)>>

(* Content.String, extractAnthroContent and the loops over parts: the      *)
(* blocks of text, one after the other.                                    *)
IsText(block) == block.type = "text"

String(content) ==
    FlattenSeq([i \in DOMAIN content |-> IF IsText(content[i]) THEN content[i].text ELSE <<>>])

Message(role, content) == [role |-> role, content |-> content]

-----------------------------------------------------------------------------
(* Requests to OpenAI's format *)

SystemMessages(texts) == [i \in DOMAIN texts |-> Message("system", StringContent(texts[i]))]

NotEmpty(texts) ==
    FlattenSeq([i \in DOMAIN texts |-> IF texts[i] = <<>> THEN <<>> ELSE <<texts[i]>>])

anthropicMessagesToOpenAI(r) ==
    SystemMessages(NotEmpty(r.system))
    \o [i \in DOMAIN r.messages |->
            Message(r.messages[i].role, StringContent(String(r.messages[i].content)))]

geminiMessagesToOpenAI(r) ==
    SystemMessages(r.system)
    \o [i \in DOMAIN r.messages |->
            Message(IF r.messages[i].role = "model" THEN "assistant" ELSE "user",
                    StringContent(String(r.messages[i].content)))]

bedrockMessagesToOpenAI(r) ==
    SystemMessages(r.system)
    \o [i \in DOMAIN r.messages |->
            Message(IF r.messages[i].role = "assistant" THEN "assistant" ELSE "user",
                    StringContent(String(r.messages[i].content)))]

(* An input of items is read as messages, contents as they are: whatever   *)
(* reads as items also reads as messages, so the branch that would join    *)
(* the blocks of type input_text is never taken.                           *)
parseOAIRespInput(r) ==
    IF r.input = "string" THEN <<Message("user", r.messages[1].content)>> ELSE r.messages

DefaultModel(model) == IF model = "" THEN "auto" ELSE model

OpenAIBody(r, model, messages, stream) ==
    [model |-> model, system |-> <<>>, messages |-> messages, stream |-> stream,
     max |-> r.max, temp |-> r.temp, topP |-> r.topP]

AnthropicRequestToOpenAI(r) ==
    OpenAIBody(r, DefaultModel(r.model), anthropicMessagesToOpenAI(r), r.stream)

(* Gemini and Bedrock carry no stream flag: the endpoint says it.          *)
GeminiRequestToOpenAI(r) == OpenAIBody(r, "auto", geminiMessagesToOpenAI(r), FALSE)

BedrockRequestToOpenAI(r) ==
    OpenAIBody(r, DefaultModel(r.model), bedrockMessagesToOpenAI(r), FALSE)

OpenAIResponsesRequestToOpenAI(r) ==
    OpenAIBody(r, DefaultModel(r.model),
               SystemMessages(NotEmpty(r.system)) \o parseOAIRespInput(r), r.stream)

-----------------------------------------------------------------------------
(* Responses from OpenAI's format *)

(* Usage that is absent is counted as none. *)
Reply(text, stop, in, out, total) ==
    [text |-> text, stop |-> stop, in |-> in, out |-> out, total |-> total]

AnthropicStop(finish) ==
    CASE finish = "stop" -> "end_turn"
      [] finish = "length" -> "max_tokens"
      [] OTHER -> finish

OpenAIResponseToAnthropic(r) ==
    Reply(r.text, AnthropicStop(r.stop), r.in, r.out, r.in + r.out)

GeminiFinish(finish) ==
    CASE finish = "length" -> "MAX_TOKENS"
      [] finish = "content_filter" -> "SAFETY"
      [] OTHER -> "STOP"

OpenAIResponseToGemini(r) == [r EXCEPT !.stop = GeminiFinish(r.stop)]

BedrockStop(finish) ==
    CASE finish = "length" -> "max_tokens"
      [] finish = "content_filter" -> "content_filtered"
      [] OTHER -> "end_turn"

OpenAIResponseToBedrock(r) == [r EXCEPT !.stop = BedrockStop(r.stop)]

(* Every response is "completed", whatever the finish reason.              *)
OpenAIResponseToOpenAIResponses(r) == [r EXCEPT !.stop = "completed"]

-----------------------------------------------------------------------------
(* Streams.  An event is a chunk of OpenAI's format (type "chunk"; "usage" *)
(* if it has no choices), an event of another protocol, or the end mark.   *)

NoStop == ""         \* no reason yet

Event(type, text, stop) == [type |-> type, role |-> FALSE, text |-> text, stop |-> stop]
Mark(type) == Event(type, <<>>, NoStop)

Chunk(text, finish) == Event("chunk", text, finish)
RoleChunk == [Mark("chunk") EXCEPT !.role = TRUE]
Done == Mark("[DONE]")

(* Of Anthropic's events only text and the stop reason have a chunk.       *)
OpenAIFinish(stop) ==
    CASE stop = "max_tokens" -> "length"
      [] stop = "content_filter" -> "content_filter"
      [] OTHER -> "stop"

AnthropicSSEToOpenAIStreamChunk_TextOnly(event) ==            \* faulty variant
    IF event.type = "content_block_delta" THEN <<Chunk(event.text, NoStop)>> ELSE <<>>
AnthropicSSEToOpenAIStreamChunk(event) ==
    CASE event.type = "content_block_delta" /\ event.text # <<>> -> <<Chunk(event.text, NoStop)>>
      [] event.type = "message_delta" /\ event.stop # NoStop -> <<Chunk(<<>>, OpenAIFinish(event.stop))>>
      [] OTHER -> <<>>

MessageStart(chunk) ==
    IF chunk.role THEN <<Mark("message_start"), Mark("content_block_start")>> ELSE <<>>

BlockDelta(chunk) ==
    IF chunk.text # <<>> THEN <<Event("content_block_delta", chunk.text, NoStop)>> ELSE <<>>

MessageStop(chunk) ==
    IF chunk.stop = NoStop THEN <<>>
    ELSE <<Mark("content_block_stop"), Event("message_delta", <<>>, AnthropicStop(chunk.stop)),
           Mark("message_stop")>>

OpenAIStreamChunkToAnthropicSSE(chunk) ==
    IF chunk.type # "chunk" THEN <<>>
    ELSE MessageStart(chunk) \o BlockDelta(chunk) \o MessageStop(chunk)

(* Unlike the response, a stream has no finish reason for filtered content.*)
GeminiStreamFinish(finish) ==
    CASE finish = NoStop -> NoStop
      [] finish = "length" -> "MAX_TOKENS"
      [] OTHER -> "STOP"

OpenAIStreamChunkToGeminiSSE(chunk) ==
    IF chunk.type # "chunk" THEN <<>>
    ELSE <<Event("candidate", chunk.text, GeminiStreamFinish(chunk.stop))>>
=============================================================================
