------------------------------- MODULE Adapters -------------------------------
(***************************************************************************)
(* internal/provider: the formats of the vendors and their translation     *)
(* from and to OpenAI's format.  Requests and responses are the records of *)
(* Protocols; a request is what reaches the vendor, in body or URL.        *)
(***************************************************************************)
EXTENDS Protocols

CONSTANT DefaultMax     \* max_tokens for Anthropic when none is given: 4096

Formats == {"openai-compatible", "openai-responses", "anthropic", "gemini", "bedrock"}

rewriteModel(body, model) == [body EXCEPT !.model = model]

IsSystem(message) == message.role = "system"

Turns(messages) ==
    FlattenSeq([i \in DOMAIN messages |->
                   IF IsSystem(messages[i]) THEN <<>> ELSE <<messages[i]>>])

SystemTexts(body) ==
    FlattenSeq([i \in DOMAIN body.messages |->
                   IF IsSystem(body.messages[i]) THEN <<String(body.messages[i].content)>>
                   ELSE <<>>])

LastOnly(texts) == IF texts = <<>> THEN <<>> ELSE <<Last(texts)>>

Plain(message) == Message(message.role, StringContent(String(message.content)))

-----------------------------------------------------------------------------
(* Requests *)

(* System messages stay among the messages.                                *)
openAIToAnthropicRequest(body) ==
    [body EXCEPT !.messages = [i \in DOMAIN body.messages |-> Plain(body.messages[i])],
                 !.max = IF body.max > 0 THEN body.max ELSE DefaultMax]

(* The last system message replaces the others; topP is written into the   *)
(* settings only if temperature has created them.                          *)
openAIToGeminiRequest(body) ==
    LET turns == Turns(body.messages)
        Role(m) == IF m.role = "assistant" THEN "model" ELSE m.role
    IN  [body EXCEPT !.system = LastOnly(SystemTexts(body)),
                     !.messages = [i \in DOMAIN turns |->
                                       [Plain(turns[i]) EXCEPT !.role = Role(turns[i])]],
                     !.topP = body.topP /\ body.temp]

openAIToBedrockRequest_TurnsOnly(body) ==                     \* faulty variant
    LET turns == Turns(body.messages)
    IN  [body EXCEPT !.messages = [i \in DOMAIN turns |-> Plain(turns[i])]]
openAIToBedrockRequest(body) ==
    LET turns == Turns(body.messages)
    IN  [body EXCEPT !.system = SystemTexts(body),
                     !.messages = [i \in DOMAIN turns |-> Plain(turns[i])],
                     !.stream = FALSE]

openAIToResponsesRequest(body) ==
    LET turns == Turns(body.messages)
    IN  [body EXCEPT !.system = NotEmpty(LastOnly(SystemTexts(body))),
                     !.messages = [i \in DOMAIN turns |-> Plain(turns[i])]]

(* What each adapter sends.  Gemini and Bedrock name the model in the URL, *)
(* Gemini asks for a stream there; for Responses the model is put in place *)
(* only before a stream.                                                   *)
ForwardRequest(format, body, model, streaming) ==
    CASE format = "openai-compatible" -> rewriteModel(body, model)
      [] format = "anthropic" -> openAIToAnthropicRequest(rewriteModel(body, model))
      [] format = "gemini" ->
            [rewriteModel(openAIToGeminiRequest(body), model) EXCEPT !.stream = streaming]
      [] format = "bedrock" -> rewriteModel(openAIToBedrockRequest(body), model)
      [] format = "openai-responses" ->
            openAIToResponsesRequest(IF streaming THEN rewriteModel(body, model) ELSE body)

-----------------------------------------------------------------------------
(* Responses *)

anthropicToOpenAIResponse_AlwaysStop(r) ==                    \* faulty variant
    Reply(String(r.content), "stop", r.in, r.out, r.in + r.out)
anthropicToOpenAIResponse(r) ==
    Reply(String(r.content), OpenAIFinish(r.stop), r.in, r.out, r.in + r.out)

(* Every part's text is taken, whatever the part is: a thought as well.    *)
AllText(content) == FlattenSeq([i \in DOMAIN content |-> content[i].text])

geminiToOpenAIResponse(r) ==
    Reply(AllText(r.content),
          CASE r.stop = "MAX_TOKENS" -> "length"
            [] r.stop = "SAFETY" -> "content_filter"
            [] OTHER -> "stop",
          r.in, r.out, r.total)

bedrockToOpenAIResponse(r) ==
    Reply(String(r.content),
          CASE r.stop = "max_tokens" -> "length"
            [] r.stop = "content_filtered" -> "content_filter"
            [] OTHER -> "stop",
          r.in, r.out, r.total)

(* Always a stop; the usage keeps the vendor's names, of which only the    *)
(* total is one of OpenAI's.                                               *)
responsesToOpenAIResponse(r) == Reply(String(r.content), "stop", 0, 0, r.total)

(* It reads usage into a map of numbers: usage that holds an object, like  *)
(* input_tokens_details, is an error and there is no reply at all.  The    *)
(* other formats have a record of the fields they want.                    *)
Parses(format, r) == format = "openai-responses" => ~r.detailed

OpenAIReply(format, r) ==
    CASE format = "openai-compatible" -> Reply(String(r.content), r.stop, r.in, r.out, r.total)
      [] format = "anthropic" -> anthropicToOpenAIResponse(r)
      [] format = "gemini" -> geminiToOpenAIResponse(r)
      [] format = "bedrock" -> bedrockToOpenAIResponse(r)
      [] format = "openai-responses" -> responsesToOpenAIResponse(r)

-----------------------------------------------------------------------------
(* Streams: what an adapter writes to the client for an event it reads.    *)
(* Only Anthropic's is translated, the others are copied.                  *)

Translated(event) ==
    IF event.type = "message_start" THEN <<RoleChunk>>
    ELSE AnthropicSSEToOpenAIStreamChunk(event)

CopiedTo(format, event) == IF format = "anthropic" THEN Translated(event) ELSE <<event>>

(* Whichever way the vendor's stream is over, Anthropic's adapter ends the *)
(* client's; the others have copied the end mark if there was one.         *)
WrittenAtEnd(format) == IF format = "anthropic" THEN <<Done>> ELSE <<>>
=============================================================================
