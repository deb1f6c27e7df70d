-------------------------------- MODULE Relay --------------------------------
(***************************************************************************)
(* One request through the gateway: a client's protocol in, a vendor's     *)
(* format out, and the answer back, streamed or whole.  api.Handler,       *)
(* api.ProtocolHandler, proxy.Forwarder and the provider adapters.         *)
(*                                                                         *)
(* Which backend the router takes and whether it retries is its own module *)
(* (Router); here any backend not yet tried may be taken, or none, and the *)
(* router may give up after any failure.  ProtocolHandler.handleStream has *)
(* a loop of its own and posts to the backend without an adapter.          *)
(*                                                                         *)
(* Clients and vendors are external: they speak their protocols correctly, *)
(* but a vendor's answer may fail or break off and a client may leave.     *)
(***************************************************************************)
EXTENDS Adapters, FiniteSets

CONSTANTS
    Backends,
    FormatChoices,  \* the assignments of formats to backends examined
    Conversations,  \* what clients say (bound)
    Words,          \* the text vendors answer
    Thought,        \* what they think before
    Reasons,        \* why they stop: "end", "length", "filter"
    MaxRetries,     \* 3 in handleStream, router's maxRetries elsewhere
    NoRequest       \* nothing was sent yet

Protocols == {"chat", "responses", "anthropic", "gemini", "bedrock"}
Text == Seq(STRING)
Turn == [role : {"user", "assistant"}, text : Text]

(* What a client can say; absent settings are 0 and FALSE.                 *)
Conversation ==
    [protocol : Protocols, stream : BOOLEAN, model : STRING, system : Seq(Text), turns : Seq(Turn),
     form : {"string", "items", "blocks"}, max : Nat, temp : BOOLEAN, topP : BOOLEAN]

(* A Responses input that is a string is one turn of the user.             *)
ASSUME RelayAssumption ==
    /\ FormatChoices \subseteq [Backends -> Formats]
    /\ Conversations \subseteq Conversation
    /\ \A c \in Conversations : c.protocol = "responses" /\ c.form = "string" =>
          Len(c.turns) = 1 /\ c.turns[1].role = "user"
    /\ Words \in Text \ {<<>>}
    /\ Thought \in Text
    /\ Reasons \subseteq {"end", "length", "filter"}
    /\ MaxRetries \in Nat /\ DefaultMax \in Nat

VARIABLES
    conv,       \* the conversation the client has sent
    format,     \* BackendModel.APIFormat
    pc,
    body,       \* Request.RawBody
    tried,
    heard,      \* the last request that reached a vendor
    script,     \* the events its answer streams
    pos,        \* the next of them
    client,     \* is it there, its status, the events or the reply it got
    blamed,     \* backends marked failed, invalid or cooling for this request
    counted,    \* tokens MarkSuccess has counted
    answer,     \* history: how each backend tried answered
    reason      \* history: why the last vendor stopped

vars == <<conv, format, pc, body, tried, heard, script, pos, client, blamed, counted, answer,
          reason>>

-----------------------------------------------------------------------------
(* The clients *)

Join(texts) == FlattenSeq(texts)
AtMostOne(texts) == IF texts = <<>> THEN <<>> ELSE <<Join(texts)>>

(* A content is a plain string, or blocks, one of which is no text.        *)
SaidAs(c, text) ==
    IF c.form = "blocks"
    THEN [i \in DOMAIN text |->
              Block(IF c.protocol = "responses" THEN "input_text" ELSE "text", <<text[i]>>)]
         \o <<Block("image", <<"pixels">>)>>
    ELSE StringContent(text)

SaidBy(c, role) == IF c.protocol = "gemini" /\ role = "assistant" THEN "model" ELSE role

(* The request: where the protocol allows one system text, they are one.   *)
Request(c) ==
    LET turns == [i \in DOMAIN c.turns |->
                     Message(SaidBy(c, c.turns[i].role), SaidAs(c, c.turns[i].text))]
    IN  [model |-> c.model, stream |-> c.stream, max |-> c.max, temp |-> c.temp, topP |-> c.topP,
         input |-> c.form,
         system |-> IF c.protocol = "chat" THEN <<>>
                    ELSE IF c.protocol = "bedrock" THEN c.system ELSE AtMostOne(c.system),
         messages |-> IF c.protocol = "chat" THEN SystemMessages(c.system) \o turns ELSE turns]

-----------------------------------------------------------------------------
(* The vendors *)

StopWord(speaker, why) ==
    CASE speaker \in {"chat", "openai-compatible"} ->
            (CASE why = "end" -> "stop" [] why = "length" -> "length"
               [] why = "filter" -> "content_filter")
      [] speaker = "anthropic" ->
            (CASE why = "end" -> "end_turn" [] why = "length" -> "max_tokens"
               [] why = "filter" -> "content_filter")
      [] speaker = "gemini" ->
            (CASE why = "end" -> "STOP" [] why = "length" -> "MAX_TOKENS"
               [] why = "filter" -> "SAFETY")
      [] speaker = "bedrock" ->
            (CASE why = "end" -> "end_turn" [] why = "length" -> "max_tokens"
               [] why = "filter" -> "content_filtered")
      [] OTHER -> "completed"

(* A model that thinks; detailed says whether the usage has parts.         *)
VendorReply(f, why, detailed) ==
    [content |-> <<Block("thinking", Thought), Block("text", Words)>>,
     stop |-> StopWord(f, why), in |-> 3, out |-> 2, total |-> 5, detailed |-> detailed]

(* The events of a stream that is not cut.  An OpenAI vendor may put role, *)
(* text and finish reason into chunks of their own, or into the first and  *)
(* the last chunk of text.                                                 *)
Deltas(type) == [i \in DOMAIN Words |-> Event(type, <<Words[i]>>, NoStop)]

OwnChunks(stop) == <<RoleChunk>> \o Deltas("chunk") \o <<Chunk(<<>>, stop)>>

SharedChunks(stop) ==
    [i \in DOMAIN Words |->
        [Chunk(<<Words[i]>>, IF i = Len(Words) THEN stop ELSE NoStop) EXCEPT !.role = (i = 1)]]

Scripts(f, streamed, why) ==
    LET stop == StopWord(f, why)
    IN  IF ~streamed THEN {<<Event("json", Words, stop)>>}
        ELSE IF f = "openai-compatible"
             THEN {chunks \o <<Mark("usage"), Done>> : chunks \in {OwnChunks(stop), SharedChunks(stop)}}
        ELSE IF f = "anthropic"
             THEN {<<Mark("message_start"), Mark("content_block_start")>>
                   \o Deltas("content_block_delta")
                   \o <<Mark("content_block_stop"), Event("message_delta", <<>>, stop),
                        Mark("message_stop")>>}
        ELSE {Deltas("vendor") \o <<Event("vendor", <<>>, stop)>>}

-----------------------------------------------------------------------------
(* State *)

Pc == {"accept", "choose", "call", "stream", "done", "panicked"}
Answers == {"refused", "client_error", "throttled", "server_error", "cancelled", "ok", "detailed"}
NoReply == Reply(<<>>, NoStop, 0, 0, 0)

Init ==
    /\ conv \in Conversations
    /\ format \in FormatChoices
    /\ pc = "accept"
    /\ body = NoRequest
    /\ tried = <<>>
    /\ heard = NoRequest
    /\ script = <<>>
    /\ pos = 1
    /\ client = [here |-> TRUE, status |-> "none", got |-> <<>>, reply |-> NoReply]
    /\ blamed = {}
    /\ counted = 0
    /\ answer = [b \in Backends |-> "none"]
    /\ reason = "none"

sel == Last(tried)

(* Handlers that stream; Responses and Bedrock have no stream translator.  *)
Streams == conv.stream /\ conv.protocol \in {"chat", "anthropic", "gemini"}

(* ProtocolHandler.handleStream, which goes past router and adapters.      *)
Direct == Streams /\ conv.protocol # "chat"

Finish(status) ==
    /\ pc' = "done"
    /\ client' = [client EXCEPT !.status = status]

-----------------------------------------------------------------------------
(* The handlers' entry *)

OpenAIRequest(protocol, r) ==
    CASE protocol = "chat" -> OpenAIBody(r, r.model, r.messages, r.stream)
      [] protocol = "responses" -> OpenAIResponsesRequestToOpenAI(r)
      [] protocol = "anthropic" -> AnthropicRequestToOpenAI(r)
      [] protocol = "gemini" -> GeminiRequestToOpenAI(r)
      [] protocol = "bedrock" -> BedrockRequestToOpenAI(r)

Accept ==
    /\ pc = "accept"
    /\ IF conv.protocol = "anthropic" /\ conv.turns = <<>>
       THEN Finish("bad_request") /\ body' = body
       ELSE /\ pc' = "choose"
            /\ body' = OpenAIRequest(conv.protocol, Request(conv))
            /\ client' = client
    /\ UNCHANGED <<conv, format, tried, heard, script, pos, blamed, counted, answer, reason>>

Choose(b) ==
    /\ pc = "choose"
    /\ Len(tried) <= MaxRetries
    /\ ~Contains(tried, b)
    /\ tried' = Append(tried, b)
    /\ heard' = IF Direct THEN rewriteModel(body, b)
                ELSE ForwardRequest(format[b], body, b, Streams)
    /\ pc' = "call"
    /\ UNCHANGED <<conv, format, body, script, pos, client, blamed, counted, answer, reason>>

(* No backend is left, the retries are used up, or the router gave up.     *)
GiveUp ==
    /\ pc = "choose"
    /\ Finish("error")
    /\ UNCHANGED <<conv, format, body, tried, heard, script, pos, blamed, counted, answer, reason>>

-----------------------------------------------------------------------------
(* The call fails *)

Unblamed_Never(how) == FALSE                                  \* faulty variant
Unblamed(how) == Direct /\ how = "client_error"

(* handleStream ends with a client error and tries another backend after   *)
(* any other; the router blames the backend for any failure.               *)
Fail(how) ==
    /\ answer' = [answer EXCEPT ![sel] = how]
    /\ IF Unblamed(how)
       THEN Finish("error") /\ UNCHANGED blamed
       ELSE /\ blamed' = blamed \cup {sel}
            /\ pc' = "choose"
            /\ client' = client
    /\ UNCHANGED <<conv, format, body, tried, heard, script, pos, counted, reason>>

Failed ==
    /\ pc = "call"
    /\ \E how \in {"refused", "client_error", "throttled", "server_error"} : Fail(how)

(* Do returns an error once the request's context is cancelled.            *)
Cancelled ==
    /\ pc = "call"
    /\ ~client.here
    /\ Fail("cancelled")

-----------------------------------------------------------------------------
(* A whole answer *)

(* A vendor that was told to stream although the caller cannot.            *)
Unreadable == heard.stream /\ format[sel] # "gemini"

ClientReply(protocol, r) ==
    CASE protocol = "chat" -> r
      [] protocol = "responses" -> OpenAIResponseToOpenAIResponses(r)
      [] protocol = "anthropic" -> OpenAIResponseToAnthropic(r)
      [] protocol = "gemini" -> OpenAIResponseToGemini(r)
      [] protocol = "bedrock" -> OpenAIResponseToBedrock(r)

Usage(detailed) == IF detailed THEN "detailed" ELSE "ok"

Answered ==
    /\ pc = "call"
    /\ ~Streams
    /\ \E why \in Reasons, detailed \in BOOLEAN :
          LET r == VendorReply(format[sel], why, detailed)
              reply == OpenAIReply(format[sel], r)
          IN  /\ ~Unreadable
              /\ Parses(format[sel], r)
              /\ reason' = why
              /\ counted' = reply.in + reply.out
              /\ pc' = "done"
              /\ client' = [client EXCEPT !.status = "ok",
                                          !.reply = ClientReply(conv.protocol, reply)]
              /\ answer' = [answer EXCEPT ![sel] = Usage(detailed)]
    /\ UNCHANGED <<conv, format, body, tried, heard, script, pos, blamed>>

(* A whole answer the adapter cannot translate is a failure of the backend *)
(* that gave it.                                                           *)
AnsweredInDetail ==
    /\ pc = "call"
    /\ ~Streams
    /\ ~Unreadable
    /\ \E why \in Reasons, detailed \in BOOLEAN :
          /\ ~Parses(format[sel], VendorReply(format[sel], why, detailed))
          /\ Fail(Usage(detailed))

(* The OpenAI adapter returns what it has read and the handler, unable to  *)
(* translate it, passes it on; the others fail to translate it.            *)
AnsweredUnreadably ==
    /\ pc = "call"
    /\ ~Streams
    /\ Unreadable
    /\ IF format[sel] = "openai-compatible"
       THEN /\ Finish("ok")
            /\ answer' = [answer EXCEPT ![sel] = "ok"]
            /\ UNCHANGED <<conv, format, body, tried, heard, script, pos, blamed, counted, reason>>
       ELSE Fail("ok")

-----------------------------------------------------------------------------
(* A streamed answer *)

StreamBegins ==
    /\ pc = "call"
    /\ Streams
    /\ \E why \in Reasons :
          /\ script' \in Scripts(format[sel], heard.stream, why)
          /\ reason' = why
    /\ pos' = 1
    /\ pc' = "stream"
    /\ client' = [client EXCEPT !.status = "ok"]
    /\ answer' = [answer EXCEPT ![sel] = "ok"]
    /\ UNCHANGED <<conv, format, body, tried, heard, blamed, counted>>

Written(event) ==
    CASE conv.protocol = "chat" -> CopiedTo(format[sel], event)
      [] conv.protocol = "anthropic" -> OpenAIStreamChunkToAnthropicSSE(event)
      [] conv.protocol = "gemini" -> OpenAIStreamChunkToGeminiSSE(event)

Receives(events) == [client EXCEPT !.got = IF client.here THEN @ \o events ELSE @]

(* One event is read and written; handleStream stops at the end mark.      *)
RelayEvent ==
    /\ pc = "stream"
    /\ pos <= Len(script)
    /\ client' = Receives(Written(script[pos]))
    /\ pos' = pos + 1
    /\ pc' = IF Direct /\ script[pos] = Done THEN "done" ELSE "stream"
    /\ UNCHANGED <<conv, format, body, tried, heard, script, blamed, counted, answer, reason>>

(* The vendor has said all, has broken off, or was too slow for the        *)
(* client's timeout: no reader tells them apart.                           *)
StreamOver_TriesAnother ==                                    \* faulty variant
    /\ pc = "stream"
    /\ pc' = IF Direct \/ pos > Len(script) THEN "done" ELSE "choose"
    /\ client' = IF Direct THEN client ELSE Receives(WrittenAtEnd(format[sel]))
    /\ UNCHANGED <<conv, format, body, tried, heard, script, pos, blamed, counted, answer, reason>>
StreamOver ==
    /\ pc = "stream"
    /\ pc' = "done"
    /\ client' = IF Direct THEN client ELSE Receives(WrittenAtEnd(format[sel]))
    /\ UNCHANGED <<conv, format, body, tried, heard, script, pos, blamed, counted, answer, reason>>

(* bufio.Scanner stops at a line of more than 64 KiB.                      *)
LineTooLong ==
    /\ pc = "stream"
    /\ Direct
    /\ pos <= Len(script)
    /\ script[pos].text # <<>>
    /\ pc' = "done"
    /\ UNCHANGED <<conv, format, body, tried, heard, script, pos, client, blamed, counted, answer,
                   reason>>

(* copyStreamWithUsage returns neither result nor error if a write fails,  *)
(* and its caller uses the result.                                         *)
WriteFails ==
    /\ pc = "stream"
    /\ ~client.here
    /\ ~Direct
    /\ format[sel] # "anthropic"
    /\ pos <= Len(script)
    /\ pc' = "panicked"
    /\ UNCHANGED <<conv, format, body, tried, heard, script, pos, client, blamed, counted, answer,
                   reason>>

ClientLeaves ==
    /\ pc \notin {"done", "panicked"}
    /\ client.here
    /\ client' = [client EXCEPT !.here = FALSE]
    /\ UNCHANGED <<conv, format, pc, body, tried, heard, script, pos, blamed, counted, answer,
                   reason>>

Next ==
    \/ Accept
    \/ \E b \in Backends : Choose(b)
    \/ GiveUp
    \/ Failed
    \/ Cancelled
    \/ Answered
    \/ AnsweredInDetail
    \/ AnsweredUnreadably
    \/ StreamBegins
    \/ RelayEvent
    \/ StreamOver
    \/ LineTooLong
    \/ WriteFails
    \/ ClientLeaves

Spec == Init /\ [][Next]_vars

-----------------------------------------------------------------------------
(* How far the client sees its request: served from the first byte of an   *)
(* answer on, and nothing takes that back.                                 *)
StageSeen ==
    IF pc = "accept" \/ client.status = "bad_request" THEN "closed"
    ELSE IF pc = "call" THEN "calling"
    ELSE IF client.status = "ok" THEN "served"
    ELSE IF tried = <<>> THEN "deciding"
    ELSE "failed"

Contract == INSTANCE FallbackContract
                WITH Requests <- {"request"},
                     stage <- [r \in {"request"} |-> StageSeen],
                     calls <- [r \in {"request"} |-> tried]

-----------------------------------------------------------------------------
(* Properties *)

TurnsHeard ==
    LET turns == Turns(heard.messages)
    IN  [i \in DOMAIN turns |-> [role |-> IF turns[i].role = "model" THEN "assistant"
                                          ELSE turns[i].role,
                                 text |-> String(turns[i].content)]]

SystemHeard == Join(heard.system \o SystemTexts(heard))

(* The adapters that keep the last of several system messages only.        *)
KeepsLast(f) == ~Direct /\ f \in {"gemini", "openai-responses"}

(* A vendor hears the text the client has said, every turn in order, the   *)
(* system texts, the settings, and its own model's name.  What is lost of  *)
(* them is what the conditions name: blocks of Responses input             *)
(* (openairesponses.go:47), all but the last system message                *)
(* (gemini.go:186, openai_responses.go:151), Gemini's topP without a       *)
(* temperature (gemini.go:168) and the model's name in a Responses call    *)
(* that is no stream (openai_responses.go:36).  Of blocks that are no text *)
(* and of an Anthropic client's stop sequences, which are read and dropped *)
(* (anthropic.go:85), it says nothing.                                     *)
RequestReachesVendor ==
    heard # NoRequest =>
        LET f == format[sel] IN
        /\ (conv.protocol = "responses" /\ conv.form = "blocks") \/ TurnsHeard = conv.turns
        /\ SystemHeard = IF KeepsLast(f) /\ conv.protocol \in {"chat", "bedrock"}
                         THEN Join(LastOnly(conv.system)) ELSE Join(conv.system)
        /\ heard.temp = conv.temp
        /\ heard.topP = (conv.topP /\ (f = "gemini" /\ ~Direct => conv.temp))
        /\ heard.max = IF conv.max = 0 /\ f = "anthropic" /\ ~Direct THEN DefaultMax ELSE conv.max
        /\ heard.model = sel \/ (f = "openai-responses" /\ ~Streams)

(* A whole answer reaches the client in its own protocol, with the text,   *)
(* the reason why the vendor stopped and the tokens, whatever the vendor's *)
(* format; only a Responses vendor's reason and tokens are lost            *)
(* (openai_responses.go:219-225), and a Responses client is told neither   *)
(* reason (openairesponses.go:126).  A Gemini vendor's thoughts are told   *)
(* with its words (gemini.go:211), the others' are not.                    *)
ReplyReachesClient ==
    pc = "done" /\ client.status = "ok" /\ ~Streams /\ ~Unreadable =>
        LET lossy == format[sel] = "openai-responses"
        IN  /\ client.reply.text = IF format[sel] = "gemini" THEN Thought \o Words ELSE Words
            /\ client.reply.stop = StopWord(conv.protocol, IF lossy THEN "end" ELSE reason)
            /\ ~lossy => client.reply.in = 3 /\ client.reply.out = 2 /\ client.reply.total = 5
            /\ counted = IF lossy THEN 0 ELSE 5

Types == [i \in DOMAIN client.got |-> client.got[i].type]

MessageOf(deltas) ==
    <<"message_start", "content_block_start">>
    \o [i \in 1..deltas |-> "content_block_delta"]
    \o <<"content_block_stop", "message_delta", "message_stop">>

(* At every moment what an Anthropic client has got is the beginning of a  *)
(* message: nothing before its start, no text outside its block, nothing   *)
(* after its stop, whichever way the vendor cuts its chunks                *)
(* (protocol/anthropic.go:299-347), if it names the role once: each chunk  *)
(* with a role starts a message.  A chat client gets one role, first, no   *)
(* text after the finish reason, and one end mark, last.                   *)
StreamWellFormed ==
    /\ conv.protocol = "anthropic" => \E n \in 0..Len(Types) : IsPrefix(Types, MessageOf(n))
    /\ conv.protocol = "chat" =>
          \A i, j \in DOMAIN client.got : i < j =>
              /\ client.got[i] # Done
              /\ ~client.got[j].role
              /\ client.got[i].stop # NoStop => client.got[j].text = <<>>

OwnType(protocol) ==
    CASE protocol = "chat" -> "chunk"
      [] protocol = "anthropic" -> "content_block_delta"
      [] OTHER -> "candidate"

TextGot ==
    FlattenSeq([i \in DOMAIN client.got |->
                   IF client.got[i].type = OwnType(conv.protocol) THEN client.got[i].text
                   ELSE <<>>])

(* The vendor has streamed all it had to say to a client still there.      *)
WholeStream == pc = "done" /\ client.here /\ script # <<>> /\ pos > Len(script)

TextDelivered ==
    /\ TextGot = Words
    /\ \E i \in DOMAIN client.got : client.got[i].stop = StopWord(conv.protocol, reason)

(* What a stream has delivered is always the beginning of what one vendor  *)
(* said, never of two (fallback.go:386-393), and in the end all of it and  *)
(* the reason, where the stream is translated at all.                      *)
Translates ==
    \/ format[sel] = "openai-compatible" /\ conv.protocol # "gemini"
    \/ format[sel] = "anthropic" /\ conv.protocol = "chat"

StreamTextKept ==
    Streams =>
        /\ IsPrefix(TextGot, Words)
        /\ WholeStream /\ Translates => TextDelivered

(* The same of every pair of client and vendor: an adapter "handles        *)
(* request/response translation for a specific API format"                 *)
(* (provider.go:10).  It fails: all but Anthropic's copy the stream as it  *)
(* is.                                                                     *)
StreamTranslated == Streams /\ WholeStream => TextDelivered

(* Its usage has parts, which only one adapter trips over.                 *)
Uncountable(b) == answer[b] = "detailed" /\ format[b] = "openai-responses"

(* A backend that refused, throttled or failed a request is blamed for it, *)
(* and nobody for the client's own error in handleStream (protocol.go:184) *)
(* nor for a stream that breaks off.  A backend that answered is blamed    *)
(* only if the caller could not read a stream it had asked for             *)
(* (protocol.go:125) or it speaks Responses and counted its tokens in      *)
(* detail (openai_responses.go:189), and then always; and any backend is,  *)
(* if the client had left.                                                 *)
BlameMatchesAnswers ==
    \A b \in Backends :
        /\ answer[b] \in {"refused", "throttled", "server_error"} => b \in blamed
        /\ Uncountable(b) => b \in blamed
        /\ b \in blamed =>
              \/ answer[b] \in {"refused", "throttled", "server_error"}
              \/ answer[b] = "client_error" /\ ~Direct
              \/ Uncountable(b)
              \/ answer[b] = "ok" /\ conv.protocol = "responses" /\ conv.stream
              \/ answer[b] = "cancelled" /\ ~client.here

(* Every handler keeps the contract of a fallback, handleStream's own loop *)
(* (protocol.go:160-195) like the router's: one call at a time, no backend *)
(* twice, MaxRetries + 1 calls at most, and none once a stream has begun,  *)
(* however it breaks off.                                                  *)
ImplementsFallback == Contract!Spec
=============================================================================
