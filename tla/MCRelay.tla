------------------------------- MODULE MCRelay -------------------------------
(* Conversations with no, one and several system texts, one turn and two,  *)
(* plain contents and blocks, every protocol, streamed or not.             *)
EXTENDS Relay

TurnOf(role, text) == [role |-> role, text |-> text]

OneTurn == <<TurnOf("user", <<"hello", "there">>)>>
TwoTurns == <<TurnOf("assistant", <<"yes">>), TurnOf("user", <<"go", "on">>)>>

Said ==
    [system : {<<>>, <<<<"be">>, <<"brief">>>>}, turns : {OneTurn, TwoTurns},
     form : {"items", "blocks"}, max : {0, 7}, temp : BOOLEAN, topP : {TRUE}, model : {""}]
    \cup [system : {<<<<"be">>>>}, turns : {OneTurn}, form : {"string"},
          max : {0}, temp : {FALSE}, topP : {FALSE}, model : {"m"}]
    \cup [system : {<<>>}, turns : {<<>>}, form : {"items"},
          max : {0}, temp : {FALSE}, topP : {FALSE}, model : {"m"}]

With(said, protocol, stream) ==
    [system |-> said.system, turns |-> said.turns, form |-> said.form, max |-> said.max,
     temp |-> said.temp, topP |-> said.topP, model |-> said.model,
     protocol |-> protocol, stream |-> stream]

Spoken == {With(s, p, stream) : s \in Said, p \in Protocols, stream \in BOOLEAN}

ChatStreams == {With(s, "chat", TRUE) : s \in Said}

(* A backend of every format, and one more of OpenAI's. *)
EveryFormat == {[b1 |-> f, b2 |-> "openai-compatible"] : f \in Formats}
GeminiOnly == {[b1 |-> "gemini", b2 |-> "gemini"]}

MCThought == <<"hm">>
MCWords == <<"fine", "thanks">>
=============================================================================
