-------------------------------- MODULE Wire --------------------------------
(***************************************************************************)
(* What the providers put on the wire and read from it: chat completions   *)
(* (agent/providers/openai_compatible.py), "merged" when system messages   *)
(* are merged first (merge_system_messages), the Responses API             *)
(* (openai_responses.py, replaying the output or naming the previous       *)
(* response, "stored") and Anthropic messages (anthropic.py).              *)
(*                                                                         *)
(* A request is the conversation the service already holds ("held": the    *)
(* calls of the response it is told to continue) and the items sent. An    *)
(* answer is a size of text and the calls as they arrive; the form of a    *)
(* call says what is wrong with it:                                        *)
(*   good      its name and arguments are those of a tool of the run       *)
(*   unknown   it names no tool of the run                                 *)
(*   empty     it has no arguments though the tool requires some           *)
(*   nameless  it has no name                                              *)
(*   broken    its arguments are not JSON, as when a stream is cut         *)
(***************************************************************************)
EXTENDS Prompt

Families == {"chat", "merged", "responses", "stored", "messages"}
Forms == {"good", "unknown", "empty", "nameless", "broken"}

Item(kind, id) == [kind |-> kind, id |-> id]
Text == <<Item("text", NoCall)>>
CallItems(ids) == [i \in DOMAIN ids |-> Item("call", ids[i])]

Each(s, items(_)) == FlattenSeq([i \in DOMAIN s |-> items(s[i])])

Filtered(s, keeps(_)) == Each(s, LAMBDA m : IF keeps(m) THEN <<m>> ELSE <<>>)

(*------------------------------- Requests --------------------------------*)

(* Orphan tool messages go, and an assistant with calls goes together with *)
(* its results unless every call has one.                                  *)
SanitizeTranscript(prompt) ==
  LET results(g) == Filtered(Tail(g), LAMBDA m : Contains(g[1].calls, m.of))
      keep(g) ==
        IF g[1].role = "tool" THEN <<>>
        ELSE IF ~ HasCalls(g[1]) THEN g
        ELSE IF ToSet(g[1].calls) \subseteq {m.of : m \in ToSet(results(g))}
             THEN <<g[1]>> \o results(g) ELSE <<>>
  IN Each(Groups(prompt), keep)

SystemFirst(prompt) ==
  LET others == Filtered(prompt, LAMBDA m : m.role # "system")
  IN IF Len(others) = Len(prompt) THEN prompt
     ELSE <<Message("system", <<>>, NoCall, 0)>> \o others

ChatMessage(m) ==
  IF m.role = "tool" THEN <<Item("result", m.of)>>
  ELSE Text \o CallItems(m.calls)

ChatRequest(prompt, merge) ==
  LET prepared == IF merge THEN SystemFirst(prompt) ELSE prompt
  IN [held |-> {}, items |-> Each(SanitizeTranscript(prepared), ChatMessage)]

(* An assistant message of this run is replayed as the service sent it,    *)
(* including calls the parser skipped.                                     *)
InputItem(m) ==
  CASE m.role = "system"    -> <<>>
    [] m.role = "user"      -> Text
    [] m.role = "tool"      -> <<Item("result", m.of)>>
    [] m.role = "assistant" ->
         IF m.size = 0 /\ m.sent # <<>> THEN CallItems(m.sent)
         ELSE Text \o CallItems(m.sent)

(* With store and previous_response_id only what follows the last answer   *)
(* of the service is sent. Messages from the database carry no response id.*)
InputSince(prompt, stored) ==
  LET own == {i \in DOMAIN prompt : stored /\ prompt[i].response}
  IN IF own = {} THEN [held |-> {}, messages |-> prompt]
     ELSE [held |-> ToSet(prompt[Largest(own)].sent),
           messages |-> SubSeq(prompt, Largest(own) + 1, Len(prompt))]

ResponsesRequest(prompt, stored) ==
  LET since == InputSince(SystemFirst(prompt), stored)
  IN [held |-> since.held, items |-> Each(since.messages, InputItem)]

(* The system prompt travels apart; thinking, text and calls of an         *)
(* assistant are blocks of one message, a result is a user message.        *)
MessagesItem(m) ==
  CASE m.role = "system"    -> <<>>
    [] m.role = "user"      -> Text
    [] m.role = "tool"      -> <<Item("result", m.of)>>
    [] m.role = "assistant" ->
         IF m.size = 0 /\ HasCalls(m) THEN CallItems(m.calls)
         ELSE Text \o CallItems(m.calls)

MessagesRequest(prompt) == [held |-> {}, items |-> Each(prompt, MessagesItem)]

Request(family, prompt) ==
  CASE family = "chat"      -> ChatRequest(prompt, FALSE)
    [] family = "merged"    -> ChatRequest(prompt, TRUE)
    [] family = "responses" -> ResponsesRequest(prompt, FALSE)
    [] family = "stored"    -> ResponsesRequest(prompt, TRUE)
    [] family = "messages"  -> MessagesRequest(prompt)

(*-------------------------------- Answers --------------------------------*)

Has(answer, form) == \E i \in DOMAIN answer.calls : answer.calls[i].form = form

(* The calls that have a name, in their order.                             *)
Named(calls) ==
  LET named[i \in 0 .. Len(calls)] ==
        IF i = 0 THEN <<>>
        ELSE IF calls[i].form = "nameless" THEN named[i - 1]
        ELSE Append(named[i - 1], calls[i])
  IN named[Len(calls)]

Bad == [bad |-> TRUE, calls |-> <<>>]
Read(calls) == [bad |-> FALSE, calls |-> calls]

(* The stream collector leaves out a call without a name; the parser of a  *)
(* whole body rejects the answer.                                          *)
StreamCalls(calls) == Named(calls)

ParseChat(answer, streamed) ==
  IF Has(answer, "broken") \/ (Has(answer, "nameless") /\ ~ streamed) THEN Bad
  ELSE Read(IF streamed THEN StreamCalls(answer.calls) ELSE answer.calls)

(* A stream has to end with response.completed.                            *)
Incomplete(answer, streamed) == streamed /\ answer.cut

(* A broken call with a name is an error, a nameless one is skipped.       *)
ParseResponses(answer, streamed) ==
  IF Has(answer, "broken") \/ Incomplete(answer, streamed) THEN Bad
  ELSE Read(Named(answer.calls))

(* The blocks collected from a stream are rejected only when there is none.*)
NoBlocks(answer, streamed) == streamed /\ answer.calls = <<>> /\ answer.text = 0

(* Arguments that are not JSON become no arguments.                        *)
ToolUse(call) == [call EXCEPT !.form = IF @ = "broken" THEN "empty" ELSE @]

ParseMessages(answer, streamed) ==
  LET calls == Named(answer.calls)
  IN IF NoBlocks(answer, streamed) THEN Bad
     ELSE Read([i \in DOMAIN calls |-> ToolUse(calls[i])])

Parse(family, streamed, answer) ==
  CASE family \in {"chat", "merged"} -> ParseChat(answer, streamed)
    [] family = "messages"           -> ParseMessages(answer, streamed)
    [] OTHER                         -> ParseResponses(answer, streamed)

(*-------------------------------- Errors ---------------------------------*)

Statuses == {"401", "429", "4xx", "5xx"}

StatusError(status) ==
  CASE status = "401" -> "provider_auth_failed"
    [] status = "429" -> "provider_rate_limited"
    [] status = "5xx" -> "provider_transport_error"
    [] OTHER          -> "provider_bad_response"

Retryable(error) ==
  error \in {"provider_timeout", "provider_rate_limited", "provider_transport_error"}

Errors == {StatusError(s) : s \in Statuses} \cup {"provider_timeout"}
============================================================================
