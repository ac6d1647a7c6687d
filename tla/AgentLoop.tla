----------------------------- MODULE AgentLoop ------------------------------
(***************************************************************************)
(* One run of the agent loop (agent/loop.py): a prompt, a provider call    *)
(* with retries, the tools the answer asks for, and again, for at most     *)
(* MaxSteps steps. The provider and the tools are the environment; /stop   *)
(* sets the stop event, and the task may be cancelled at any await.        *)
(***************************************************************************)
EXTENDS Wire

CONSTANTS
  MaxSteps,      \* AgentLoopConfig.max_steps
  Retries,       \* retry_attempts of a provider call
  ToolRetries,   \* tool_retry_attempts of a tool call
  Prefix,        \* tokens of the system messages before the history
  Histories,     \* the histories a run may start with
  Requests,      \* sizes of the user's message
  Answers,       \* what the provider may answer: the size of a text, the forms of the calls
  ResultSizes,   \* sizes of a tool result
  ErrorSize      \* size of a tool result that reports an error

(* What a row of the database becomes: a text, whoever it is from.         *)
IsText(m) == m.role # "tool" /\ m = Message(m.role, <<>>, NoCall, m.size)

ASSUME LoopAssumption ==
  /\ MaxSteps \in Nat \ {0} /\ Retries \in Nat /\ ToolRetries \in Nat
  /\ Prefix \in Nat /\ Overhead + Prefix <= Usable
  /\ Histories \subseteq Seq(Messages)
  /\ \A h \in Histories : \A m \in ToSet(h) : IsText(m)
  /\ Requests \subseteq Nat /\ ResultSizes \subseteq Nat /\ ErrorSize \in Nat
  /\ Answers \subseteq Nat \X Seq(Forms)

VARIABLES
  family, streamed, history,  \* the provider of the run and its history
  pc, step, attempt,          \* where the run is, its step, the attempts of the call
  turn,                       \* active_turn_messages
  calls, results, tries,      \* the batch: its calls, the messages so far, tries of the next
  stop,                       \* the stop event is set
  ran,                        \* history: the executions of this step's tools, with what they returned
  error                       \* the error of the done event

config == <<family, streamed, history>>
batch  == <<calls, results, tries>>
vars   == <<config, pc, step, attempt, turn, batch, stop, ran, error>>

Awaiting == {"calling", "backoff", "running", "toolBackoff"}
Ended    == {"done", "cancelled"}
(* A timeout and an exception are failures that are not retryable.         *)
Outcomes == {"ok", "retryable", "failed"}

TypeOK ==
  /\ family \in Families /\ streamed \in BOOLEAN /\ history \in Histories
  /\ pc \in Awaiting \cup Ended \cup {"step", "answered", "tools"}
  /\ step \in 1 .. MaxSteps + 1 /\ attempt \in 0 .. Retries + 1
  /\ tries \in 0 .. ToolRetries + 1 /\ stop \in BOOLEAN
  /\ turn \in Seq(Messages) /\ results \in Seq(Messages)
  /\ calls \in Seq([id : CallIds, form : Forms]) /\ Len(results) <= Len(calls)
  /\ ran \in Seq([id : CallIds, form : Forms, outcome : Outcomes])
  /\ error \in Errors \cup {"none", "cancelled"}

SystemBaseline == <<Message("system", <<>>, NoCall, Prefix)>>

Init ==
  /\ family \in Families /\ streamed \in BOOLEAN /\ history \in Histories
  /\ \E size \in Requests : turn = <<Message("user", <<>>, NoCall, size)>>
  /\ pc = "step" /\ step = 1 /\ attempt = 0
  /\ calls = <<>> /\ results = <<>> /\ tries = 0
  /\ stop = FALSE /\ ran = <<>> /\ error = "none"

(* The done event: with "cancelled" when the stop event was seen.          *)
Finish(e) == pc' = "done" /\ error' = e

(*--------------------------- the provider call ---------------------------*)

EndsBeforeStep ==
  /\ pc = "step" /\ (stop \/ step > MaxSteps)
  /\ Finish(IF step > MaxSteps THEN "none" ELSE "cancelled")
  /\ UNCHANGED <<config, step, attempt, turn, batch, stop, ran>>

StartStep ==
  /\ pc = "step" /\ ~ stop /\ step <= MaxSteps
  /\ pc' = "calling" /\ attempt' = 1 /\ ran' = <<>>
  /\ UNCHANGED <<config, step, turn, batch, stop, error>>

(* What the provider is given, while it is called; the turn does not       *)
(* change until it answers.                                                *)
Prompts ==
  IF pc = "calling" THEN {BuildContext(SystemBaseline, history, turn)} ELSE {}

CanRetry(e) == Retryable(e) /\ attempt <= Retries

ProviderFails(e) ==
  /\ pc = "calling"
  /\ IF CanRetry(e) THEN pc' = "backoff" /\ UNCHANGED error ELSE Finish(e)
  /\ UNCHANGED <<config, step, attempt, turn, batch, stop, ran>>

(* Mutant of BackoffEnds: the attempt is not counted.                      *)
BackoffUncounted ==
  /\ pc = "backoff" /\ pc' = "calling"
  /\ UNCHANGED <<config, step, attempt, turn, batch, stop, ran, error>>

BackoffEnds ==
  /\ pc = "backoff" /\ pc' = "calling" /\ attempt' = attempt + 1
  /\ UNCHANGED <<config, step, turn, batch, stop, ran, error>>

(* The Responses API has output and an id to keep even when the answer     *)
(* shows nothing; the other families keep only text and calls.             *)
AssistantMessage(answer, parsed) ==
  LET ids(s)   == [i \in DOMAIN s |-> s[i].id]
      response == family \in {"responses", "stored"}
      message  == [Message("assistant", ids(parsed), NoCall, answer.text) EXCEPT
                     !.sent = IF response THEN ids(answer.calls) ELSE ids(parsed),
                     !.response = response]
  IN IF answer.text = 0 /\ parsed = <<>> /\ ~ response THEN <<>> ELSE <<message>>

Answer(text, forms, cut) ==
  [text |-> text, cut |-> cut,
   calls |-> [i \in DOMAIN forms |-> [id |-> <<step, i>>, form |-> forms[i]]]]

ProviderAnswers(answer) ==
  LET parsed == Parse(family, streamed, answer)
  IN /\ pc = "calling"
     /\ IF parsed.bad
        THEN Finish("provider_bad_response") /\ UNCHANGED <<turn, batch>>
        ELSE /\ turn' = turn \o AssistantMessage(answer, parsed.calls)
             /\ calls' = parsed.calls /\ results' = <<>> /\ tries' = 0
             /\ pc' = "answered" /\ UNCHANGED error
     /\ attempt' = 0
     /\ UNCHANGED <<config, step, stop, ran>>

(* Between the answer and this step the text event was yielded, and the    *)
(* stop event may have been set.                                           *)
Answered ==
  /\ pc = "answered"
  /\ \/ calls = <<>> /\ Finish("none")
     \/ calls # <<>> /\ stop /\ Finish("cancelled")
     \/ calls # <<>> /\ ~ stop /\ pc' = "tools" /\ UNCHANGED error
  /\ UNCHANGED <<config, step, attempt, turn, batch, stop, ran>>

(*------------------------------- the tools -------------------------------*)

Next1 == Len(results) + 1
Call  == calls[Next1]

(* tool_not_registered, or tool_arguments_invalid.                         *)
Invalid(call) == call.form \in {"unknown", "empty"}

ToolMessage(call, size) == Message("tool", <<>>, call.id, size)

RejectCall ==
  /\ pc = "tools" /\ Next1 <= Len(calls) /\ Invalid(Call)
  /\ results' = Append(results, ToolMessage(Call, ErrorSize))
  /\ UNCHANGED <<config, pc, step, attempt, turn, calls, tries, stop, ran, error>>

RunCall ==
  /\ \/ pc = "tools" /\ Next1 <= Len(calls) /\ ~ Invalid(Call)
     \/ pc = "toolBackoff"
  /\ pc' = "running" /\ tries' = tries + 1
  /\ UNCHANGED <<config, step, attempt, turn, calls, results, stop, ran, error>>

(* Mutant of RetriesTool: any failure is tried again.                      *)
RetriesAnyFailure(outcome) == outcome # "ok" /\ tries < ToolRetries + 1

RetriesTool(outcome) == outcome = "retryable" /\ tries < ToolRetries + 1

ToolReturns(outcome, size) ==
  /\ pc = "running"
  /\ ran' = Append(ran, [id |-> Call.id, form |-> Call.form, outcome |-> outcome])
  /\ IF RetriesTool(outcome)
     THEN pc' = "toolBackoff" /\ UNCHANGED <<results, tries>>
     ELSE /\ results' = Append(results, ToolMessage(Call, size))
          /\ pc' = "tools" /\ tries' = 0
  /\ UNCHANGED <<config, step, attempt, turn, calls, stop, error>>

(* The messages of the whole batch join the turn at once.                  *)
ToolsEnd ==
  /\ pc = "tools" /\ Next1 > Len(calls)
  /\ turn' = turn \o results
  /\ calls' = <<>> /\ results' = <<>>
  /\ pc' = "step" /\ step' = step + 1
  /\ UNCHANGED <<config, attempt, tries, stop, ran, error>>

(*----------------------------- stop and cancel ---------------------------*)

(* request_stop sets the event and cancels the task. The loop sees the     *)
(* event alone when a tool swallowed the cancellation; otherwise it ends   *)
(* where it waits or where its caller handles an event it yielded.         *)
SetStop ==
  /\ ~ stop /\ pc \notin Ended /\ stop' = TRUE
  /\ UNCHANGED <<config, pc, step, attempt, turn, batch, ran, error>>

Cancel ==
  /\ stop /\ pc \notin Ended /\ pc' = "cancelled"
  /\ UNCHANGED <<config, step, attempt, turn, batch, stop, ran, error>>

ProviderReturns ==
  \/ \E e \in Errors : ProviderFails(e)
  \/ \E a \in Answers,
       cut \in IF streamed /\ family \in {"responses", "stored"} THEN BOOLEAN ELSE {FALSE} :
       ProviderAnswers(Answer(a[1], a[2], cut))

ToolFinishes ==
  \/ \E size \in ResultSizes : ToolReturns("ok", size)
  \/ \E outcome \in Outcomes \ {"ok"} : ToolReturns(outcome, ErrorSize)

Loop == EndsBeforeStep \/ StartStep \/ BackoffEnds \/ Answered \/ RejectCall \/ RunCall \/ ToolsEnd

Next == Loop \/ ProviderReturns \/ ToolFinishes \/ SetStop \/ Cancel

Spec == Init /\ [][Next]_vars

(* The loop runs on when nothing is awaited; the HTTP client and wait_for  *)
(* bound the provider and the tools, and both sleeps end.                  *)
FairSpec ==
  Spec /\ WF_vars(Loop) /\ WF_vars(ProviderReturns) /\ WF_vars(ToolFinishes)

(*------------------------------- properties ------------------------------*)

(* Every request pairs calls and results as all three services demand: a   *)
(* result belongs to a call of the assistant message right before it (or   *)
(* of the response the service is told to continue), and every named call  *)
(* has its result before anything else follows, however the history was    *)
(* windowed, the turn truncated and the answers parsed.                    *)
Paired(request, named) ==
  LET together(i, j) == \A k \in i .. j : request.items[k].kind # "text"
      is(k, kind, id) == request.items[k] = Item(kind, id)
  IN /\ \A j \in DOMAIN request.items : request.items[j].kind = "result" =>
          \/ request.items[j].id \in request.held /\ together(1, j)
          \/ \E i \in 1 .. j - 1 : is(i, "call", request.items[j].id) /\ together(i, j)
     /\ \A id \in named, i \in DOMAIN request.items : is(i, "call", id) =>
          \E j \in i + 1 .. Len(request.items) : is(j, "result", id) /\ together(i, j)

PayloadIsPaired ==
  \A p \in Prompts :
    \A request \in {Request(family, p)}, named \in {UNION {ToSet(m.calls) : m \in ToSet(p)}} :
      Paired(request, named)

(* A prompt never exceeds the budget, whatever sizes the history, the      *)
(* request and the tool results have, and it starts with the system        *)
(* baseline.                                                               *)
PromptFits == \A p \in Prompts : Fits(p) /\ IsPrefix(SystemBaseline, p)

(* A tool is executed again for the same call only after it said that it   *)
(* may be, and at most ToolRetries times; a call that failed validation or *)
(* was not parsed is never executed.                                       *)
NoBlindRetry ==
  /\ \A i, j \in DOMAIN ran :
       i < j /\ ran[i].id = ran[j].id => ran[i].outcome = "retryable"
  /\ \A i \in DOMAIN ran :
       /\ ran[i].form = "good"
       /\ Cardinality({j \in DOMAIN ran : ran[j].id = ran[i].id}) <= ToolRetries + 1

(* A run ends, by an answer, an error, its steps or a stop.                *)
RunEnds == <>(pc \in Ended)
============================================================================
