------------------------------- MODULE Prompt -------------------------------
(***************************************************************************)
(* How ContextBuilder (agent/context.py) assembles the prompt of one       *)
(* provider call under its token budget.                                   *)
(*                                                                         *)
(* A message is a record: its role, the calls an assistant makes, the call *)
(* a tool message answers ("of"), and the size of its content in tokens.   *)
(* The tokenizer is additive over messages (_estimate_tokens sums them),   *)
(* which is all the algorithm relies on.                                   *)
(***************************************************************************)
EXTENDS Integers, SequencesExt

CONSTANTS
  Usable,       \* ContextBudget.usable_tokens
  Overhead,     \* tokens of a message without content: role, source, labels
  Marker,       \* tokens of "[truncated due to context budget]"
  SummaryMax,   \* tokens of summary_max_chars
  Slack         \* a summary is cut only if it keeps more than this (4 in the code)

ASSUME BudgetAssumption ==
  /\ Usable \in Nat /\ Overhead \in Nat \ {0}
  /\ Marker \in Nat /\ SummaryMax \in Nat \ {0} /\ Slack \in Nat

(* A call is named by the step that made it and its place in the answer.   *)
CallIds == Nat \X Nat
NoCall == <<0, 0>>
Roles == {"system", "user", "assistant", "tool"}

(* "sent" and "response": the calls as the service sent them, and whether  *)
(* the message carries a response id of the service.                       *)
Message(role, calls, of, size) ==
  [role |-> role, calls |-> calls, of |-> of, size |-> size,
   sent |-> calls, response |-> FALSE]

Messages ==
  [role : Roles, calls : Seq(CallIds), of : CallIds, size : Nat,
   sent : Seq(CallIds), response : BOOLEAN]

HasCalls(m) == m.role = "assistant" /\ m.calls # <<>>

(* The calls of an assistant message are serialized with its metadata. *)
Fixed(m) == Overhead + Len(m.calls)

Tokens(s) ==
  LET sum[i \in 0 .. Len(s)] == IF i = 0 THEN 0 ELSE sum[i - 1] + Fixed(s[i]) + s[i].size
  IN sum[Len(s)]

Fits(s) == Tokens(s) <= Usable

(* Mutant of Groups: every message is kept or dropped for itself.          *)
GroupsOfOne(s) == [i \in DOMAIN s |-> <<s[i]>>]

(* An assistant message with calls and the tool messages right behind it   *)
(* are kept or dropped together.                                           *)
Grouped(gs, m) ==
  IF m.role = "tool" /\ gs # <<>> /\ HasCalls(Last(gs)[1])
  THEN Append(Front(gs), Append(Last(gs), m))
  ELSE Append(gs, <<m>>)

Groups(s) ==
  LET groups[i \in 0 .. Len(s)] == IF i = 0 THEN <<>> ELSE Grouped(groups[i - 1], s[i])
  IN groups[Len(s)]

(* Newest group first, each one that still fits; older ones that fit are   *)
(* kept even when a newer one did not.                                     *)
Taken(w, g) ==
  IF w.used + Tokens(g) <= Usable
  THEN [w EXCEPT !.kept = g \o @, !.used = @ + Tokens(g)]
  ELSE [w EXCEPT !.dropped = g \o @]

Window(s, prefix, suffix) ==
  LET gs == Groups(s)
      start == [kept |-> <<>>, dropped |-> <<>>, used |-> Tokens(prefix \o suffix)]
      window[i \in 0 .. Len(gs)] ==
        IF i = 0 THEN start ELSE Taken(window[i - 1], gs[Len(gs) + 1 - i])
  IN window[Len(gs)]

(* Mutant of Cuts: the marker is appended without being counted.           *)
CutsUncounted(m, budget, marker) ==
  {n + marker : n \in {k \in 0 .. m.size - 1 : Fixed(m) + k <= budget}}

(* The sizes a content can be cut to within the budget of its message; the *)
(* code searches for the largest by bisection.                             *)
Cuts(m, budget, marker) ==
  {n + marker : n \in {k \in 0 .. m.size - 1 : Fixed(m) + k + marker <= budget}}

Largest(S) == CHOOSE n \in S : \A k \in S : k <= n

(* Tools first, then assistants with calls, assistants, the user; in each  *)
(* kind the longest first.                                                 *)
Kind(m) ==
  IF m.role = "tool" THEN 1
  ELSE IF HasCalls(m) THEN 2
  ELSE IF m.role = "assistant" THEN 3 ELSE 4

CutBefore(s, i, j) ==
  \/ Kind(s[i]) < Kind(s[j])
  \/ Kind(s[i]) = Kind(s[j]) /\ s[i].size > s[j].size
  \/ Kind(s[i]) = Kind(s[j]) /\ s[i].size = s[j].size /\ i < j

(* The sizes message i of the turn can be cut to, with the marker if there *)
(* is room for it.                                                         *)
CutsOf(turn, prefix, i) ==
  LET room   == Usable - Tokens(prefix \o RemoveAt(turn, i))
      marked == Cuts(turn[i], room, Marker)
  IN IF marked # {} THEN marked ELSE Cuts(turn[i], room, 0)

(* The first message of that order whose cutting makes everything fit is   *)
(* cut. When there is none, the turn itself is windowed.                   *)
FitProtected(turn, prefix) ==
  LET able  == {i \in DOMAIN turn : turn[i].size > 0 /\ CutsOf(turn, prefix, i) # {}}
      first == CHOOSE i \in able : \A j \in able \ {i} : CutBefore(turn, i, j)
  IN IF Fits(prefix \o turn) THEN turn
     ELSE IF able # {}
          THEN [turn EXCEPT ![first].size = Largest(CutsOf(turn, prefix, first))]
     ELSE Window(turn, prefix, <<>>).kept

Summary(dropped) ==
  Message("system", <<>>, NoCall,
          IF 1 + Tokens(dropped) < SummaryMax THEN 1 + Tokens(dropped) ELSE SummaryMax)

(* The summary takes the place of the oldest messages kept, never of a     *)
(* tool transcript; no result (FALSE) when that is not enough. A group     *)
(* that is no tool transcript is a single message.                         *)
FitSummary(prefix, kept, summary, suffix) ==
  LET with(k) == prefix \o <<summary>> \o SubSeq(kept, k + 1, Len(kept)) \o suffix
      able    == {k \in 0 .. Len(kept) :
                    /\ Fits(with(k))
                    /\ \A i \in 1 .. k : kept[i].role # "tool" /\ ~ HasCalls(kept[i])}
  IN [found |-> able # {},
      prompt |-> IF able = {} THEN <<>> ELSE with(CHOOSE k \in able : \A j \in able : k <= j)]

(* The turn, as much of the optional messages as fit before it, and a      *)
(* summary of the rest if there is room, cut on a second try to the room   *)
(* there is.                                                               *)
WithProtected(prefix, optional, turn) ==
  LET fit      == FitProtected(turn, prefix)
      window   == Window(optional, prefix, fit)
      windowed == prefix \o window.kept \o fit
      summary  == Summary(window.dropped)
      whole    == FitSummary(prefix, window.kept, summary, fit)
      left     == Usable - Tokens(windowed)
      compact  == FitSummary(prefix, window.kept,
                    [summary EXCEPT !.size = IF @ < left - Overhead THEN @ ELSE left - Overhead],
                    fit)
  IN IF window.dropped = <<>> THEN windowed
     ELSE IF whole.found THEN whole.prompt
     ELSE IF left > Overhead + Slack /\ compact.found THEN compact.prompt
     ELSE windowed

(* Everything in its order when it fits. The loop always protects a turn;  *)
(* without one the code does the same with an empty turn.                  *)
BuildContext(prefix, optional, turn) ==
  IF Fits(prefix \o optional \o turn) THEN prefix \o optional \o turn
  ELSE WithProtected(prefix, optional, turn)
============================================================================
