---------------------------- MODULE MCAgentLoop -----------------------------
(* An instance of AgentLoop for TLC: budgets and sizes chosen so that a    *)
(* history is windowed, a turn truncated, and a turn of two large tool     *)
(* results windowed itself.                                                *)
EXTENDS AgentLoop

HistoryOf(sizes) ==
  [i \in DOMAIN sizes |->
     Message(IF i % 2 = 1 THEN "user" ELSE "assistant", <<>>, NoCall, sizes[i])]

SmallHistories == {HistoryOf(<<1, 4>>)}

SmallAnswers ==
  {<<0, <<>>>>, <<3, <<>>>>, <<3, <<"good">>>>, <<0, <<"empty", "good">>>>,
   <<0, <<"good", "nameless">>>>, <<0, <<"broken">>>>}
============================================================================
