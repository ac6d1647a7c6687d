--------------------------- MODULE MCSessionTurn ----------------------------
(* An instance of SessionTurn for TLC: a slot whose models cannot see, one *)
(* whose models can and which serves a model of the same name, two turns   *)
(* of history.                                                             *)
EXTENDS SessionTurn, TLC

TwoSlots ==
  << ProviderSlot("text", {<<"m">>}, <<"m">>, {<<"m">>}, {}, <<"m">> :> {<<"cheap">>}),
     ProviderSlot("eyes", {<<"m">>, <<"v">>}, <<"v">>, {<<"v">>}, {<<"v">>}, <<"v">> :> {<<"vision">>}) >>

Attached(place, alt, large, odd) == [place |-> place, alt |-> alt, large |-> large, odd |-> odd]

SomePictures ==
  [r \in ChatRuns |->
     IF r = "a" THEN {<<Attached("url", FALSE, FALSE, FALSE)>>,
                      <<Attached("id", FALSE, FALSE, FALSE), Attached("path", TRUE, TRUE, FALSE)>>}
     ELSE {<<>>}]

CronAsks == [r \in CronRuns |-> [provider |-> "text", model |-> <<"v">>]]

Names == {<<"m">>}
=============================================================================
