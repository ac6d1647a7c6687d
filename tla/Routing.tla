------------------------------ MODULE Routing -------------------------------
(***************************************************************************)
(* Which provider slot and model serve a request: ProviderManager          *)
(* (agent/providers/manager.py), the tag router of internal tasks          *)
(* (agent/providers/router.py) and SessionRunner._resolve_provider.        *)
(*                                                                         *)
(* A name is a sequence of the parts between its slashes, so "p/m" is      *)
(* <<"p", "m">>, and no name is <<>>.                                      *)
(***************************************************************************)
EXTENDS Integers, SequencesExt

CONSTANTS
  Slots,      \* the slots in the order of the configuration
  DefaultId   \* ProviderManager._default_id

NoName == <<>>

(* id, models (none: the slot serves any), default_model, the models with  *)
(* image_input, and the models with a tag. A model without capabilities of *)
(* its own has those of the default model.                                 *)
ProviderSlot(id, models, default, own, vision, tagged) ==
  [id |-> id, models |-> models, default |-> default, own |-> own,
   vision |-> vision, tagged |-> tagged]

SupportsModel(slot, name) == slot.models = {} \/ name \in slot.models

Capable(slot, name) ==
  IF name \in slot.own THEN name \in slot.vision ELSE slot.default \in slot.vision

Choice(slot, name) == [slot |-> slot.id, model |-> name]
Nothing == [slot |-> "none", model |-> NoName]

SlotIds == {Slots[i].id : i \in DOMAIN Slots}

(* Slots are kept under their ids; "none" stands for no id.                *)
ASSUME SlotsAssumption ==
  /\ Slots \in Seq(ToSet(Slots))
  /\ \A i, j \in DOMAIN Slots : Slots[i].id = Slots[j].id => i = j
  /\ "none" \notin SlotIds

SlotOf(id) == CHOOSE s \in ToSet(Slots) : s.id = id

FirstSlot(Serves(_)) == SelectInSeq(Slots, Serves)

(* A prefix that names a slot decides; otherwise the first slot that       *)
(* serves the whole name.                                                  *)
ModelSelection(name) ==
  IF Len(name) > 1 /\ name[1] \in SlotIds
  THEN IF SupportsModel(SlotOf(name[1]), Tail(name))
       THEN Choice(SlotOf(name[1]), Tail(name)) ELSE Nothing
  ELSE LET i == FirstSlot(LAMBDA s : SupportsModel(s, name))
       IN IF i = 0 THEN Nothing ELSE Choice(Slots[i], name)

DefaultChoice ==
  IF DefaultId \in SlotIds THEN Choice(SlotOf(DefaultId), SlotOf(DefaultId).default)
  ELSE Nothing

(*-------------------------- tasks of the program -------------------------*)

ByTag(tag) ==
  LET tagged(s) == {m \in DOMAIN s.tagged : tag \in s.tagged[m]}
      primary(s) ==
        IF tag = <<"primary">> /\ s.default # NoName /\ s.default \notin DOMAIN s.tagged
        THEN {s.default} ELSE {}
      named(s) == IF tagged(s) # {} THEN tagged(s) ELSE primary(s)
      i == FirstSlot(LAMBDA s : named(s) # {})
  IN IF i = 0 THEN Nothing ELSE Choice(Slots[i], CHOOSE m \in named(Slots[i]) : TRUE)

(* A tag is tried only when no slot takes it for the name of a model.      *)
ResolveSpec(spec) ==
  IF spec = NoName THEN Nothing
  ELSE IF ModelSelection(spec) # Nothing THEN ModelSelection(spec)
  ELSE ByTag(spec)

FallbackModel(fallback) == IF fallback = "default" THEN DefaultChoice ELSE Nothing

ForTask(explicit, tag, fallback) ==
  IF ResolveSpec(explicit) # Nothing THEN ResolveSpec(explicit)
  ELSE IF ResolveSpec(tag) # Nothing THEN ResolveSpec(tag)
  ELSE FallbackModel(fallback)

LegacySpec(provider, model) ==
  IF provider = NoName \/ model = NoName \/ (Len(model) > 1 /\ model[1] = provider[1])
  THEN model ELSE provider \o model

(* A provider configured without a model is taken as it is.                *)
TaskModel(provider, model, tag, fallback) ==
  IF model = NoName /\ provider # NoName /\ provider[1] \in SlotIds
  THEN Choice(SlotOf(provider[1]), SlotOf(provider[1]).default)
  ELSE ForTask(LegacySpec(provider, model), tag, fallback)

(*----------------------------- a chat's run ------------------------------*)

WithoutPrefix(id, name) == IF Len(name) > 1 /\ name[1] = id THEN Tail(name) ELSE name

(* Asked for directly, a slot that does not serve the model answers with   *)
(* its default model.                                                      *)
DirectChoice(id, name) ==
  LET slot  == SlotOf(id)
      model == WithoutPrefix(id, name)
  IN Choice(slot, IF model # NoName /\ SupportsModel(slot, model) THEN model ELSE slot.default)

(* Stored with the session, it is passed over and the model looked up.     *)
SessionChoice(id, name) ==
  LET model == WithoutPrefix(id, name)
      slot  == IF id \in SlotIds THEN {SlotOf(id)} ELSE {}
      own   == {Choice(s, model) : s \in {s \in slot : model # NoName /\ SupportsModel(s, model)}}
      plain == {Choice(s, s.default) : s \in {s \in slot : model = NoName}}
      found == IF name = NoName THEN {} ELSE {ModelSelection(name)} \ {Nothing}
  IN CHOOSE c \in IF own \cup plain # {} THEN own \cup plain
                  ELSE IF found # {} THEN found ELSE {DefaultChoice} : TRUE

ResolveProvider(id, name, storedId, storedName) ==
  IF id \in SlotIds THEN DirectChoice(id, name)
  ELSE IF name # NoName /\ ModelSelection(name) # Nothing THEN ModelSelection(name)
  ELSE SessionChoice(storedId, storedName)
============================================================================
