---------------------------- MODULE SessionMeta -----------------------------
(***************************************************************************)
(* The metadata of one session (sessions.metadata_json): the model /model  *)
(* chose, the settings of /reasoning (core/runtime_settings.py) and the    *)
(* cursor of memory dreaming share one JSON object, and each change of it  *)
(* reads the whole object, then writes the whole object.                   *)
(***************************************************************************)
EXTENDS Routing, FiniteSets

CONSTANTS
  Commands, Dreams,   \* the commands and the dreaming passes that change it
  Switches,           \* the names /model is given
  ReasoningUpdates    \* what /reasoning is given: settings to change ("none": reset)

(* A name does not give its slot twice: set_session_model would take the   *)
(* first for the slot, and _resolve_provider the second for a prefix that  *)
(* does not belong to the model.                                           *)
ASSUME ChangesAssumption ==
  /\ Switches \subseteq Seq(STRING) \ {NoName}
  /\ \A name \in Switches : name[1] \in SlotIds /\ Len(name) > 2 => name[2] # name[1]
  /\ \A updates \in ReasoningUpdates : DOMAIN updates \subseteq {"show", "effort"}

VARIABLES
  meta,    \* the object: a function from its keys
  merge,   \* each change under way
  said,    \* (auxiliary) what the last command that ended told the user of each setting
  doubt    \* (auxiliary) the settings changed while another change was under way

metaVars == <<meta, merge, said, doubt>>

Mergers  == Commands \cup Dreams
Settings == {"model", "show", "effort"}

(*------------------------------- settings --------------------------------*)

Stored(m, key, missing) == IF key \in DOMAIN m THEN m[key] ELSE missing
Runtime(m) == Stored(m, "runtime", <<>>)

(* runtime_settings_from_meta *)
RuntimeSettings(m) ==
  [show |-> Stored(Runtime(m), "show", "none"), effort |-> Stored(Runtime(m), "effort", "none")]

(* Of two objects, with the second one's value where both have a key.      *)
Overlaid(base, updates) ==
  [k \in DOMAIN base \cup DOMAIN updates |-> IF k \in DOMAIN updates THEN updates[k] ELSE base[k]]

DeepMerge(base, updates) ==
  LET merged == Overlaid(base, updates)
  IN [k \in {k \in DOMAIN merged : merged[k] # "none"} |-> merged[k]]

StoredChoice(m) ==
  ResolveProvider("none", NoName, Stored(m, "provider_id", "none"), Stored(m, "model", NoName))

InEffect(key) == IF key = "model" THEN StoredChoice(meta) ELSE RuntimeSettings(meta)[key]

Cursor == Stored(meta, "cursor", 0)

(*-------------------------------- changes --------------------------------*)

NoMerge == [pc |-> "idle", keys |-> <<>>, updates |-> <<>>, existing |-> <<>>, alone |-> TRUE]
Merging == {c \in Mergers : merge[c].pc \in {"reading", "writing"}}

MetaInit ==
  /\ meta = <<>>
  /\ merge = [c \in Mergers |-> NoMerge]
  /\ said = [k \in Settings |-> InEffect(k)]
  /\ doubt = {}

(* A change of the metadata is on its way; one that meets another is not   *)
(* alone, and neither is the other. (Bound: one change a command.)         *)
BeginMerge(c, keys, updates) ==
  /\ merge[c].pc = "idle"
  /\ merge' = [d \in Mergers |->
       IF d = c THEN [NoMerge EXCEPT !.pc = "reading", !.keys = keys, !.updates = updates,
                                     !.alone = Merging = {}]
       ELSE [merge[d] EXCEPT !.alone = @ /\ d \notin Merging]]
  /\ UNCHANGED <<meta, said, doubt>>

(* /model: set_session_model *)
SwitchModel(c) ==
  \E choice \in {ModelSelection(name) : name \in Switches} \ {Nothing} :
    BeginMerge(c, [model |-> choice], [provider_id |-> choice.slot, model |-> choice.model])

(* /reasoning: update_runtime_settings reads the settings it merges into.  *)
ChangeReasoning(c) ==
  \E updates \in ReasoningUpdates :
    BeginMerge(c, updates, [runtime |-> DeepMerge(Runtime(meta), updates)])

(* update_session_metadata reads, then takes write_lock.                   *)
ReadMeta(c) ==
  /\ merge[c].pc = "reading"
  /\ merge' = [merge EXCEPT ![c].pc = "writing", ![c].existing = meta]
  /\ UNCHANGED <<meta, said, doubt>>

(* Mutant of Merged: the update takes the place of what was there.         *)
Replaced(existing, updates) == updates

Merged(existing, updates) == Overlaid(existing, updates)

WriteMeta(c) ==
  /\ merge[c].pc = "writing"
  /\ meta' = Merged(merge[c].existing, merge[c].updates)
  /\ merge' = [merge EXCEPT ![c] = IF c \in Dreams THEN NoMerge ELSE [NoMerge EXCEPT !.pc = "done"]]
  /\ said' = Overlaid(said, merge[c].keys)
  /\ doubt' = IF merge[c].alone THEN doubt \ DOMAIN merge[c].keys ELSE Settings

(* What a command said it set is in effect until a command changes it,     *)
(* unless two changes of the metadata overlapped (set_session_model and    *)
(* update_runtime_settings against _resolve_provider and                   *)
(* runtime_settings_from_meta; a dreaming pass changes the same object).   *)
SettingsSurvive == \A k \in Settings \ doubt : InEffect(k) = said[k]
============================================================================
