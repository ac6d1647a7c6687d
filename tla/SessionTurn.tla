---------------------------- MODULE SessionTurn -----------------------------
(***************************************************************************)
(* The turns of one group chat's session (core/session_runner.py): what a  *)
(* run is given from the database and what it leaves there, next to        *)
(* messages the bot only observes, runs of the scheduler in the same       *)
(* session, and the commands /reset and /model.                            *)
(***************************************************************************)
EXTENDS Routing, Media

CONSTANTS
  ChatRuns, CronRuns,  \* runs for messages of the chat; runs of the scheduler
  Direct,              \* what each cron run asks for: provider and model
  Sent,                \* what the message of each chat run may carry: sequences of attachments
  MaxHistory,          \* max_history_turns
  ContextMax,          \* group_context_max_messages
  ContextLines,        \* how many of them group_context_max_chars has room for
  Overfetch, OverfetchMin,
  Switches,            \* the names /model is given
  MaxObserved          \* bound: messages observed

ASSUME TurnAssumption ==
  /\ {MaxHistory, ContextMax, ContextLines, Overfetch, OverfetchMin} \subseteq Nat
  /\ MaxHistory > 0 /\ ChatRuns \cap CronRuns = {}
  /\ \A r \in ChatRuns : Sent[r] \subseteq Seq(Attachments)

VARIABLES
  rows,          \* memory_turns of the session, oldest first
  stored,        \* the choice in the session's metadata
  disk,          \* the files of the pictures
  run            \* each run

vars == <<rows, stored, disk, run>>

Runs     == ChatRuns \cup CronRuns
Images   == UNION {UNION {{<<r, i>> : i \in DOMAIN p} : p \in Sent[r]} : r \in ChatRuns}

(* With no slot resolved the model counts neither as able to see nor as    *)
(* blind.                                                                  *)
Vision(choice) == choice # Nothing /\ Capable(SlotOf(choice.slot), choice.model)
Blind(choice)  == choice # Nothing /\ ~ Capable(SlotOf(choice.slot), choice.model)

(*-------------------------------- history --------------------------------*)

Row(r, role, observed, atts) == [run |-> r, role |-> role, observed |-> observed, atts |-> atts]

(* The rows that are marked as observed, or those that are not, in their   *)
(* order.                                                                  *)
Marked(s, observed) ==
  LET kept[i \in 0 .. Len(s)] ==
        IF i = 0 THEN <<>>
        ELSE IF s[i].observed = observed THEN Append(kept[i - 1], s[i]) ELSE kept[i - 1]
  IN kept[Len(s)]

Dialogue(s) == Marked(s, FALSE)
Observed(s) == Marked(s, TRUE)

Surplus == IF Overfetch * ContextMax > OverfetchMin THEN Overfetch * ContextMax ELSE OverfetchMin

(* Mutant of QueryLimit: no surplus for observed rows.                     *)
PlainLimit(group) == MaxHistory

QueryLimit(group) == IF group /\ ContextMax > 0 THEN MaxHistory + Surplus ELSE MaxHistory

HistoryOf(records, blind, up) ==
  LET turns == LastN(Dialogue(records), MaxHistory)
      message(w) == [run |-> w.run, role |-> w.role, parts |-> Reconstructed(w.atts, disk, up)]
  IN ApplyMediaPolicy([i \in DOMAIN turns |-> message(turns[i])], blind)

(* The newest observed rows, older ones first when room is scarce; "old"   *)
(* of the records are older than group_context_ttl_seconds, and "repeated" *)
(* of the others are the message itself that is being answered.            *)
ObservedContext(records, old, repeated) ==
  LET recent == Observed(SubSeq(records, old + 1, Len(records)))
      others == FirstN(recent, Len(recent) - repeated)
  IN Len(FirstN(LastN(others, ContextMax), ContextLines))

(* In the mode "tool" the registry holds image_understand for every run.   *)
CollectTools == IF FallbackMode = "tool" THEN {"image_understand"} ELSE {}

(*--------------------------------- runs ----------------------------------*)

NoRun  == [pc |-> "idle", atts |-> <<>>, choice |-> Nothing, history |-> <<>>, observed |-> 0,
           parts |-> <<>>, tools |-> {}]
Ended  == {"done", "cancelled"}
Busy   == {r \in Runs : run[r].pc \notin Ended \cup {"idle"}}

Shown(parts) == [run : Runs, role : {"user", "assistant"}, parts : Seq(parts)]

(* A stored picture has a file or only its id; a run's history is within   *)
(* its bound.                                                              *)
TypeOK ==
  /\ rows \in Seq([run : Runs \cup {"observed"}, role : {"user", "assistant"},
                   observed : BOOLEAN, atts : Seq(Pictures(Images))])
  /\ \A i \in DOMAIN rows : \A k \in DOMAIN rows[i].atts : rows[i].atts[k].place # "url"
  /\ stored.slot \in SlotIds \cup {"none"}
  /\ disk \in [Images -> Files]
  /\ \A r \in Runs :
       /\ run[r].pc \in Ended \cup
            {"idle", "started", "routed", "ready", "answered", "silent", "half"}
       /\ run[r].atts \in Seq(Pictures(Images))
       /\ run[r].choice.slot \in SlotIds \cup {"none"}
       /\ run[r].history \in Seq(Shown(Parts)) /\ Len(run[r].history) <= MaxHistory
       /\ run[r].parts \in Seq(Parts)

Init ==
  /\ rows = <<>> /\ stored = Nothing
  /\ disk = [i \in Images |-> "none"] /\ run = [r \in Runs |-> NoRun]

(* A picture is known by its message and its place in it.                  *)
Picture(id, a) == [id |-> id, place |-> a.place, alt |-> a.alt, large |-> a.large, odd |-> a.odd]
Numbered(r, sent) == [i \in DOMAIN sent |-> Picture(<<r, i>>, sent[i])]

Asks(r) == IF r \in CronRuns THEN Direct[r] ELSE [provider |-> "none", model |-> NoName]

(* The router starts one run of the chat at a time.                        *)
StartRun(r) ==
  /\ run[r].pc = "idle" /\ (r \in ChatRuns => Busy \cap ChatRuns = {})
  /\ \E sent \in IF r \in ChatRuns THEN Sent[r] ELSE {<<>>} :
       /\ run' = [run EXCEPT ![r] =
            [@ EXCEPT !.pc = "started", !.atts = Numbered(r, sent)]]
       /\ disk' = [i \in Images |->
            IF \E k \in DOMAIN sent : i = <<r, k>> /\ sent[k].place = "path"
            THEN "fresh" ELSE disk[i]]
  /\ UNCHANGED <<rows, stored>>

RouteRun(r) ==
  /\ run[r].pc = "started"
  /\ run' = [run EXCEPT ![r] =
       [@ EXCEPT !.pc = "routed",
                 !.choice = ResolveProvider(
                   Asks(r).provider, Asks(r).model, stored.slot, stored.model)]]
  /\ UNCHANGED <<rows, stored, disk>>

(* The model that describes pictures for one that cannot see them.         *)
VisionModel == TaskModel(NoName, NoName, <<"vision">>, "disabled")

Fetched(r, vision) ==
  LET shown == IF MaxImages > 0 THEN FirstN(run[r].atts, MaxImages) ELSE run[r].atts
  IN IF vision THEN {a \in ToSet(shown) : ~ a.odd}
     ELSE IF FallbackMode = "auto" /\ VisionModel # Nothing
          THEN ToSet(FirstN(run[r].atts, FallbackImages))
     ELSE {}

(* What the model is given: history, observed context, the turn's parts    *)
(* and the tools.                                                          *)
Assemble(r) ==
  /\ run[r].pc = "routed"
  /\ \E up \in BOOLEAN, records \in {LastN(rows, QueryLimit(r \in ChatRuns))},
        vision \in {Vision(run[r].choice)}, blind \in {Blind(run[r].choice)} :
       \E old, repeated \in 0 .. IF r \in ChatRuns THEN Len(records) ELSE 0 :
          /\ run' = [run EXCEPT ![r] =
               [@ EXCEPT !.pc = "ready",
                         !.history = HistoryOf(records, blind, up),
                         !.observed = IF r \in ChatRuns
                                        THEN ObservedContext(records, old, repeated) ELSE 0,
                         !.parts = UserParts(run[r].atts, vision, disk, up),
                         !.tools = CollectTools]]
          /\ disk' = AfterResolving(Fetched(r, vision), disk, up)
  /\ UNCHANGED <<rows, stored>>

(* The tool looks at the run's last picture, else at the newest one stored,*)
(* and returns a text.                                                     *)
LatestPicture(r) ==
  LET turns  == LastN(rows, MaxHistory)
      with   == {i \in DOMAIN turns : turns[i].atts # <<>>}
      newest == {i \in with : \A k \in with : k <= i}
  IN IF run[r].atts # <<>> THEN {Last(run[r].atts)}
     ELSE {Last(turns[i].atts) : i \in newest}

UnderstandImage(r) ==
  /\ run[r].pc = "ready" /\ "image_understand" \in run[r].tools /\ VisionModel # Nothing
  /\ \E up \in BOOLEAN : disk' = AfterResolving(LatestPicture(r), disk, up)
  /\ UNCHANGED <<rows, stored, run>>

(* The agent loop ends, with or without a final response.                  *)
Answer(r) ==
  /\ run[r].pc = "ready"
  /\ \E pc \in {"answered", "silent"} :
       run' = [run EXCEPT ![r] = [NoRun EXCEPT !.pc = pc, !.atts = run[r].atts]]
  /\ UNCHANGED <<rows, stored, disk>>

PersistUser(r) ==
  /\ run[r].pc \in {"answered", "silent"}
  /\ \E up \in BOOLEAN :
       /\ rows' = Append(rows, Row(r, "user", FALSE,
                    [i \in DOMAIN run[r].atts |-> Persisted(run[r].atts[i], disk, up)]))
       /\ disk' = AfterResolving(ToSet(run[r].atts), disk, up)
  /\ run' = [run EXCEPT ![r] =
       [NoRun EXCEPT !.pc = IF run[r].pc = "answered" THEN "half" ELSE "done"]]
  /\ UNCHANGED stored

PersistAnswer(r) ==
  /\ run[r].pc = "half"
  /\ rows' = Append(rows, Row(r, "assistant", FALSE, <<>>))
  /\ run' = [run EXCEPT ![r].pc = "done"]
  /\ UNCHANGED <<stored, disk>>

(* /stop, a shutdown, or an exception: the run ends where it is.           *)
CancelRun(r) ==
  /\ r \in Busy
  /\ run' = [run EXCEPT ![r] = [NoRun EXCEPT !.pc = "cancelled"]]
  /\ UNCHANGED <<rows, stored, disk>>

(* persist_observed_message; pictures of such messages are left out.       *)
Observe ==
  /\ Len(Observed(rows)) < MaxObserved
  /\ rows' = Append(rows, Row("observed", "user", TRUE, <<>>))
  /\ UNCHANGED <<stored, disk, run>>

(* Time passes over a downloaded file, or somebody deletes it.             *)
AgeFile(i) ==
  /\ disk[i] # "none"
  /\ disk' = [disk EXCEPT ![i] = IF @ = "fresh" THEN "expired" ELSE "none"]
  /\ UNCHANGED <<rows, stored, run>>

(*------------------------------- commands --------------------------------*)

(* /reset *)
ClearSession ==
  /\ rows # <<>> /\ rows' = <<>>
  /\ UNCHANGED <<stored, disk, run>>

(* /model; how the change of the metadata is made is SessionMeta's concern.*)
SwitchModel ==
  /\ \E name \in Switches : ModelSelection(name) # Nothing /\ stored' = ModelSelection(name)
  /\ UNCHANGED <<rows, disk, run>>

RunStep(r) ==
  \/ StartRun(r) \/ RouteRun(r) \/ Assemble(r) \/ UnderstandImage(r) \/ Answer(r)
  \/ PersistUser(r) \/ PersistAnswer(r) \/ CancelRun(r)

Next ==
  \/ \E r \in Runs : RunStep(r)
  \/ \E i \in Images : AgeFile(i)
  \/ Observe \/ ClearSession \/ SwitchModel

Spec == Init /\ [][Next]_vars

(*------------------------------ properties -------------------------------*)

(* A run for a message of a group is given the last MaxHistory turns of    *)
(* the dialogue, whatever runs of the scheduler, half-stored turns and     *)
(* resets went before, as long as the chatter observed since the oldest of *)
(* them fits the surplus (_history_query_limit, _build_history_context).   *)
HistoryIsLast ==
  [][\A r \in ChatRuns :
       (ContextMax > 0 /\ run[r].pc = "routed" /\ run'[r].pc = "ready") =>
         LET turns == LastN(Dialogue(rows), MaxHistory)
             given == run'[r].history
             since(k) == SubSeq(rows, k, Len(rows))
         IN (\A k \in DOMAIN rows :
               turns # <<>> /\ rows[k] = turns[1] => Len(Observed(since(k))) <= Surplus) =>
              /\ Len(given) = Len(turns)
              /\ \A i \in DOMAIN given :
                   given[i].run = turns[i].run /\ given[i].role = turns[i].role]_vars

(* A model known not to see is never given a picture, neither one of the   *)
(* turn nor one that an earlier turn stored while another model served the *)
(* session (_apply_media_context_policy, _build_user_parts).               *)
NoImagesForTextModel ==
  \A r \in Runs :
    (run[r].pc = "ready" /\ Blind(run[r].choice)) =>
      /\ ImageParts(run[r].parts) = {}
      /\ \A i \in DOMAIN run[r].history : ImageParts(run[r].history[i].parts) = {}
============================================================================
