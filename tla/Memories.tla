------------------------------ MODULE Memories ------------------------------
(***************************************************************************)
(* How the turns of a session become durable memories                      *)
(* (agent/memory/consolidation.py): the consolidation after each chat turn *)
(* extracts with rules, the dreaming pass of the scheduler                 *)
(* (scheduler/service.py, _dream_session) asks a model about the turns     *)
(* after its cursor, which it keeps in the session's metadata. Each await  *)
(* of theirs ends a step.                                                  *)
(***************************************************************************)
EXTENDS SessionMeta

CONSTANTS
  Turns,          \* the chat turns that may end
  Blank,          \* those whose messages are blank
  Contents,       \* what a memory may say
  Key, Words,     \* of each content: _normalize_for_dedupe, and what the search indexes
  Unsafe,         \* the contents validate_memory_content refuses
  RuleMemories,   \* what the rules extract from each turn
  Dreamt,         \* what the model may answer to a dreaming pass: sequences of contents
  Said,           \* what each /memory remember keeps
  Place,          \* the workspace of each turn and pass, or NoPlace
  DreamProvider, DreamModel,  \* memory_dreaming_provider_id, memory_dreaming_model
  Window,         \* memory_dreaming_recent_turn_limit
  SearchLimit,    \* the hits _has_duplicate asks for: 10
  ProjectionLimit \* the memories a file lists and a pass is given: 40

Jobs    == Turns \cup Dreams
Hands   == DOMAIN Said
NoPlace == "none"
Places  == {Place[j] : j \in Jobs} \ {NoPlace}

ASSUME MemoryAssumption ==
  /\ Window \in Nat \ {0}
  /\ Turns \cap Dreams = {} /\ Commands \cap Dreams = {} /\ Hands \cap Jobs = {}
  /\ DOMAIN Key = Contents /\ DOMAIN Words = Contents /\ DOMAIN RuleMemories = Turns

VARIABLES
  rows,      \* memory_turns of the session, oldest first
  lastId,    \* the id the last row got (AUTOINCREMENT)
  items,     \* memory_items, in the order of their appends
  file,      \* the memories MEMORY.md and memory_summary.md of each workspace list
  job,       \* each consolidation
  taken,     \* (auxiliary) the rows a dreaming pass asked its model about
  outside    \* (auxiliary) the rows that were older than the window of a pass

memVars == <<rows, lastId, items, file, job, taken, outside>>
vars == <<metaVars, memVars>>

(* Auxiliary: "searched" is how many memories there were when the job made *)
(* its last search, 0 if the search left a hit out; "orderly" that it      *)
(* ended with its file as its memories ask for.                            *)
NoJob == [pc |-> "idle", cursor |-> 0, new |-> {}, todo |-> <<>>, known |-> {},
          archives |-> {}, added |-> {}, archived |-> {}, searched |-> 0, orderly |-> FALSE]

Ids(s) == {w.id : w \in s}
Active == {i \in DOMAIN items : items[i].active}
Ended  == {"idle", "done"}

(* The states' types.                                                      *)
TypeOK ==
  /\ \A i \in DOMAIN rows : rows[i].id \in 1..lastId
  /\ \A i \in DOMAIN items : items[i].content \in Contents /\ items[i].by \in Jobs \cup Hands
  /\ file \in [Places -> SUBSET DOMAIN items]
  /\ \A j \in Jobs : job[j].pc \in {"idle", "replying", "records", "loading", "asking", "check",
                                    "append", "cursor", "done"}

Init ==
  /\ MetaInit
  /\ rows = <<>> /\ lastId = 0 /\ items = <<>> /\ file = [p \in Places |-> {}]
  /\ job = [j \in Jobs |-> NoJob]
  /\ taken = {} /\ outside = {}

Step(j, change) == job' = [job EXCEPT ![j] = change]

(*--------------------------------- turns ---------------------------------*)

NextId == lastId + 1

AppendTurn(t) ==
  /\ rows' = Append(rows, [id |-> NextId, blank |-> t \in Blank])
  /\ lastId' = NextId

(* _persist_turns: the message, then the answer, then the consolidation.   *)
StoreMessage(t) ==
  /\ job[t].pc = "idle"
  /\ AppendTurn(t)
  /\ Step(t, [job[t] EXCEPT !.pc = "replying"])
  /\ UNCHANGED <<metaVars, items, file, taken, outside>>

StoreReply(t) ==
  /\ job[t].pc = "replying"
  /\ IF t \in Blank THEN UNCHANGED <<rows, lastId>> ELSE AppendTurn(t)
  /\ Step(t, [job[t] EXCEPT !.pc = "loading"])
  /\ UNCHANGED <<metaVars, items, file, taken, outside>>

(* /reset; the cursor stays.                                               *)
ClearSession ==
  /\ rows # <<>> /\ rows' = <<>> /\ taken' = {} /\ outside' = {}
  /\ UNCHANGED <<metaVars, lastId, items, file, job>>

(*--------------------------- a pass of dreaming --------------------------*)

DreamChoice ==
  LET task == ForTask(LegacySpec(DreamProvider, DreamModel), <<"memory">>, "session")
  IN IF task # Nothing THEN task ELSE StoredChoice(meta)

(* The scheduler starts no pass while another one runs.                    *)
StartPass(d) ==
  /\ job[d].pc = "idle" /\ \A e \in Dreams : job[e].pc \in Ended
  /\ Step(d, [job[d] EXCEPT !.pc = "records", !.cursor = Cursor])
  /\ UNCHANGED <<metaVars, rows, lastId, items, file, taken, outside>>

(* Fewer than two new rows, no provider or nothing but blank rows: the     *)
(* pass leaves the session for another time.                               *)
ReadRecords(d) ==
  LET recent == {rows[i] : i \in {i \in DOMAIN rows : i > Len(rows) - Window}}
      new    == {w \in recent : w.id > job[d].cursor}
  IN /\ job[d].pc = "records"
     /\ IF Cardinality(new) < 2 \/ DreamChoice = Nothing \/ \A w \in new : w.blank
        THEN Step(d, NoJob) /\ UNCHANGED outside
        ELSE /\ Step(d, [NoJob EXCEPT !.pc = "loading", !.new = Ids(new)])
             /\ outside' = outside \cup Ids(ToSet(rows) \ recent)
     /\ UNCHANGED <<metaVars, rows, lastId, items, file, taken>>

(* Mutant of CursorAfter: the last row there is when the pass is over.     *)
CursorNow(d) == lastId

CursorAfter(d) == Max(job[d].new)

(* Whether the model answered or failed, and whatever came of the answer.  *)
MoveCursor(d) ==
  /\ job[d].pc = "cursor"
  /\ BeginMerge(d, <<>>, [cursor |-> CursorAfter(d)])
  /\ UNCHANGED memVars

(*----------------------------- consolidation -----------------------------*)

(* _dedupe_extractions: the first of equal ones stays.                     *)
Deduped(s) ==
  FoldLeft(LAMBDA kept, c : IF \E i \in DOMAIN kept : Key[kept[i]] = Key[c] THEN kept
                            ELSE Append(kept, c), <<>>, s)

Over(j) == IF j \in Dreams THEN [NoJob EXCEPT !.pc = "cursor", !.new = job[j].new]
           ELSE [NoJob EXCEPT !.pc = "done"]

(* What is unsafe is dropped at once; with nothing left there is no await. *)
Extract(j, found, archives) ==
  LET todo == SelectSeq(Deduped(found), LAMBDA c : c \notin Unsafe)
  IN Step(j, IF todo = <<>> /\ archives = {} THEN Over(j)
             ELSE [NoJob EXCEPT !.pc = "check", !.new = job[j].new, !.todo = todo,
                                !.archives = archives])

(* A search that finds more than it asks for returns the best: which these *)
(* are is up to the ranking.                                               *)
Found(hits, limit) ==
  IF Cardinality(hits) <= limit THEN {hits} ELSE {s \in SUBSET hits : Cardinality(s) = limit}

(* A turn takes what the rules find; a pass asks the model about the new   *)
(* rows and the memories there are: the best ProjectionLimit of them, and  *)
(* as the ranking may choose any, "known" has all that may be named. A     *)
(* search that fails gives it none, and the answer names none then.        *)
LoadExisting(j) ==
  /\ job[j].pc = "loading"
  /\ IF j \in Turns
     THEN Extract(j, RuleMemories[j], {}) /\ UNCHANGED taken
     ELSE /\ Step(j, [job[j] EXCEPT !.pc = "asking", !.known = Active])
          /\ taken' = taken \cup job[j].new
  /\ UNCHANGED <<metaVars, rows, lastId, items, file, outside>>

(* A failed call, or an answer that is no JSON, is an answer with nothing; *)
(* an archive of a memory that was not taken is passed over. (Bound: one   *)
(* archive an answer.)                                                     *)
ModelAnswers(d) ==
  /\ job[d].pc = "asking"
  /\ \E add \in Dreamt \cup {<<>>}, archives \in {{}} \cup {{id} : id \in job[d].known} :
       Extract(d, add, archives)
  /\ UNCHANGED <<metaVars, rows, lastId, items, file, taken, outside>>

Matches(c) == {i \in Active : items[i].indexed /\ Words[items[i].content] \cap Words[c] # {}}

(* Mutant of Hits: a search with no words finds nothing.                   *)
OnlyMatches(c) == Matches(c)

(* search_items: with no words, all there are.                             *)
Hits(c) == IF Words[c] = {} THEN Active ELSE Matches(c)

HasDuplicate(c, found) == \E i \in found : Key[items[i].content] = Key[c]

(* A search that fails finds nothing.                                      *)
CheckNext(j) ==
  /\ job[j].pc = "check" /\ job[j].todo # <<>>
  /\ LET c == Head(job[j].todo)
     IN \E found \in Found(Hits(c), SearchLimit) \cup {{}} :
          Step(j, IF HasDuplicate(c, found) THEN [job[j] EXCEPT !.todo = Tail(@)]
                  ELSE [job[j] EXCEPT !.pc = "append", !.searched = IF found = Hits(c) THEN Len(items) ELSE 0])
  /\ UNCHANGED <<metaVars, rows, lastId, items, file, taken, outside>>

Appended(content, by, searched, indexed) ==
  Append(items, [content |-> content, by |-> by, active |-> TRUE, searched |-> searched,
                 indexed |-> indexed])

(* The candidate before it and its mark after it are kept for nobody.      *)
AppendItem(j) ==
  /\ job[j].pc = "append"
  /\ items' = Appended(Head(job[j].todo), j, job[j].searched, TRUE)
  /\ Step(j, [job[j] EXCEPT !.pc = "check", !.todo = Tail(@), !.added = @ \cup {Len(items) + 1},
                            !.searched = 0])
  /\ UNCHANGED <<metaVars, rows, lastId, file, taken, outside>>

(* /memory remember appends without a look. (Bound: one each.)             *)
Remember(h) ==
  /\ \A i \in DOMAIN items : items[i].by # h
  /\ items' = Appended(Said[h], h, 0, TRUE)
  /\ UNCHANGED <<metaVars, rows, lastId, file, job, taken, outside>>

(* What another one archived first is not archived again.                  *)
ArchiveNext(j) ==
  /\ job[j].pc = "check" /\ job[j].todo = <<>>
  /\ \E id \in job[j].archives :
       /\ items' = [items EXCEPT ![id].active = FALSE]
       /\ Step(j, [job[j] EXCEPT !.archives = @ \ {id}, !.archived = @ \cup ({id} \cap Active)])
  /\ UNCHANGED <<metaVars, rows, lastId, file, taken, outside>>

(* Mutant of Applied: only what was added counts.                          *)
OnlyAdded(j) == job[j].added

Applied(j) == job[j].added \cup job[j].archived

(* What is remembered of a job whose file is as its memories ask for.      *)
Orderly(j) ==
  [Over(j) EXCEPT !.orderly = TRUE, !.added = job[j].added, !.archived = job[j].archived]

Projects(j) == Applied(j) # {} /\ Place[j] # NoPlace

(* project_workspace_memory: the file of the job's own workspace gets what *)
(* a search finds; one that fails leaves it as it is. Files are written in *)
(* the order of their searches, one connection answers all.                *)
Finish(j) ==
  /\ job[j].pc = "check" /\ job[j].todo = <<>> /\ job[j].archives = {}
  /\ \/ /\ Projects(j)
        /\ \E list \in Found(Active, ProjectionLimit) : file' = [file EXCEPT ![Place[j]] = list]
        /\ Step(j, Orderly(j))
     \/ /\ Projects(j)
        /\ Step(j, Over(j)) /\ UNCHANGED file
     \/ /\ ~ Projects(j)
        /\ Step(j, IF Place[j] = NoPlace THEN Over(j) ELSE Orderly(j)) /\ UNCHANGED file
  /\ UNCHANGED <<metaVars, rows, lastId, items, taken, outside>>

(* /stop or a shutdown cancels the run or the pass at one of its awaits,   *)
(* or a write raises: what it was about to append may be in the table but  *)
(* not in its index.                                                       *)
Cut(j) ==
  /\ job[j].pc \notin Ended \cup {"cursor"}
  /\ \/ UNCHANGED items
     \/ /\ job[j].pc = "append"
        /\ items' = Appended(Head(job[j].todo), j, job[j].searched, FALSE)
  /\ Step(j, [NoJob EXCEPT !.pc = "done"])
  /\ UNCHANGED <<metaVars, rows, lastId, file, taken, outside>>

(*----------------------------- specification -----------------------------*)

Command(c) == (SwitchModel(c) \/ ChangeReasoning(c)) /\ UNCHANGED memVars
ReadObject(c) == ReadMeta(c) /\ UNCHANGED memVars

(* (Bound: a pass that changed the memories is the last of its name, any   *)
(* other one may come again.)                                              *)
WriteObject(c) ==
  /\ WriteMeta(c)
  /\ IF c \notin Dreams THEN UNCHANGED job
     ELSE Step(c, IF job[c].archived = {} /\ \A i \in DOMAIN items : items[i].by # c THEN NoJob
                  ELSE [job[c] EXCEPT !.pc = "done", !.new = {}])
  /\ UNCHANGED <<rows, lastId, items, file, taken, outside>>

Next ==
  \/ \E t \in Turns : StoreMessage(t) \/ StoreReply(t)
  \/ \E d \in Dreams : StartPass(d) \/ ReadRecords(d) \/ ModelAnswers(d) \/ MoveCursor(d)
  \/ \E j \in Jobs : \/ LoadExisting(j) \/ CheckNext(j) \/ AppendItem(j) \/ ArchiveNext(j)
                      \/ Finish(j) \/ Cut(j)
  \/ \E h \in Hands : Remember(h)
  \/ \E c \in Commands : Command(c)
  \/ \E c \in Mergers : ReadObject(c) \/ WriteObject(c)
  \/ ClearSession

Spec == Init /\ [][Next]_vars

(*------------------------------ properties -------------------------------*)

(* Every row at or below the cursor was among those a dreaming pass asked  *)
(* its model about, or was older than the newest Window rows when a pass   *)
(* read them: no turn that ends while a pass is under way, and none stored *)
(* after a /reset, is passed over (_dream_session and the ids of           *)
(* memory_turns; of a long conversation the prompt has the first 2000      *)
(* characters, and a call that fails is not repeated).                     *)
NothingIsSkipped ==
  \A i \in DOMAIN rows : rows[i].id <= Cursor => rows[i].id \in taken \cup outside

(* Of two memories that say the same, the later one was added without a    *)
(* search that had seen the earlier one: by hand, or because the earlier   *)
(* one was not there yet or never reached the index, its append cut short, *)
(* or because the search failed or found more than it asked for            *)
(* (_has_duplicate against append_item and /memory remember).              *)
TwinsUnseen ==
  \A i, k \in Active :
    (i < k /\ items[i].content = items[k].content) =>
      items[k].searched < i \/ ~ items[i].indexed

(* Once a consolidation ended with a workspace of its own and without a    *)
(* failed search, the memory file of that workspace lists what it added,   *)
(* as long as that is active and unless ProjectionLimit others do, and     *)
(* nothing it archived, whoever writes the file after it                   *)
(* (consolidate_turn, project_workspace_memory). Of what /memory remember  *)
(* keeps, and what consolidations of other workspaces change, it learns    *)
(* with the next one that has something to write.                          *)
FileKeepsUp ==
  \A j \in Jobs : job[j].orderly =>
    LET listed == file[Place[j]]
    IN /\ \A i \in job[j].added \cap Active : i \in listed \/ Cardinality(listed) = ProjectionLimit
       /\ job[j].archived \cap listed = {}
============================================================================
