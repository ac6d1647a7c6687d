--------------------------- MODULE MemoriesProofs ---------------------------
(***************************************************************************)
(* What holds of Memories for every set of turns, memories, passes and     *)
(* commands: no turn is passed over by the dreaming cursor, of two equal   *)
(* memories the later one was added without a search that had seen the     *)
(* earlier one, the memory file has what a consolidation wrote it for, and *)
(* a setting is lost only by changes that overlapped.                      *)
(***************************************************************************)
EXTENDS Memories, SequenceLemmas, FiniteSetTheorems

-----------------------------------------------------------------------------
(*                            The invariant                                *)
-----------------------------------------------------------------------------

(*--------------------------------- types ---------------------------------*)

JobRecord(r) ==
  /\ r = [pc |-> r.pc, cursor |-> r.cursor, new |-> r.new, todo |-> r.todo, known |-> r.known,
          archives |-> r.archives, added |-> r.added, archived |-> r.archived,
          searched |-> r.searched, orderly |-> r.orderly]
  /\ r.cursor \in Nat /\ r.new \in SUBSET Nat /\ r.orderly \in BOOLEAN

MergeRecord(r) ==
  r = [pc |-> r.pc, keys |-> r.keys, updates |-> r.updates, existing |-> r.existing,
       alone |-> r.alone]

Item(m) ==
  /\ m = [content |-> m.content, by |-> m.by, active |-> m.active, searched |-> m.searched,
          indexed |-> m.indexed]
  /\ m.active \in BOOLEAN /\ m.searched \in Nat /\ m.indexed \in BOOLEAN

RowsOK  == /\ rows \in Seq([id : Nat, blank : BOOLEAN]) /\ lastId \in Nat
           /\ \A i \in DOMAIN rows : rows[i].id \in 1..lastId
ItemsOK == (\E S : items \in Seq(S)) /\ \A i \in DOMAIN items : Item(items[i])
FileOK  == file = [p \in Places |-> file[p]]
JobsOK  == job = [j \in Jobs |-> job[j]] /\ \A j \in Jobs : JobRecord(job[j])
MergeOK == merge = [c \in Mergers |-> merge[c]] /\ \A c \in Mergers : MergeRecord(merge[c])
SaidOK  == said = [k \in Settings |-> said[k]]

Types == RowsOK /\ ItemsOK /\ FileOK /\ JobsOK /\ MergeOK /\ SaidOK

(*------------------------------ the cursor -------------------------------*)

(* A cursor at k passes no row over.                                       *)
Safe(k) ==
  /\ k \in 0..lastId
  /\ \A i \in DOMAIN rows : rows[i].id <= k => rows[i].id \in taken \cup outside

(* The rows of a batch lie at or below its last one, and so does no other  *)
(* row that was not taken; before the model is asked, its own are not.     *)
Batch(new) == new # {} /\ new \subseteq 1..lastId

FreshBatch(new) ==
  /\ Batch(new)
  /\ \A i \in DOMAIN rows : rows[i].id \in taken \cup outside \cup new \/ \A k \in new : rows[i].id > k

Asked == {"asking", "check", "append", "cursor"}

PassIsSafe(d) ==
  /\ job[d].pc = "records" => Safe(job[d].cursor)
  /\ job[d].pc = "loading" => FreshBatch(job[d].new)
  /\ job[d].pc \in Asked => Batch(job[d].new) /\ Safe(Max(job[d].new))

(* What a change of the metadata writes.                                   *)
WritesCursor(c) ==
  \E k : merge[c].updates = [cursor |-> k] /\ merge[c].keys = <<>> /\ Safe(k)

WritesModel(c) ==
  \E name \in Switches :
    LET choice == ModelSelection(name)
    IN /\ choice # Nothing /\ merge[c].keys = [model |-> choice]
       /\ merge[c].updates = [provider_id |-> choice.slot, model |-> choice.model]

WritesRuntime(c) ==
  /\ merge[c].keys \in ReasoningUpdates
  /\ \E base : /\ merge[c].updates = [runtime |-> DeepMerge(base, merge[c].keys)]
               /\ merge[c].alone => base = Runtime(meta)

ChangeIsSafe(c) ==
  /\ merge[c].pc \in {"reading", "writing"} => WritesCursor(c) \/ WritesModel(c) \/ WritesRuntime(c)
  /\ merge[c].pc = "writing" => Safe(Stored(merge[c].existing, "cursor", 0))

(* A pass waits for its cursor to be written.                              *)
Waits(d) == merge[d].pc \in {"reading", "writing"} => job[d].pc = "cursor"

CursorInv ==
  /\ Safe(Cursor)
  /\ \A d \in Dreams : Waits(d)
  /\ \A d \in Dreams : PassIsSafe(d)
  /\ \A c \in Mergers : ChangeIsSafe(c)

(*------------------------------- settings --------------------------------*)

(* A change that is alone works on the object that is stored.              *)
AloneInv ==
  \A c \in Merging :
    merge[c].alone => Merging = {c} /\ (merge[c].pc = "writing" => merge[c].existing = meta)

(*------------------------------- memories --------------------------------*)

(* What a job added and archived is in the table, and nothing archived     *)
(* comes back; with its file as it should be it adds and archives no more. *)
Own(j) ==
  /\ job[j].added \subseteq 1..Len(items)
  /\ job[j].archived \subseteq (1..Len(items)) \ Active
  /\ job[j].searched \in 0..Len(items)
  /\ job[j].orderly => job[j].pc \in {"cursor", "done"} /\ Place[j] # NoPlace

(* None of the memories a job searched says what it is about to add.       *)
SearchedFirst(j) ==
  job[j].pc = "append" =>
    \A i \in Active : (i <= job[j].searched /\ items[i].content = Head(job[j].todo)) => ~ items[i].indexed

MemInv ==
  /\ \A j \in Jobs : Own(j)
  /\ \A j \in Jobs : SearchedFirst(j)
  /\ TwinsUnseen
  /\ FileKeepsUp

IInv == Types /\ CursorInv /\ AloneInv /\ MemInv /\ SettingsSurvive

-----------------------------------------------------------------------------
(*                         Numbers and sequences                           *)
-----------------------------------------------------------------------------

(* Max and Min of a set of bounded numbers are what their names say.       *)
LEMMA MinIsLeast ==
  ASSUME NEW T \in SUBSET Nat, T # {}
  PROVE  Min(T) \in T /\ \A y \in T : Min(T) <= y
BY Least DEF Min

LEMMA MaxIsGreatest ==
  ASSUME NEW n \in Nat, NEW T \in SUBSET (1..n), T # {}
  PROVE  Max(T) \in T /\ \A y \in T : y <= Max(T)
<1> DEFINE S == {k \in Nat : \E x \in T : k = n - x}
<1>0. \A x \in T : x \in Nat /\ n - x \in Nat OBVIOUS
<1>1. S \in SUBSET Nat OBVIOUS
<1>2. S # {} BY <1>0
<1>3. PICK k \in S : \A y \in S : k <= y BY <1>1, <1>2, Least
<1>4. PICK m \in T : k = n - m BY <1>3
<1>5. \A x \in T : n - x \in S BY <1>0
<1>6. ASSUME NEW x \in T PROVE m >= x
  <2>1. k <= n - x BY <1>3, <1>5
  <2> QED BY <2>1, <1>4, <1>0
<1> HIDE DEF S
<1>7. \E x \in T : \A y \in T : x >= y BY <1>6
<1>8. Max(T) \in T /\ \A x \in T : Max(T) >= x BY <1>7 DEF Max
<1> QED BY <1>8, <1>0

(*--------------------------------- slots ---------------------------------*)

(* A slot is found under its id.                                           *)
LEMMA SlotIsFound ==
  ASSUME NEW i \in DOMAIN Slots
  PROVE  SlotOf(Slots[i].id) = Slots[i]
<1>1. Slots[i] \in ToSet(Slots) BY DEF ToSet
<1>2. ASSUME NEW s \in ToSet(Slots), s.id = Slots[i].id PROVE s = Slots[i]
  <2>1. PICK k \in DOMAIN Slots : s = Slots[k] BY DEF ToSet
  <2> QED BY <1>2, <2>1, SlotsAssumption
<1> QED BY <1>1, <1>2 DEF SlotOf

(* The first slot that serves a request is one of them and serves it.      *)
LEMMA FirstSlotServes ==
  ASSUME NEW name, NEW i, i = FirstSlot(LAMBDA s : SupportsModel(s, name)), i # 0
  PROVE  i \in DOMAIN Slots /\ SupportsModel(Slots[i], name)
<1> DEFINE I == {k \in 1..Len(Slots) : SupportsModel(Slots[k], name)}
<1>1. Len(Slots) \in Nat /\ DOMAIN Slots = 1..Len(Slots)
  <2>1. Slots \in Seq(ToSet(Slots)) BY SlotsAssumption
  <2> QED BY <2>1
<1>2. i = IF I # {} THEN Min(I) ELSE 0 BY DEF FirstSlot, SelectInSeq
<1>3. I # {} /\ I \in SUBSET Nat BY <1>2
<1>4. i \in I BY <1>2, <1>3, MinIsLeast
<1> QED BY <1>1, <1>4

(* A name /model takes stands for a model its slot serves, written without *)
(* the slot.                                                               *)
LEMMA SelectionIsServed ==
  ASSUME NEW name \in Switches, ModelSelection(name) # Nothing
  PROVE  \E i \in DOMAIN Slots, model \in Seq(STRING) \ {NoName} :
           /\ ModelSelection(name) = Choice(Slots[i], model)
           /\ SupportsModel(Slots[i], model)
           /\ ~ (Len(model) > 1 /\ model[1] = Slots[i].id)
<1>0. name \in Seq(STRING) /\ name # <<>> BY ChangesAssumption DEF NoName
<1>1. CASE Len(name) > 1 /\ name[1] \in SlotIds
  <2>1. PICK i \in DOMAIN Slots : name[1] = Slots[i].id BY <1>1 DEF SlotIds
  <2>2. SlotOf(name[1]) = Slots[i] BY <2>1, SlotIsFound
  <2>3. /\ ModelSelection(name) = Choice(Slots[i], Tail(name))
        /\ SupportsModel(Slots[i], Tail(name))
    BY <1>1, <2>2 DEF ModelSelection
  <2>a. Len(name) \in Nat /\ Len(name) >= 2 BY <1>0, <1>1
  <2>b. Tail(name) \in Seq(STRING) /\ Len(Tail(name)) = Len(name) - 1
    BY <1>0, <2>a
  <2>4. Tail(name) \in Seq(STRING) /\ Len(Tail(name)) = Len(name) - 1 /\ Tail(name) # <<>>
    <3>1. Len(Tail(name)) # 0 BY <2>a, <2>b
    <3>2. Len(<<>>) = 0 OBVIOUS
    <3> QED BY <2>b, <3>1, <3>2
  <2>5. Len(Tail(name)) > 1 => Tail(name)[1] = name[2] /\ Len(name) > 2
    BY <1>0, <2>4
  <2>6. ~ (Len(Tail(name)) > 1 /\ Tail(name)[1] = Slots[i].id)
    BY <2>1, <2>5, <1>1, ChangesAssumption
  <2> QED BY <2>3, <2>4, <2>6 DEF NoName
<1>2. CASE ~ (Len(name) > 1 /\ name[1] \in SlotIds)
  <2> DEFINE i == FirstSlot(LAMBDA s : SupportsModel(s, name))
  <2>1. ModelSelection(name) = IF i = 0 THEN Nothing ELSE Choice(Slots[i], name)
    BY <1>2 DEF ModelSelection
  <2>2. i # 0 BY <2>1
  <2>3. i \in DOMAIN Slots /\ SupportsModel(Slots[i], name) BY <2>2, FirstSlotServes
  <2> HIDE DEF i
  <2>4. ~ (Len(name) > 1 /\ name[1] = Slots[i].id) BY <1>2, <2>3 DEF SlotIds
  <2>5. ModelSelection(name) = Choice(Slots[i], name) BY <2>1, <2>2
  <2> QED BY <1>0, <2>3, <2>4, <2>5 DEF NoName
<1> QED BY <1>1, <1>2

(* Stored with a session, it is what the session's runs resolve to.        *)
LEMMA SelectionIsResolved ==
  ASSUME NEW name \in Switches, NEW choice, choice = ModelSelection(name), choice # Nothing
  PROVE  ResolveProvider("none", NoName, choice.slot, choice.model) = choice
<1>1. PICK i \in DOMAIN Slots, model \in Seq(STRING) \ {NoName} :
           /\ choice = Choice(Slots[i], model)
           /\ SupportsModel(Slots[i], model)
           /\ ~ (Len(model) > 1 /\ model[1] = Slots[i].id)
  BY SelectionIsServed
<1> DEFINE id == Slots[i].id
<1>2. choice.slot = id /\ choice.model = model BY <1>1 DEF Choice
<1>3. id \in SlotIds /\ SlotOf(id) = Slots[i] BY SlotIsFound DEF SlotIds
<1>4. WithoutPrefix(id, model) = model BY <1>1 DEF WithoutPrefix
<1>5. ResolveProvider("none", NoName, id, model) = SessionChoice(id, model)
  BY SlotsAssumption DEF ResolveProvider
<1>6. SessionChoice(id, model) = Choice(Slots[i], model)
  <2> DEFINE slot  == {SlotOf(id)}
             own   == {Choice(s, model) : s \in {s \in slot : model # NoName /\ SupportsModel(s, model)}}
             plain == {Choice(s, s.default) : s \in {s \in slot : model = NoName}}
             found == IF model = NoName THEN {} ELSE {ModelSelection(model)} \ {Nothing}
             from  == IF own \cup plain # {} THEN own \cup plain
                      ELSE IF found # {} THEN found ELSE {DefaultChoice}
  <2>1. own = {Choice(Slots[i], model)} BY <1>1, <1>3
  <2>2. plain = {} BY <1>1
  <2>3. from = {Choice(Slots[i], model)} BY <2>1, <2>2
  <2>4. SessionChoice(id, model) = CHOOSE c \in from : TRUE
    BY <1>3, <1>4 DEF SessionChoice
  <2> HIDE DEF from
  <2> QED BY <2>3, <2>4
<1> QED BY <1>1, <1>2, <1>5, <1>6

(*--------------------------- settings of a change ------------------------*)

(* The merged object has the new value of each setting the update names,   *)
(* the old value of every other one.                                       *)
LEMMA DeepMergeSettings ==
  ASSUME NEW base, NEW updates
  PROVE  \A k : Stored(DeepMerge(base, updates), k, "none") =
                  IF k \in DOMAIN updates THEN updates[k] ELSE Stored(base, k, "none")
<1> DEFINE D == DOMAIN base \cup DOMAIN updates
           over == Overlaid(base, updates)
           kept == {k \in DOMAIN over : over[k] # "none"}
<1>1. DOMAIN over = D /\ \A k \in D : over[k] = IF k \in DOMAIN updates THEN updates[k] ELSE base[k]
  BY DEF Overlaid
<1>2. DeepMerge(base, updates) = [k \in kept |-> over[k]] BY DEF DeepMerge
<1> HIDE DEF over
<1>3. DOMAIN DeepMerge(base, updates) = kept /\ \A k \in kept : DeepMerge(base, updates)[k] = over[k]
  BY <1>2
<1>4. TAKE k
<1>5. CASE k \in DOMAIN updates
  BY <1>1, <1>3, <1>5 DEF Stored
<1>6. CASE k \notin DOMAIN updates
  BY <1>1, <1>3, <1>6 DEF Stored
<1> QED BY <1>5, <1>6

LEMMA OverlaidStored ==
  ASSUME NEW base, NEW updates
  PROVE  \A k, missing : Stored(Overlaid(base, updates), k, missing) =
                  IF k \in DOMAIN updates THEN updates[k] ELSE Stored(base, k, missing)
BY DEF Stored, Overlaid

-----------------------------------------------------------------------------
(*                     What a step does to its job                         *)
-----------------------------------------------------------------------------

Others(j) == \A k \in Jobs : k # j => job'[k] = job[k]

LEMMA StepEffect ==
  ASSUME JobsOK, NEW j \in Jobs, NEW r, JobRecord(r), Step(j, r)
  PROVE  JobsOK' /\ Others(j) /\ job'[j] = r
<1>1. job' = [k \in Jobs |-> IF k = j THEN r ELSE job[k]] BY DEF Step, JobsOK
<1>2. Others(j) /\ job'[j] = r BY <1>1 DEF Others
<1>3. job' = [k \in Jobs |-> job'[k]] BY <1>1
<1>4. \A k \in Jobs : JobRecord(job'[k])
  <2> TAKE k \in Jobs
  <2>1. job'[k] = r \/ job'[k] = job[k] BY <1>1
  <2> QED BY <2>1 DEF JobsOK
<1> QED BY <1>2, <1>3, <1>4 DEF JobsOK, JobRecord

(* What a step leaves a job of its memories: all, or nothing.              *)
SameMemories(j) ==
  /\ job'[j].added = job[j].added /\ job'[j].archived = job[j].archived
  /\ job'[j].searched = job[j].searched /\ job'[j].orderly = job[j].orderly

NoMemories(r) == r.added = {} /\ r.archived = {} /\ r.searched = 0 /\ r.orderly = FALSE

LEMMA NoJobRecord ==
  JobRecord(NoJob) /\ NoJob.pc = "idle" /\ NoJob.new = {} /\ NoMemories(NoJob)
BY DEF JobRecord, NoJob, NoMemories

(* The records a job becomes.                                              *)
LEMMA NewPc ==
  ASSUME NEW r, JobRecord(r), NEW pc
  PROVE  LET s == [r EXCEPT !.pc = pc]
         IN /\ JobRecord(s) /\ s.pc = pc /\ s.cursor = r.cursor /\ s.new = r.new
            /\ s.todo = r.todo /\ s.archives = r.archives
            /\ s.added = r.added /\ s.archived = r.archived
            /\ s.searched = r.searched /\ s.orderly = r.orderly
BY DEF JobRecord

LEMMA NewTodo ==
  ASSUME NEW r, JobRecord(r), NEW todo
  PROVE  LET s == [r EXCEPT !.todo = todo]
         IN /\ JobRecord(s) /\ s.pc = r.pc /\ s.new = r.new /\ s.todo = todo
            /\ s.archives = r.archives /\ s.added = r.added /\ s.archived = r.archived
            /\ s.searched = r.searched /\ s.orderly = r.orderly
BY DEF JobRecord

LEMMA NewBatch ==
  ASSUME NEW r, JobRecord(r), NEW new \in SUBSET Nat
  PROVE  LET s == [r EXCEPT !.new = new]
         IN /\ JobRecord(s) /\ s.pc = r.pc /\ s.new = new /\ s.cursor = r.cursor
            /\ s.added = r.added /\ s.archived = r.archived
            /\ s.searched = r.searched /\ s.orderly = r.orderly
BY DEF JobRecord

LEMMA NewArchives ==
  ASSUME NEW r, JobRecord(r), NEW archives
  PROVE  LET s == [r EXCEPT !.archives = archives]
         IN /\ JobRecord(s) /\ s.pc = r.pc /\ s.new = r.new /\ s.archives = archives
            /\ s.added = r.added /\ s.archived = r.archived
            /\ s.searched = r.searched /\ s.orderly = r.orderly
BY DEF JobRecord

LEMMA NewAdded ==
  ASSUME NEW r, JobRecord(r), NEW added
  PROVE  LET s == [r EXCEPT !.added = added]
         IN /\ JobRecord(s) /\ s.pc = r.pc /\ s.new = r.new /\ s.added = added
            /\ s.archived = r.archived /\ s.searched = r.searched /\ s.orderly = r.orderly
BY DEF JobRecord

LEMMA NewArchived ==
  ASSUME NEW r, JobRecord(r), NEW archived
  PROVE  LET s == [r EXCEPT !.archived = archived]
         IN /\ JobRecord(s) /\ s.pc = r.pc /\ s.new = r.new /\ s.added = r.added
            /\ s.archived = archived /\ s.searched = r.searched /\ s.orderly = r.orderly
BY DEF JobRecord

LEMMA NewOrderly ==
  ASSUME NEW r, JobRecord(r), NEW orderly \in BOOLEAN
  PROVE  LET s == [r EXCEPT !.orderly = orderly]
         IN /\ JobRecord(s) /\ s.pc = r.pc /\ s.new = r.new /\ s.searched = r.searched
            /\ s.orderly = orderly
BY DEF JobRecord

LEMMA NewSearched ==
  ASSUME NEW r, JobRecord(r), NEW searched
  PROVE  LET s == [r EXCEPT !.searched = searched]
         IN /\ JobRecord(s) /\ s.pc = r.pc /\ s.new = r.new /\ s.todo = r.todo
            /\ s.added = r.added /\ s.archived = r.archived
            /\ s.searched = searched /\ s.orderly = r.orderly
BY DEF JobRecord

LEMMA OverRecord ==
  ASSUME JobsOK, NEW j \in Jobs
  PROVE  /\ JobRecord(Over(j)) /\ NoMemories(Over(j)) /\ Over(j).pc \in {"done", "cursor"}
         /\ j \in Dreams => Over(j).pc = "cursor" /\ Over(j).new = job[j].new
<1>1. job[j].new \in SUBSET Nat BY DEF JobsOK, JobRecord
<1>2. CASE j \in Dreams
  <2> DEFINE r == [NoJob EXCEPT !.pc = "cursor", !.new = job[j].new]
  <2>1. Over(j) = r BY <1>2 DEF Over
  <2> DEFINE q == [NoJob EXCEPT !.pc = "cursor"]
  <2>2. r = [q EXCEPT !.new = job[j].new] BY DEF NoJob
  <2>a. JobRecord(q) /\ q.pc = "cursor" /\ NoMemories(q)
    BY NoJobRecord, NewPc DEF NoMemories
  <2> HIDE DEF r, q
  <2>3. JobRecord(r) /\ r.pc = "cursor" /\ r.new = job[j].new /\ NoMemories(r)
    BY <1>1, <2>2, <2>a, NewBatch DEF NoMemories
  <2> QED BY <1>2, <2>1, <2>3
<1>3. CASE j \notin Dreams
  <2>1. Over(j) = [NoJob EXCEPT !.pc = "done"] BY <1>3 DEF Over
  <2> QED BY <1>3, <2>1, NoJobRecord, NewPc DEF NoMemories
<1> QED BY <1>2, <1>3

(* An extraction leaves nothing to do and the job is over, or begins to    *)
(* look for duplicates.                                                    *)
Extracted(j) ==
  /\ NoMemories(job'[j]) /\ job'[j].pc \in {"check", "cursor", "done"}
  /\ j \in Dreams => job'[j].pc # "done" /\ job'[j].new = job[j].new

LEMMA ExtractEffect ==
  ASSUME JobsOK, NEW j \in Jobs, NEW found, NEW archives, Extract(j, found, archives)
  PROVE  JobsOK' /\ Others(j) /\ Extracted(j)
<1> DEFINE todo == SelectSeq(Deduped(found), LAMBDA c : c \notin Unsafe)
           r == [NoJob EXCEPT !.pc = "check", !.new = job[j].new, !.todo = todo,
                              !.archives = archives]
<1>1. Step(j, Over(j)) \/ Step(j, r)
  BY DEF Extract
<1> HIDE DEF todo
<1>2. CASE Step(j, Over(j))
  <2>1. JobRecord(Over(j)) BY OverRecord
  <2>2. JobsOK' /\ Others(j) /\ job'[j] = Over(j) BY <1>2, <2>1, StepEffect
  <2> QED BY <2>2, OverRecord DEF Extracted
<1>3. CASE Step(j, r)
  <2>1. job[j].new \in SUBSET Nat BY DEF JobsOK, JobRecord
  <2> DEFINE q1 == [NoJob EXCEPT !.pc = "check"]
             q2 == [q1 EXCEPT !.new = job[j].new]
             q3 == [q2 EXCEPT !.todo = todo]
  <2>a. r = [q3 EXCEPT !.archives = archives] BY DEF NoJob
  <2>b. JobRecord(q1) /\ q1.pc = "check" /\ NoMemories(q1)
    BY NoJobRecord, NewPc DEF NoMemories
  <2> HIDE DEF r, q1
  <2>c. JobRecord(q2) /\ q2.pc = "check" /\ q2.new = job[j].new /\ NoMemories(q2)
    BY <2>1, <2>b, NewBatch DEF NoMemories
  <2> HIDE DEF q2
  <2>d. JobRecord(q3) /\ q3.pc = "check" /\ q3.new = job[j].new /\ NoMemories(q3)
    BY <2>c, NewTodo DEF NoMemories
  <2> HIDE DEF q3
  <2>2. JobRecord(r) /\ r.pc = "check" /\ r.new = job[j].new /\ NoMemories(r)
    BY <2>a, <2>d, NewArchives DEF NoMemories
  <2>3. JobsOK' /\ Others(j) /\ job'[j] = r BY <1>3, <2>2, StepEffect
  <2> QED BY <2>2, <2>3 DEF Extracted
<1> QED BY <1>1, <1>2, <1>3

-----------------------------------------------------------------------------
(*                  What each step leaves of the types                     *)
-----------------------------------------------------------------------------

(* Rows are only added at the end, or all dropped; none of them is         *)
(* forgotten to have been taken.                                           *)
Kept ==
  /\ lastId' \in Nat /\ lastId <= lastId'
  /\ \A i \in DOMAIN rows' : rows'[i].id \in Nat
  /\ \A i \in DOMAIN rows' : rows'[i].id <= lastId =>
       \E h \in DOMAIN rows :
         /\ rows'[i].id = rows[h].id
         /\ rows[h].id \in taken \cup outside => rows[h].id \in taken' \cup outside'

LEMMA SameRowsKept ==
  ASSUME RowsOK, UNCHANGED <<rows, lastId>>, taken \subseteq taken', outside \subseteq outside'
  PROVE  Kept
BY DEF Kept, RowsOK

(* A cursor that passes nothing over still does not, and a batch is as     *)
(* fresh as it was.                                                        *)
LEMMA SafeKept ==
  ASSUME RowsOK, Kept, NEW k, Safe(k)
  PROVE  Safe(k)'
<1>1. k \in 0..lastId' BY DEF Safe, RowsOK, Kept
<1>2. ASSUME NEW i \in DOMAIN rows', rows'[i].id <= k PROVE rows'[i].id \in taken' \cup outside'
  <2>1. rows'[i].id <= lastId BY <1>2 DEF Safe, RowsOK, Kept
  <2>2. PICK h \in DOMAIN rows :
         /\ rows'[i].id = rows[h].id
         /\ rows[h].id \in taken \cup outside => rows[h].id \in taken' \cup outside'
    BY <2>1 DEF Kept
  <2> QED BY <1>2, <2>2 DEF Safe
<1> QED BY <1>1, <1>2 DEF Safe

LEMMA BatchKept ==
  ASSUME RowsOK, Kept, NEW N
  PROVE  /\ Batch(N) => Batch(N)'
         /\ FreshBatch(N) => FreshBatch(N)'
<1>1. Batch(N) => Batch(N)' BY DEF Batch, RowsOK, Kept
<1>2. ASSUME FreshBatch(N) PROVE FreshBatch(N)'
  <2>1. Batch(N) BY <1>2 DEF FreshBatch
  <2>2. ASSUME NEW i \in DOMAIN rows', rows'[i].id \notin taken' \cup outside' \cup N, NEW k \in N
        PROVE  rows'[i].id > k
    <3>1. k \in 1..lastId BY <2>1 DEF Batch
    <3>2. CASE ~ (rows'[i].id <= lastId)
      BY <3>1, <3>2 DEF Kept, RowsOK
    <3>3. CASE rows'[i].id <= lastId
      <4>1. PICK h \in DOMAIN rows :
         /\ rows'[i].id = rows[h].id
         /\ rows[h].id \in taken \cup outside => rows[h].id \in taken' \cup outside'
        BY <3>3 DEF Kept
      <4>2. rows[h].id \notin taken \cup outside \cup N BY <2>2, <4>1
      <4> QED BY <1>2, <4>1, <4>2 DEF FreshBatch
    <3> QED BY <3>2, <3>3
  <2> QED BY <1>1, <2>1, <2>2 DEF FreshBatch
<1> QED BY <1>1, <1>2

LEMMA AppendTurnRows ==
  ASSUME RowsOK, NEW t, AppendTurn(t)
  PROVE  /\ RowsOK' /\ lastId' = lastId + 1
         /\ \A i \in DOMAIN rows' : 
              rows'[i].id # lastId + 1 => i \in DOMAIN rows /\ rows'[i] = rows[i]
<1> DEFINE row == [id |-> lastId + 1, blank |-> t \in Blank]
<1>1. rows' = Append(rows, row) /\ lastId' = lastId + 1 BY DEF AppendTurn, NextId
<1>2. lastId \in Nat /\ rows \in Seq([id : Nat, blank : BOOLEAN]) BY DEF RowsOK
<1>3. row \in [id : Nat, blank : BOOLEAN] /\ row.id = lastId + 1 BY <1>2
<1> HIDE DEF row
<1>4. rows' \in Seq([id : Nat, blank : BOOLEAN]) BY <1>1, <1>2, <1>3
<1>a. /\ DOMAIN rows = 1..Len(rows) /\ Len(rows) \in Nat
      /\ DOMAIN rows' = 1..(Len(rows) + 1)
  BY <1>1, <1>2, <1>3
<1>b. \A i \in 1..Len(rows) : rows'[i] = rows[i] BY <1>1, <1>2, <1>3
<1>c. rows'[Len(rows) + 1] = row BY <1>1, <1>2, <1>3
<1>5. \A i \in DOMAIN rows' : rows'[i] # row => i \in DOMAIN rows /\ rows'[i] = rows[i]
  <2> TAKE i \in DOMAIN rows'
  <2>1. i \in 1..Len(rows) \/ i = Len(rows) + 1 BY <1>a
  <2> QED BY <1>a, <1>b, <1>c, <2>1
<1>6. \A i \in DOMAIN rows' :
        rows'[i].id # lastId + 1 => i \in DOMAIN rows /\ rows'[i] = rows[i]
  BY <1>3, <1>5
<1>7. \A i \in DOMAIN rows' : rows'[i].id \in 1..lastId'
  BY <1>1, <1>2, <1>6 DEF RowsOK
<1> QED BY <1>1, <1>2, <1>4, <1>6, <1>7 DEF RowsOK

LEMMA AppendTurnKept ==
  ASSUME RowsOK, NEW t, AppendTurn(t), UNCHANGED <<taken, outside>>
  PROVE  Kept
<1>1. lastId' = lastId + 1 /\ lastId \in Nat BY AppendTurnRows DEF RowsOK
<1>2. ASSUME NEW i \in DOMAIN rows', rows'[i].id <= lastId
      PROVE  i \in DOMAIN rows /\ rows'[i] = rows[i]
  BY <1>1, <1>2, AppendTurnRows
<1>3. \A i \in DOMAIN rows' : rows'[i].id \in Nat BY <1>1, AppendTurnRows DEF RowsOK
<1> QED BY <1>1, <1>2, <1>3 DEF Kept

(*--------------------------------- turns ---------------------------------*)

LEMMA StoreMessageEffect ==
  ASSUME Types, NEW t \in Turns, StoreMessage(t)
  PROVE  /\ Types' /\ Kept /\ Others(t) /\ job[t].pc = "idle" /\ job'[t].pc = "replying"
         /\ SameMemories(t) /\ UNCHANGED <<metaVars, items, file>>
<1> USE DEF StoreMessage
<1>0. t \in Jobs BY DEF Jobs
<1>1. JobRecord(job[t]) BY <1>0 DEF Types, JobsOK
<1> DEFINE r == [job[t] EXCEPT !.pc = "replying"]
<1>a. Step(t, r) OBVIOUS
<1>b. /\ JobRecord(r) /\ r.pc = "replying" /\ r.added = job[t].added
      /\ r.archived = job[t].archived /\ r.searched = job[t].searched /\ r.orderly = job[t].orderly
  BY <1>1, NewPc
<1> HIDE DEF r
<1>c. JobsOK' /\ Others(t) /\ job'[t] = r BY <1>0, <1>a, <1>b, StepEffect DEF Types
<1>2. SameMemories(t) /\ job'[t].pc = "replying" BY <1>b, <1>c DEF SameMemories
<1>3. RowsOK' /\ Kept BY AppendTurnRows, AppendTurnKept DEF Types
<1> QED BY <1>c, <1>2, <1>3 DEF Types, ItemsOK, FileOK, MergeOK, SaidOK, metaVars, Item, MergeRecord

LEMMA StoreReplyEffect ==
  ASSUME Types, NEW t \in Turns, StoreReply(t)
  PROVE  /\ Types' /\ Kept /\ Others(t) /\ job[t].pc = "replying" /\ job'[t].pc = "loading"
         /\ SameMemories(t) /\ UNCHANGED <<metaVars, items, file>>
<1> USE DEF StoreReply
<1>0. t \in Jobs BY DEF Jobs
<1>1. JobRecord(job[t]) BY <1>0 DEF Types, JobsOK
<1> DEFINE r == [job[t] EXCEPT !.pc = "loading"]
<1>a. Step(t, r) OBVIOUS
<1>b. /\ JobRecord(r) /\ r.pc = "loading" /\ r.added = job[t].added
      /\ r.archived = job[t].archived /\ r.searched = job[t].searched /\ r.orderly = job[t].orderly
  BY <1>1, NewPc
<1> HIDE DEF r
<1>c. JobsOK' /\ Others(t) /\ job'[t] = r BY <1>0, <1>a, <1>b, StepEffect DEF Types
<1>2. SameMemories(t) /\ job'[t].pc = "loading" BY <1>b, <1>c DEF SameMemories
<1>3. RowsOK' /\ Kept
  <2>1. CASE t \in Blank BY <2>1, SameRowsKept DEF Types, RowsOK
  <2>2. CASE t \notin Blank BY <2>2, AppendTurnRows, AppendTurnKept DEF Types
  <2> QED BY <2>1, <2>2
<1> QED BY <1>c, <1>2, <1>3 DEF Types, ItemsOK, FileOK, MergeOK, SaidOK, metaVars, Item, MergeRecord

LEMMA ClearSessionEffect ==
  ASSUME Types, ClearSession
  PROVE  Types' /\ Kept /\ rows' = <<>>
<1> USE DEF ClearSession
<1>1. RowsOK' BY DEF Types, RowsOK
<1>2. Kept BY DEF Kept, Types, RowsOK
<1> QED BY <1>1, <1>2 DEF Types, ItemsOK, FileOK, JobsOK, MergeOK, SaidOK, metaVars, Item, MergeRecord, JobRecord

(*-------------------------------- dreaming -------------------------------*)

LEMMA StartPassEffect ==
  ASSUME Types, Safe(Cursor), NEW d \in Dreams, StartPass(d)
  PROVE  /\ Types' /\ Others(d) /\ job[d].pc = "idle"
         /\ job'[d].pc = "records" /\ job'[d].cursor = Cursor /\ SameMemories(d)
         /\ UNCHANGED <<metaVars, rows, lastId, items, file, taken, outside>>
<1> USE DEF StartPass
<1>0. d \in Jobs BY DEF Jobs
<1>1. JobRecord(job[d]) BY <1>0 DEF Types, JobsOK
<1>2. Cursor \in Nat BY DEF Safe, Types, RowsOK
<1> DEFINE q == [job[d] EXCEPT !.pc = "records"]
           r == [job[d] EXCEPT !.pc = "records", !.cursor = Cursor]
<1>3. r = [q EXCEPT !.cursor = Cursor] OBVIOUS
<1>4. Step(d, r) OBVIOUS
<1>5. /\ JobRecord(q) /\ q.pc = "records" /\ q.added = job[d].added
      /\ q.archived = job[d].archived /\ q.searched = job[d].searched /\ q.orderly = job[d].orderly
  BY <1>1, NewPc
<1> HIDE DEF q, r
<1>6. /\ JobRecord(r) /\ r.pc = "records" /\ r.cursor = Cursor /\ r.added = q.added
      /\ r.archived = q.archived /\ r.searched = q.searched /\ r.orderly = q.orderly
  BY <1>2, <1>3, <1>5 DEF JobRecord
<1>7. JobsOK' /\ Others(d) /\ job'[d] = r BY <1>0, <1>4, <1>6, StepEffect DEF Types
<1>8. SameMemories(d) BY <1>5, <1>6, <1>7 DEF SameMemories
<1> QED BY <1>6, <1>7, <1>8
   DEF Types, RowsOK, ItemsOK, FileOK, MergeOK, SaidOK, metaVars, Item, MergeRecord

(* A pass leaves the session for another time, or takes the new rows and   *)
(* leaves out those before the window.                                     *)
LEMMA ReadRecordsEffect ==
  ASSUME Types, NEW d \in Dreams, ReadRecords(d), job[d].pc = "records" => Safe(job[d].cursor)
  PROVE  /\ Types' /\ Others(d) /\ job[d].pc = "records"
         /\ outside \subseteq outside' /\ NoMemories(job'[d])
         /\ job'[d].pc # "idle" => job'[d].pc = "loading" /\ FreshBatch(job[d].new)'
         /\ UNCHANGED <<metaVars, rows, lastId, items, file, taken>>
<1> USE DEF ReadRecords
<1> DEFINE recent == {rows[i] : i \in {i \in DOMAIN rows : i > Len(rows) - Window}}
           new    == {w \in recent : w.id > job[d].cursor}
           r == [NoJob EXCEPT !.pc = "loading", !.new = Ids(new)]
<1>0. d \in Jobs /\ Safe(job[d].cursor) BY DEF Jobs
<1>1. UNCHANGED <<metaVars, rows, lastId, items, file, taken>> OBVIOUS
<1>2. CASE Step(d, NoJob) /\ UNCHANGED outside
  <2>1. JobsOK' /\ Others(d) /\ job'[d] = NoJob
    BY <1>0, <1>2, NoJobRecord, StepEffect DEF Types
  <2>2. job'[d].pc = "idle" /\ NoMemories(job'[d]) BY <2>1, NoJobRecord
  <2> QED BY <1>1, <1>2, <2>1, <2>2
     DEF Types, RowsOK, ItemsOK, FileOK, MergeOK, SaidOK, metaVars, Item, MergeRecord
<1>3. CASE /\ Step(d, r) /\ outside' = outside \cup Ids(ToSet(rows) \ recent)
           /\ ~ (Cardinality(new) < 2)
  <2>1. new # {}
    <3>1. Cardinality({}) = 0 /\ 0 < 2 BY FS_EmptySet
    <3> HIDE DEF new
    <3> QED BY <1>3, <3>1
  <2>2. \A w \in new : w.id \in 1..lastId
    <3> TAKE w \in new
    <3>1. PICK i \in DOMAIN rows : w = rows[i] OBVIOUS
    <3> QED BY <3>1 DEF Types, RowsOK
  <2>3. Ids(new) \subseteq 1..lastId /\ Ids(new) # {} BY <2>1, <2>2 DEF Ids
  <2>4. Ids(new) \in SUBSET Nat BY <2>3 DEF Types, RowsOK
  <2>5. \A i \in DOMAIN rows : rows[i].id \in taken \cup outside' \cup Ids(new)
    <3> TAKE i \in DOMAIN rows
    <3>1. CASE rows[i] \notin recent
      <4>1. rows[i] \in ToSet(rows) \ recent BY <3>1 DEF ToSet
      <4> QED BY <1>3, <4>1 DEF Ids
    <3>2. CASE rows[i] \in recent /\ rows[i].id > job[d].cursor
      BY <3>2 DEF Ids
    <3>3. CASE ~ (rows[i].id > job[d].cursor)
      <4>1. rows[i].id <= job[d].cursor
        BY <1>0, <3>3 DEF Safe, Types, RowsOK
      <4> QED BY <1>0, <1>3, <4>1 DEF Safe
    <3> QED BY <3>1, <3>2, <3>3
  <2> DEFINE q == [NoJob EXCEPT !.pc = "loading"]
  <2>6. r = [q EXCEPT !.new = Ids(new)] BY DEF NoJob
  <2>7. JobRecord(q) /\ q.pc = "loading" /\ NoMemories(q)
    BY NoJobRecord, NewPc DEF NoMemories
  <2> HIDE DEF new, recent, q, r
  <2>8. JobRecord(r) /\ r.pc = "loading" /\ r.new = Ids(new) /\ NoMemories(r)
    <3> DEFINE n == Ids(new)
    <3>1. n \in SUBSET Nat BY <2>4
    <3>2. r = [q EXCEPT !.new = n] BY <2>6
    <3> HIDE DEF n
    <3>3. LET s == [q EXCEPT !.new = n]
          IN /\ JobRecord(s) /\ s.pc = q.pc /\ s.new = n /\ s.added = q.added
             /\ s.archived = q.archived /\ s.searched = q.searched /\ s.orderly = q.orderly
      BY <2>7, <3>1, NewBatch
    <3>4. JobRecord(r) /\ r.pc = "loading" /\ r.new = n BY <2>7, <3>2, <3>3
    <3>5. NoMemories(r) BY <2>7, <3>2, <3>3 DEF NoMemories
    <3> QED BY <3>4, <3>5 DEF n
  <2>9. JobsOK' /\ Others(d) /\ job'[d] = r BY <1>0, <1>3, <2>8, StepEffect DEF Types
  <2>10. FreshBatch(job[d].new)'
    BY <1>1, <2>3, <2>5, <2>8, <2>9 DEF FreshBatch, Batch
  <2>11. outside \subseteq outside' BY <1>3
  <2> QED BY <1>1, <2>8, <2>9, <2>10, <2>11
     DEF Types, RowsOK, ItemsOK, FileOK, MergeOK, SaidOK, metaVars, Item, MergeRecord
<1> QED BY <1>2, <1>3

(*----------------------------- consolidation -----------------------------*)

(* The types of what a step of a job leaves alone.                         *)
Frame == UNCHANGED <<metaVars, rows, lastId>>

LEMMA FrameTypes ==
  ASSUME Types, Frame, JobsOK', ItemsOK', FileOK'
  PROVE  Types'
BY DEF Types, Frame, RowsOK, MergeOK, SaidOK, metaVars, MergeRecord

LEMMA SameItems ==
  ASSUME Types, items' = items
  PROVE  ItemsOK' /\ Active' = Active
BY DEF Types, ItemsOK, Item, Active

LEMMA SameFile ==
  ASSUME Types, file' = file
  PROVE  FileOK'
BY DEF Types, FileOK

(* Loading ends in an extraction of a turn's rules or in a question.       *)
LEMMA LoadExistingEffect ==
  ASSUME Types, NEW j \in Jobs, LoadExisting(j)
  PROVE  /\ Types' /\ Others(j) /\ job[j].pc = "loading"
         /\ UNCHANGED <<metaVars, rows, lastId, items, file, outside>>
         /\ \/ j \in Turns /\ taken' = taken /\ Extracted(j)
            \/ /\ j \in Dreams /\ taken' = taken \cup job[j].new
               /\ job'[j].pc = "asking" /\ job'[j].new = job[j].new /\ SameMemories(j)
<1> USE DEF LoadExisting
<1>1. UNCHANGED <<metaVars, rows, lastId, items, file, outside>> OBVIOUS
<1>2. ItemsOK' /\ FileOK' /\ Frame BY <1>1, SameItems, SameFile DEF Frame
<1>3. CASE j \in Turns
  <2>1. Extract(j, RuleMemories[j], {}) /\ taken' = taken BY <1>3
  <2>2. JobsOK' /\ Others(j) /\ Extracted(j) BY <2>1, ExtractEffect DEF Types
  <2> QED BY <1>1, <1>2, <1>3, <2>1, <2>2, FrameTypes
<1>4. CASE j \notin Turns
  <2> DEFINE q == [job[j] EXCEPT !.pc = "asking"]
             r == [job[j] EXCEPT !.pc = "asking", !.known = Active]
  <2>1. Step(j, r) /\ taken' = taken \cup job[j].new BY <1>4
  <2>2. JobRecord(job[j]) BY DEF Types, JobsOK
  <2>3. r = [q EXCEPT !.known = Active] OBVIOUS
  <2>4. /\ JobRecord(q) /\ q.pc = "asking" /\ q.new = job[j].new /\ q.added = job[j].added
        /\ q.archived = job[j].archived /\ q.searched = job[j].searched /\ q.orderly = job[j].orderly
    BY <2>2, NewPc
  <2> HIDE DEF q, r
  <2>5. /\ JobRecord(r) /\ r.pc = "asking" /\ r.new = q.new /\ r.added = q.added
        /\ r.archived = q.archived /\ r.searched = q.searched /\ r.orderly = q.orderly
    BY <2>3, <2>4 DEF JobRecord
  <2>6. JobsOK' /\ Others(j) /\ job'[j] = r BY <2>1, <2>5, StepEffect DEF Types
  <2>7. SameMemories(j) BY <2>4, <2>5, <2>6 DEF SameMemories
  <2>8. j \in Dreams BY <1>4 DEF Jobs
  <2> QED BY <1>1, <1>2, <2>1, <2>4, <2>5, <2>6, <2>7, <2>8, FrameTypes
<1> QED BY <1>3, <1>4

LEMMA ModelAnswersEffect ==
  ASSUME Types, NEW d \in Dreams, ModelAnswers(d)
  PROVE  /\ Types' /\ Others(d) /\ job[d].pc = "asking" /\ Extracted(d)
         /\ UNCHANGED <<metaVars, rows, lastId, items, file, taken, outside>>
<1> USE DEF ModelAnswers
<1>0. d \in Jobs BY DEF Jobs
<1>1. UNCHANGED <<metaVars, rows, lastId, items, file, taken, outside>> OBVIOUS
<1>2. ItemsOK' /\ FileOK' /\ Frame BY <1>1, SameItems, SameFile DEF Frame
<1>3. PICK add, archives : Extract(d, add, archives) OBVIOUS
<1>4. JobsOK' /\ Others(d) /\ Extracted(d) BY <1>0, <1>3, ExtractEffect DEF Types
<1> QED BY <1>1, <1>2, <1>4, FrameTypes

(* A search finds a duplicate, or the job goes on to append and counts as  *)
(* having searched if no hit was left out.                                 *)
LEMMA CheckNextEffect ==
  ASSUME Types, NEW j \in Jobs, CheckNext(j)
  PROVE  /\ Types' /\ Others(j) /\ job[j].pc = "check"
         /\ UNCHANGED <<metaVars, rows, lastId, items, file, taken, outside>>
         /\ job'[j].new = job[j].new
         /\ job'[j].added = job[j].added /\ job'[j].archived = job[j].archived
         /\ job'[j].orderly = job[j].orderly
         /\ \/ job'[j].pc = "check" /\ job'[j].searched = job[j].searched
            \/ /\ job'[j].pc = "append" /\ job'[j].todo = job[j].todo
               /\ \/ job'[j].searched = 0
                  \/ /\ job'[j].searched = Len(items)
                     /\ ~ HasDuplicate(Head(job[j].todo), Hits(Head(job[j].todo)))
<1>1. job[j].pc = "check" /\ UNCHANGED <<metaVars, rows, lastId, items, file, taken, outside>>
  BY DEF CheckNext
<1>2. ItemsOK' /\ FileOK' /\ Frame BY <1>1, SameItems, SameFile DEF Frame
<1>3. JobRecord(job[j]) BY DEF Types, JobsOK
<1> DEFINE c == Head(job[j].todo)
<1>4. PICK found :
        Step(j, IF HasDuplicate(c, found) THEN [job[j] EXCEPT !.todo = Tail(@)]
                ELSE [job[j] EXCEPT !.pc = "append",
                                    !.searched = IF found = Hits(c) THEN Len(items) ELSE 0])
  BY DEF CheckNext
<1> DEFINE n == IF found = Hits(c) THEN Len(items) ELSE 0
           tail == [job[j] EXCEPT !.todo = Tail(@)]
           here == [job[j] EXCEPT !.pc = "append"]
           go   == [job[j] EXCEPT !.pc = "append", !.searched = n]
<1>5. CASE HasDuplicate(c, found)
  <2>1. Step(j, tail) BY <1>4, <1>5
  <2>2. tail = [job[j] EXCEPT !.todo = Tail(job[j].todo)] OBVIOUS
  <2> HIDE DEF tail
  <2>3. /\ JobRecord(tail) /\ tail.pc = job[j].pc /\ tail.new = job[j].new
        /\ tail.added = job[j].added /\ tail.archived = job[j].archived
        /\ tail.searched = job[j].searched /\ tail.orderly = job[j].orderly
    BY <1>3, <2>2, NewTodo, ZenonT(40)
  <2>4. JobsOK' /\ Others(j) /\ job'[j] = tail BY <2>1, <2>3, StepEffect DEF Types
  <2>5. Types' BY <1>2, <2>4, FrameTypes
  <2> QED BY <1>1, <2>3, <2>4, <2>5
<1>6. CASE ~ HasDuplicate(c, found)
  <2>1. Step(j, go) BY <1>4, <1>6
  <2>2. go = [here EXCEPT !.searched = n] OBVIOUS
  <2>3. n = 0 \/ (n = Len(items) /\ ~ HasDuplicate(c, Hits(c))) BY <1>6
  <2> HIDE DEF n, c, go
  <2>4. /\ JobRecord(here) /\ here.pc = "append" /\ here.new = job[j].new
        /\ here.todo = job[j].todo /\ here.added = job[j].added
        /\ here.archived = job[j].archived /\ here.orderly = job[j].orderly
    BY <1>3, NewPc
  <2> HIDE DEF here
  <2>5. /\ JobRecord(go) /\ go.pc = "append" /\ go.new = here.new /\ go.todo = here.todo
        /\ go.added = here.added /\ go.archived = here.archived
        /\ go.searched = n /\ go.orderly = here.orderly
    BY <2>2, <2>4, NewSearched
  <2>6. JobsOK' /\ Others(j) /\ job'[j] = go BY <2>1, <2>5, StepEffect DEF Types
  <2>7. Types' BY <1>2, <2>6, FrameTypes
  <2>8. \/ job'[j].searched = 0
        \/ /\ job'[j].searched = Len(items)
           /\ ~ HasDuplicate(Head(job[j].todo), Hits(Head(job[j].todo)))
    BY <2>3, <2>5, <2>6 DEF c
  <2> QED BY <1>1, <2>4, <2>5, <2>6, <2>7, <2>8
<1> QED BY <1>5, <1>6

(* An append leaves the memories there were as they are.                   *)
LEMMA AppendedItems ==
  ASSUME ItemsOK, NEW c, NEW by, NEW n \in Nat, NEW indexed \in BOOLEAN,
         items' = Appended(c, by, n, indexed)
  PROVE  /\ ItemsOK' /\ Len(items) \in Nat /\ DOMAIN items = 1..Len(items)
         /\ Len(items') = Len(items) + 1 /\ DOMAIN items' = 1..(Len(items) + 1)
         /\ \A i \in 1..Len(items) : items'[i] = items[i]
         /\ items'[Len(items) + 1].content = c /\ items'[Len(items) + 1].searched = n
         /\ Active \subseteq 1..Len(items) /\ Active' = Active \cup {Len(items) + 1}
<1> DEFINE x == [content |-> c, by |-> by, active |-> TRUE, searched |-> n, indexed |-> indexed]
<1>1. PICK S : items \in Seq(S) BY DEF ItemsOK
<1>2. items' = Append(items, x) BY DEF Appended
<1>3. Item(x) /\ x.content = c /\ x.searched = n /\ x.active = TRUE BY DEF Item
<1> HIDE DEF x
<1>4. items \in Seq(S \cup {x}) /\ x \in S \cup {x} BY <1>1
<1>5. items' \in Seq(S \cup {x}) BY <1>2, <1>4
<1>6. /\ Len(items) \in Nat /\ DOMAIN items = 1..Len(items)
      /\ Len(items') = Len(items) + 1 /\ DOMAIN items' = 1..(Len(items) + 1)
      /\ \A i \in 1..Len(items) : items'[i] = items[i]
      /\ items'[Len(items) + 1] = x
  BY <1>2, <1>4
<1>7. \A i \in DOMAIN items' : i \in 1..Len(items) \/ i = Len(items) + 1 BY <1>6
<1>8. \A i \in DOMAIN items' : Item(items'[i])
  <2> TAKE i \in DOMAIN items'
  <2>1. items'[i] = x \/ (i \in DOMAIN items /\ items'[i] = items[i]) BY <1>6, <1>7
  <2> QED BY <1>3, <2>1 DEF ItemsOK
<1>9. Active' = Active \cup {Len(items) + 1}
  BY <1>3, <1>6, <1>7 DEF Active
<1>10. ItemsOK' BY <1>5, <1>8 DEF ItemsOK, Item
<1>11. Active \subseteq 1..Len(items) BY <1>6 DEF Active
<1> QED BY <1>3, <1>6, <1>9, <1>10, <1>11

LEMMA AppendItemEffect ==
  ASSUME Types, NEW j \in Jobs, AppendItem(j), job[j].searched \in Nat
  PROVE  /\ Types' /\ Others(j) /\ job[j].pc = "append" /\ job'[j].pc = "check"
         /\ UNCHANGED <<metaVars, rows, lastId, file, taken, outside>>
         /\ items' = Appended(Head(job[j].todo), j, job[j].searched, TRUE)
         /\ job'[j].new = job[j].new /\ job'[j].added = job[j].added \cup {Len(items) + 1}
         /\ job'[j].archived = job[j].archived /\ job'[j].searched = 0
         /\ job'[j].orderly = job[j].orderly
<1>1. /\ job[j].pc = "append" /\ UNCHANGED <<metaVars, rows, lastId, file, taken, outside>>
      /\ items' = Appended(Head(job[j].todo), j, job[j].searched, TRUE)
  BY DEF AppendItem
<1>2. Frame /\ FileOK' BY <1>1, SameFile DEF Frame
<1>3. JobRecord(job[j]) BY DEF Types, JobsOK
<1> DEFINE rest == Tail(job[j].todo)
           more == job[j].added \cup {Len(items) + 1}
           p == [job[j] EXCEPT !.pc = "check"]
           q == [p EXCEPT !.todo = rest]
           s == [q EXCEPT !.added = more]
           r == [job[j] EXCEPT !.pc = "check", !.todo = Tail(@), !.added = @ \cup {Len(items) + 1},
                            !.searched = 0]
<1>4. Step(j, r) BY DEF AppendItem
<1>5. r = [s EXCEPT !.searched = 0] OBVIOUS
<1> HIDE DEF r, rest, more
<1>6. /\ JobRecord(p) /\ p.pc = "check" /\ p.new = job[j].new
      /\ p.archived = job[j].archived /\ p.orderly = job[j].orderly
  BY <1>3, NewPc
<1> HIDE DEF p
<1>7. /\ JobRecord(q) /\ q.pc = "check" /\ q.new = job[j].new
      /\ q.archived = job[j].archived /\ q.orderly = job[j].orderly
  BY <1>6, NewTodo
<1> HIDE DEF q
<1>8. /\ JobRecord(s) /\ s.pc = "check" /\ s.new = job[j].new
      /\ s.added = more
      /\ s.archived = job[j].archived /\ s.orderly = job[j].orderly
  BY <1>7, NewAdded
<1> HIDE DEF s
<1>9. /\ JobRecord(r) /\ r.pc = "check" /\ r.new = job[j].new
      /\ r.added = more
      /\ r.archived = job[j].archived /\ r.searched = 0 /\ r.orderly = job[j].orderly
  BY <1>5, <1>8, NewSearched
<1>10. JobsOK' /\ Others(j) /\ job'[j] = r BY <1>4, <1>9, StepEffect DEF Types
<1>11. ItemsOK' BY <1>1, AppendedItems DEF Types
<1>12. Types' BY <1>2, <1>10, <1>11, FrameTypes
<1> QED BY <1>1, <1>9, <1>10, <1>12 DEF more

LEMMA ArchivedItem ==
  ASSUME NEW m, Item(m), NEW n, NEW active \in BOOLEAN, n = [m EXCEPT !.active = active]
  PROVE  Item(n) /\ n.active = active /\ n.content = m.content /\ n.searched = m.searched
         /\ n.indexed = m.indexed
BY DEF Item

(* An archive that finds its memory is counted among what the job did.     *)
LEMMA ArchiveNextEffect ==
  ASSUME Types, NEW j \in Jobs, ArchiveNext(j)
  PROVE  /\ Types' /\ Others(j) /\ job[j].pc = "check" /\ job'[j].pc = "check"
         /\ UNCHANGED <<metaVars, rows, lastId, file, taken, outside>>
         /\ job'[j].new = job[j].new /\ job'[j].added = job[j].added
         /\ job'[j].searched = job[j].searched /\ job'[j].orderly = job[j].orderly
         /\ DOMAIN items' = DOMAIN items /\ Len(items') = Len(items)
         /\ \A i \in DOMAIN items : /\ items'[i].content = items[i].content
                                    /\ items'[i].searched = items[i].searched
                                    /\ items'[i].indexed = items[i].indexed
         /\ \E id : /\ Active' = Active \ {id}
                    /\ job'[j].archived = job[j].archived \cup ({id} \cap Active)
<1> USE DEF ArchiveNext
<1>1. job[j].pc = "check" /\ UNCHANGED <<metaVars, rows, lastId, file, taken, outside>> OBVIOUS
<1>2. Frame /\ FileOK' BY <1>1, SameFile DEF Frame
<1>3. JobRecord(job[j]) BY DEF Types, JobsOK
<1>4. PICK id \in job[j].archives :
        /\ items' = [items EXCEPT ![id].active = FALSE]
        /\ Step(j, [job[j] EXCEPT !.archives = @ \ {id}, !.archived = @ \cup ({id} \cap Active)])
  OBVIOUS
<1> DEFINE off(m) == [m EXCEPT !.active = FALSE]
           new == job[j].archived \cup ({id} \cap Active)
           q == [job[j] EXCEPT !.archives = job[j].archives \ {id}]
           r == [job[j] EXCEPT !.archives = @ \ {id}, !.archived = @ \cup ({id} \cap Active)]
<1>5. PICK S : items \in Seq(S) BY DEF Types, ItemsOK
<1>6. Len(items) \in Nat /\ DOMAIN items = 1..Len(items) BY <1>5
<1>7. items' = [i \in 1..Len(items) |-> IF i = id THEN off(items[i]) ELSE items[i]]
  BY <1>4, <1>5, <1>6
<1>8. \A i \in DOMAIN items : Item(items[i]) BY DEF Types, ItemsOK
<1>9. \A i \in DOMAIN items :
        /\ Item(off(items[i])) /\ off(items[i]).active = FALSE
        /\ off(items[i]).content = items[i].content /\ off(items[i]).searched = items[i].searched
        /\ off(items[i]).indexed = items[i].indexed
  <2> SUFFICES ASSUME NEW i \in DOMAIN items
      PROVE  /\ Item(off(items[i])) /\ off(items[i]).active = FALSE
             /\ off(items[i]).content = items[i].content
             /\ off(items[i]).searched = items[i].searched
             /\ off(items[i]).indexed = items[i].indexed
    OBVIOUS
  <2> DEFINE m == items[i]
             n == [m EXCEPT !.active = FALSE]
  <2>1. Item(m) BY <1>8
  <2> HIDE DEF m
  <2>2. Item(n) /\ n.active = FALSE /\ n.content = m.content /\ n.searched = m.searched
        /\ n.indexed = m.indexed
    BY <2>1, ArchivedItem
  <2> QED BY <2>2 DEF m
<1> HIDE DEF off
<1>10. /\ DOMAIN items' = 1..Len(items)
       /\ \A i \in 1..Len(items) : items'[i] = IF i = id THEN off(items[i]) ELSE items[i]
  BY <1>7
<1>11. items' \in Seq({items'[i] : i \in 1..Len(items)}) /\ Len(items') = Len(items)
  <2> DEFINE T == {items'[i] : i \in 1..Len(items)}
  <2>1. items' \in [1..Len(items) -> T] BY <1>7
  <2> HIDE DEF T
  <2>a. \A n \in Nat : [1..n -> T] \subseteq Seq(T) BY SeqDef
  <2>2. items' \in Seq(T) BY <1>6, <2>1, <2>a
  <2>3. Len(items') \in Nat /\ 1..Len(items') = 1..Len(items) BY <1>10, <2>2
  <2>4. Len(items') = Len(items)
    <3> DEFINE m == Len(items')
               n == Len(items)
    <3>1. m \in Nat /\ n \in Nat /\ 1..m = 1..n BY <1>6, <2>3
    <3> HIDE DEF m, n
    <3>2. (n + 1 <= m => n + 1 \in 1..m) /\ (m + 1 <= n => m + 1 \in 1..n) BY <3>1
    <3>3. n + 1 \notin 1..n /\ m + 1 \notin 1..m BY <3>1
    <3>4. ~ (n + 1 <= m) /\ ~ (m + 1 <= n) BY <3>1, <3>2, <3>3
    <3> QED BY <3>1, <3>4 DEF m, n
  <2> QED BY <2>2, <2>4 DEF T
<1>12. ItemsOK'
  <2>1. \A i \in DOMAIN items' : Item(items'[i]) BY <1>6, <1>8, <1>9, <1>10
  <2> QED BY <1>11, <2>1 DEF ItemsOK, Item
<1>13. Active' = Active \ {id}
  BY <1>6, <1>9, <1>10 DEF Active
<1>14. r = [q EXCEPT !.archived = new] OBVIOUS
<1>15. Step(j, r) BY <1>4
<1> HIDE DEF r, new
<1>16. /\ JobRecord(q) /\ q.pc = "check" /\ q.new = job[j].new /\ q.added = job[j].added
       /\ q.searched = job[j].searched /\ q.orderly = job[j].orderly
  BY <1>3, <1>1, NewArchives
<1> HIDE DEF q
<1>17. /\ JobRecord(r) /\ r.pc = "check" /\ r.new = job[j].new /\ r.added = job[j].added
       /\ r.archived = new /\ r.searched = job[j].searched /\ r.orderly = job[j].orderly
  BY <1>14, <1>16, NewArchived
<1>18. JobsOK' /\ Others(j) /\ job'[j] = r BY <1>15, <1>17, StepEffect DEF Types
<1>19. Types' BY <1>2, <1>12, <1>18, FrameTypes
<1>20. /\ DOMAIN items' = DOMAIN items
       /\ \A i \in DOMAIN items : /\ items'[i].content = items[i].content
                                  /\ items'[i].searched = items[i].searched
                                  /\ items'[i].indexed = items[i].indexed
  BY <1>6, <1>9, <1>10
<1>21. \E x : /\ Active' = Active \ {x}
              /\ job'[j].archived = job[j].archived \cup ({x} \cap Active)
  BY <1>13, <1>17, <1>18 DEF new
<1> QED BY <1>1, <1>11, <1>17, <1>18, <1>19, <1>20, <1>21

LEMMA OrderlyRecord ==
  ASSUME JobsOK, NEW j \in Jobs
  PROVE  /\ JobRecord(Orderly(j)) /\ Orderly(j).pc = Over(j).pc /\ Orderly(j).new = Over(j).new
         /\ Orderly(j).added = job[j].added /\ Orderly(j).archived = job[j].archived
         /\ Orderly(j).searched = 0
<1> DEFINE o == Over(j)
           added == job[j].added
           archived == job[j].archived
           q == [o EXCEPT !.orderly = TRUE]
           s == [q EXCEPT !.added = added]
           r == [s EXCEPT !.archived = archived]
<1>1. Orderly(j) = r BY DEF Orderly
<1>2. JobRecord(o) /\ o.searched = 0 BY OverRecord DEF NoMemories
<1> HIDE DEF o, added, archived
<1>3. JobRecord(q) /\ q.pc = o.pc /\ q.new = o.new /\ q.searched = 0
  BY <1>2, NewOrderly
<1> HIDE DEF q
<1>4. JobRecord(s) /\ s.pc = o.pc /\ s.new = o.new /\ s.searched = 0 /\ s.added = added
  BY <1>3, NewAdded
<1> HIDE DEF s
<1>5. /\ JobRecord(r) /\ r.pc = o.pc /\ r.new = o.new /\ r.searched = 0
      /\ r.added = added /\ r.archived = archived
  BY <1>4, NewArchived
<1> QED BY <1>1, <1>5 DEF o, added, archived

(* A job that is over is forgotten, or remembered with the file it wrote   *)
(* or had no reason to write.                                              *)
LEMMA FinishEffect ==
  ASSUME Types, NEW j \in Jobs, Finish(j)
  PROVE  /\ Types' /\ Others(j) /\ job[j].pc = "check"
         /\ job'[j].pc \in {"done", "cursor"}
         /\ j \in Dreams => job'[j].pc = "cursor" /\ job'[j].new = job[j].new
         /\ UNCHANGED <<metaVars, rows, lastId, items, taken, outside>>
         /\ \/ NoMemories(job'[j]) /\ file' = file
            \/ /\ job'[j].added = job[j].added /\ job'[j].archived = job[j].archived
               /\ job'[j].searched = 0 /\ Place[j] # NoPlace
               /\ \/ job[j].added = {} /\ job[j].archived = {} /\ file' = file
                  \/ \E list \in Found(Active, ProjectionLimit) :
                       file' = [file EXCEPT ![Place[j]] = list]
<1> USE DEF Finish
<1>1. job[j].pc = "check" /\ UNCHANGED <<metaVars, rows, lastId, items, taken, outside>> OBVIOUS
<1>2. ItemsOK' /\ Frame BY <1>1, SameItems DEF Frame
<1>3. FileOK' BY SameFile DEF Types, FileOK
<1>4. /\ JobRecord(Over(j)) /\ NoMemories(Over(j)) /\ Over(j).pc \in {"done", "cursor"}
      /\ j \in Dreams => Over(j).pc = "cursor" /\ Over(j).new = job[j].new
  BY OverRecord DEF Types
<1>5. CASE Step(j, Over(j)) /\ file' = file
  <2>1. JobsOK' /\ Others(j) /\ job'[j] = Over(j) BY <1>4, <1>5, StepEffect DEF Types
  <2>2. Types' BY <1>2, <1>3, <2>1, FrameTypes
  <2> QED BY <1>1, <1>4, <1>5, <2>1, <2>2
<1>6. CASE /\ Step(j, Orderly(j)) /\ Place[j] # NoPlace
           /\ \/ job[j].added = {} /\ job[j].archived = {} /\ file' = file
              \/ \E list \in Found(Active, ProjectionLimit) :
                   file' = [file EXCEPT ![Place[j]] = list]
  <2>1. /\ JobRecord(Orderly(j)) /\ Orderly(j).pc = Over(j).pc /\ Orderly(j).new = Over(j).new
        /\ Orderly(j).added = job[j].added /\ Orderly(j).archived = job[j].archived
        /\ Orderly(j).searched = 0
    BY OrderlyRecord DEF Types
  <2>2. JobsOK' /\ Others(j) /\ job'[j] = Orderly(j) BY <1>6, <2>1, StepEffect DEF Types
  <2>3. Types' BY <1>2, <1>3, <2>2, FrameTypes
  <2> QED BY <1>1, <1>4, <1>6, <2>1, <2>2, <2>3
<1>7. Applied(j) = {} => job[j].added = {} /\ job[j].archived = {} BY DEF Applied
<1> QED BY <1>5, <1>6, <1>7 DEF Projects

(* A job that is cut short is over; the memory it was about to append may  *)
(* be in the table.                                                        *)
LEMMA CutEffect ==
  ASSUME Types, NEW j \in Jobs, Cut(j), job[j].searched \in Nat
  PROVE  /\ Types' /\ Others(j) /\ job[j].pc # "cursor"
         /\ job'[j].pc = "done" /\ NoMemories(job'[j])
         /\ UNCHANGED <<metaVars, rows, lastId, file, taken, outside>>
         /\ \/ items' = items
            \/ /\ job[j].pc = "append"
               /\ items' = Appended(Head(job[j].todo), j, job[j].searched, FALSE)
<1> USE DEF Cut
<1>1. /\ job[j].pc # "cursor" /\ UNCHANGED <<metaVars, rows, lastId, file, taken, outside>>
      /\ \/ items' = items
         \/ /\ job[j].pc = "append"
            /\ items' = Appended(Head(job[j].todo), j, job[j].searched, FALSE)
  OBVIOUS
<1>2. ItemsOK' BY <1>1, SameItems, AppendedItems DEF Types
<1>3. Frame /\ FileOK' BY <1>1, SameFile DEF Frame
<1> DEFINE r == [NoJob EXCEPT !.pc = "done"]
<1>4. Step(j, r) OBVIOUS
<1>5. JobRecord(r) /\ r.pc = "done" /\ NoMemories(r)
  BY NoJobRecord, NewPc DEF NoMemories
<1> HIDE DEF r
<1>6. JobsOK' /\ Others(j) /\ job'[j] = r BY <1>4, <1>5, StepEffect DEF Types
<1> QED BY <1>1, <1>2, <1>3, <1>5, <1>6, FrameTypes

-----------------------------------------------------------------------------
(*                      Changes of the metadata                            *)
-----------------------------------------------------------------------------

(* Of every change but c's the rest stays; it is no longer alone if it was *)
(* under way.                                                              *)
OtherMerges(c) ==
  \A d \in Mergers : d # c =>
    /\ merge'[d].pc = merge[d].pc /\ merge'[d].keys = merge[d].keys
    /\ merge'[d].updates = merge[d].updates /\ merge'[d].existing = merge[d].existing
    /\ merge'[d].alone <=> merge[d].alone /\ d \notin Merging

(* The records a change becomes.                                           *)
LEMMA NoMergeRecord == MergeRecord(NoMerge) /\ NoMerge.pc = "idle"
BY DEF MergeRecord, NoMerge

LEMMA MergePc ==
  ASSUME NEW r, MergeRecord(r), NEW x
  PROVE  LET s == [r EXCEPT !.pc = x]
         IN /\ MergeRecord(s) /\ s.pc = x /\ s.keys = r.keys /\ s.updates = r.updates
            /\ s.existing = r.existing /\ s.alone = r.alone
BY DEF MergeRecord

LEMMA MergeKeys ==
  ASSUME NEW r, MergeRecord(r), NEW x
  PROVE  LET s == [r EXCEPT !.keys = x]
         IN /\ MergeRecord(s) /\ s.keys = x /\ s.pc = r.pc /\ s.updates = r.updates
            /\ s.existing = r.existing /\ s.alone = r.alone
BY DEF MergeRecord

LEMMA MergeUpdates ==
  ASSUME NEW r, MergeRecord(r), NEW x
  PROVE  LET s == [r EXCEPT !.updates = x]
         IN /\ MergeRecord(s) /\ s.updates = x /\ s.pc = r.pc /\ s.keys = r.keys
            /\ s.existing = r.existing /\ s.alone = r.alone
BY DEF MergeRecord

LEMMA MergeExisting ==
  ASSUME NEW r, MergeRecord(r), NEW x
  PROVE  LET s == [r EXCEPT !.existing = x]
         IN /\ MergeRecord(s) /\ s.existing = x /\ s.pc = r.pc /\ s.keys = r.keys
            /\ s.updates = r.updates /\ s.alone = r.alone
BY DEF MergeRecord

LEMMA MergeAlone ==
  ASSUME NEW r, MergeRecord(r), NEW x
  PROVE  LET s == [r EXCEPT !.alone = x]
         IN /\ MergeRecord(s) /\ s.alone = x /\ s.pc = r.pc /\ s.keys = r.keys
            /\ s.updates = r.updates /\ s.existing = r.existing
BY DEF MergeRecord

LEMMA BeginMergeEffect ==
  ASSUME MergeOK, NEW c \in Mergers, NEW keys, NEW updates, BeginMerge(c, keys, updates)
  PROVE  /\ MergeOK' /\ merge[c].pc = "idle" /\ OtherMerges(c)
         /\ merge'[c].pc = "reading" /\ merge'[c].keys = keys /\ merge'[c].updates = updates
         /\ merge'[c].alone <=> Merging = {}
         /\ UNCHANGED <<meta, said, doubt>>
<1> USE DEF BeginMerge
<1> DEFINE q1 == [NoMerge EXCEPT !.pc = "reading"]
           q2 == [q1 EXCEPT !.keys = keys]
           q3 == [q2 EXCEPT !.updates = updates]
           r == [NoMerge EXCEPT !.pc = "reading", !.keys = keys, !.updates = updates,
                                     !.alone = Merging = {}]
           o(d) == [merge[d] EXCEPT !.alone = @ /\ d \notin Merging]
<1>1. merge' = [d \in Mergers |-> IF d = c THEN r ELSE o(d)] OBVIOUS
<1>2. r = [q3 EXCEPT !.alone = Merging = {}] OBVIOUS
<1> HIDE DEF r, BeginMerge
<1>3. MergeRecord(q1) /\ q1.pc = "reading" BY NoMergeRecord, MergePc
<1> HIDE DEF q1
<1>4. MergeRecord(q2) /\ q2.pc = "reading" /\ q2.keys = keys BY <1>3, MergeKeys
<1> HIDE DEF q2
<1>5. MergeRecord(q3) /\ q3.pc = "reading" /\ q3.keys = keys /\ q3.updates = updates
  BY <1>4, MergeUpdates
<1> HIDE DEF q3
<1>6. /\ MergeRecord(r) /\ r.pc = "reading" /\ r.keys = keys /\ r.updates = updates
      /\ r.alone = (Merging = {})
  <2> DEFINE a == Merging = {}
  <2>1. r = [q3 EXCEPT !.alone = a] BY <1>2
  <2> HIDE DEF a
  <2>2. /\ MergeRecord(r) /\ r.pc = "reading" /\ r.keys = keys /\ r.updates = updates
        /\ r.alone = a
    BY <2>1, <1>5, MergeAlone
  <2> QED BY <2>2 DEF a
<1>7. ASSUME NEW d \in Mergers
      PROVE  /\ MergeRecord(o(d)) /\ o(d).pc = merge[d].pc /\ o(d).keys = merge[d].keys
             /\ o(d).updates = merge[d].updates /\ o(d).existing = merge[d].existing
             /\ o(d).alone = (merge[d].alone /\ d \notin Merging)
  <2>1. MergeRecord(merge[d]) BY DEF MergeOK
  <2> DEFINE a == merge[d].alone /\ d \notin Merging
             n == [merge[d] EXCEPT !.alone = a]
  <2>2. o(d) = n OBVIOUS
  <2>b. n = [merge[d] EXCEPT !.alone = a] OBVIOUS
  <2> HIDE DEF a, n
  <2>3. /\ MergeRecord(n) /\ n.alone = a /\ n.pc = merge[d].pc /\ n.keys = merge[d].keys
        /\ n.updates = merge[d].updates /\ n.existing = merge[d].existing
    BY <2>1, <2>b, MergeAlone
  <2> QED BY <2>2, <2>3 DEF a
<1> HIDE DEF o
<1>8. merge'[c] = r /\ \A d \in Mergers : d # c => merge'[d] = o(d) BY <1>1
<1>9. MergeOK'
  <2>1. merge' = [d \in Mergers |-> merge'[d]] BY <1>1
  <2>2. \A d \in Mergers : MergeRecord(merge'[d]) BY <1>6, <1>7, <1>8
  <2> QED BY <2>1, <2>2 DEF MergeOK, MergeRecord
<1>10. OtherMerges(c) BY <1>7, <1>8 DEF OtherMerges
<1> QED BY <1>6, <1>8, <1>9, <1>10 DEF BeginMerge

LEMMA ReadMetaEffect ==
  ASSUME MergeOK, NEW c \in Mergers, ReadMeta(c)
  PROVE  /\ MergeOK' /\ merge[c].pc = "reading" /\ \A d \in Mergers : d # c => merge'[d] = merge[d]
         /\ merge'[c].pc = "writing" /\ merge'[c].keys = merge[c].keys
         /\ merge'[c].updates = merge[c].updates /\ merge'[c].existing = meta
         /\ merge'[c].alone = merge[c].alone
         /\ UNCHANGED <<meta, said, doubt>>
<1> USE DEF ReadMeta
<1> DEFINE q == [merge[c] EXCEPT !.pc = "writing"]
           r == [q EXCEPT !.existing = meta]
<1>1. MergeRecord(merge[c]) BY DEF MergeOK
<1>2. merge' = [d \in Mergers |-> IF d = c THEN r ELSE merge[d]]
  BY DEF MergeOK
<1>3. /\ MergeRecord(q) /\ q.pc = "writing" /\ q.keys = merge[c].keys
      /\ q.updates = merge[c].updates /\ q.alone = merge[c].alone
  BY <1>1 DEF MergeRecord
<1> HIDE DEF q
<1>4. /\ MergeRecord(r) /\ r.pc = "writing" /\ r.keys = merge[c].keys
      /\ r.updates = merge[c].updates /\ r.alone = merge[c].alone /\ r.existing = meta
  BY <1>3 DEF MergeRecord
<1> HIDE DEF r
<1>5. MergeOK' BY <1>2, <1>4 DEF MergeOK, MergeRecord
<1> QED BY <1>2, <1>4, <1>5

LEMMA WriteMetaEffect ==
  ASSUME MergeOK, NEW c \in Mergers, WriteMeta(c)
  PROVE  /\ MergeOK' /\ merge[c].pc = "writing" /\ \A d \in Mergers : d # c => merge'[d] = merge[d]
         /\ merge'[c].pc \in {"idle", "done"}
<1> USE DEF WriteMeta
<1> DEFINE r == IF c \in Dreams THEN NoMerge ELSE [NoMerge EXCEPT !.pc = "done"]
<1>1. MergeRecord(r) /\ r.pc \in {"idle", "done"} BY NoMergeRecord, MergePc
<1>2. merge' = [d \in Mergers |-> IF d = c THEN r ELSE merge[d]]
  BY DEF MergeOK
<1> HIDE DEF r
<1>3. MergeOK' BY <1>1, <1>2 DEF MergeOK, MergeRecord
<1> QED BY <1>1, <1>2, <1>3

-----------------------------------------------------------------------------
(*                       No turn is passed over                            *)
-----------------------------------------------------------------------------

(* A step of one job that keeps the safe cursors safe and the batches      *)
(* where they are leaves what the others wait with.                        *)
LEMMA OtherPassesSafe ==
  ASSUME RowsOK, Kept, NEW d \in Dreams, PassIsSafe(d), job'[d] = job[d]
  PROVE  PassIsSafe(d)'
<1>1. /\ \A k : Safe(k) => Safe(k)'
      /\ \A N : Batch(N) => Batch(N)'
      /\ \A N : FreshBatch(N) => FreshBatch(N)'
  BY SafeKept, BatchKept
<1> QED BY <1>1 DEF PassIsSafe, Batch, FreshBatch, Safe

LEMMA ChangesSafe ==
  ASSUME RowsOK, Kept, NEW c \in Mergers, ChangeIsSafe(c), UNCHANGED metaVars
  PROVE  ChangeIsSafe(c)'
<1>1. \A k : Safe(k) => Safe(k)' BY SafeKept
<1>2. merge' = merge /\ meta' = meta BY DEF metaVars
<1>3. WritesCursor(c) => WritesCursor(c)' BY <1>1, <1>2 DEF WritesCursor, Safe
<1>4. WritesModel(c) => WritesModel(c)' BY <1>2 DEF WritesModel
<1>5. WritesRuntime(c) => WritesRuntime(c)' BY <1>2 DEF WritesRuntime, Runtime, Stored
<1>6. merge[c].pc = "writing" => Safe(Stored(merge[c].existing, "cursor", 0))'
  BY <1>1, <1>2 DEF ChangeIsSafe, Safe, Stored
<1> QED BY <1>2, <1>3, <1>4, <1>5, <1>6 DEF ChangeIsSafe

(* A step of a job needs to be looked at for its own pass only.            *)
LEMMA JobStepCursor ==
  ASSUME Types, CursorInv, Kept, UNCHANGED metaVars, NEW j \in Jobs, Others(j),
         job[j].pc # "cursor", j \in Dreams => PassIsSafe(j)'
  PROVE  CursorInv'
<1>1. Safe(Cursor)'
  <2>1. Cursor' = Cursor BY DEF Cursor, Stored, metaVars
  <2>2. \A k : Safe(k) => Safe(k)' BY SafeKept DEF Types
  <2> QED BY <2>1, <2>2 DEF CursorInv, Safe
<1>2. ASSUME NEW d \in Dreams PROVE PassIsSafe(d)'
  <2>1. CASE d = j BY <2>1
  <2>2. CASE d # j
    <3>1. job'[d] = job[d] BY <2>2 DEF Others, Jobs
    <3> QED BY <3>1, OtherPassesSafe DEF CursorInv, Types
  <2> QED BY <2>1, <2>2
<1>3. ASSUME NEW c \in Mergers PROVE ChangeIsSafe(c)'
  BY ChangesSafe DEF CursorInv, Types
<1>4. ASSUME NEW d \in Dreams PROVE Waits(d)'
  BY DEF CursorInv, Waits, Others, Jobs, metaVars
<1> QED BY <1>1, <1>2, <1>3, <1>4 DEF CursorInv

(* Settings and changes stay what they are.                                *)
LEMMA SameMeta ==
  ASSUME UNCHANGED metaVars
  PROVE  (AloneInv => AloneInv') /\ (SettingsSurvive => SettingsSurvive')
BY DEF AloneInv, Merging, SettingsSurvive, InEffect, StoredChoice, RuntimeSettings, Runtime,
       Stored, metaVars

-----------------------------------------------------------------------------
(*                      Memories and their file                            *)
-----------------------------------------------------------------------------

(* The parts of the invariant, one job or one pair at a time.              *)
Twins(i, k) ==
  (i < k /\ items[i].content = items[k].content) => items[k].searched < i \/ ~ items[i].indexed

Listed(j) ==
  job[j].orderly =>
    /\ \A i \in job[j].added \cap Active :
         i \in file[Place[j]] \/ Cardinality(file[Place[j]]) = ProjectionLimit
    /\ job[j].archived \cap file[Place[j]] = {}

LEMMA MemParts ==
  MemInv <=> /\ \A j \in Jobs : Own(j) /\ SearchedFirst(j) /\ Listed(j)
             /\ \A i, k \in Active : Twins(i, k)
BY DEF MemInv, TwinsUnseen, FileKeepsUp, Twins, Listed

LEMMA MemPartsNext ==
  MemInv' <=> /\ \A j \in Jobs : Own(j)' /\ SearchedFirst(j)' /\ Listed(j)'
              /\ \A i, k \in Active' : Twins(i, k)'
BY DEF MemInv, TwinsUnseen, FileKeepsUp, Twins, Listed

(* What a job keeps is still its own while the memories stay.              *)
LEMMA SameJobParts ==
  ASSUME UNCHANGED <<items, file>>, NEW j \in Jobs, job'[j] = job[j]
  PROVE  (Own(j) => Own(j)') /\ (SearchedFirst(j) => SearchedFirst(j)') /\ (Listed(j) => Listed(j)')
BY DEF Own, SearchedFirst, Listed, Active

LEMMA MemoriesSame ==
  ASSUME MemInv, UNCHANGED <<items, file, job>>
  PROVE  MemInv'
BY DEF MemInv, Own, SearchedFirst, TwinsUnseen, FileKeepsUp, Active

(* A step that touches no memory, of a job that is not about to append.    *)
LEMMA MemoriesStay ==
  ASSUME ItemsOK, MemInv, UNCHANGED <<items, file>>, NEW j \in Jobs, Others(j), job'[j].pc # "append",
         \/ NoMemories(job'[j])
         \/ /\ SameMemories(j)
            /\ job[j].pc \in {"cursor", "done"} => job'[j].pc \in {"cursor", "done"}
  PROVE  MemInv'
<1>1. Own(j) /\ SearchedFirst(j) /\ Listed(j) BY MemParts
<1>2. Active' = Active /\ Len(items) \in Nat BY DEF Active, ItemsOK
<1>3. Own(j)'
  <2>1. CASE NoMemories(job'[j]) BY <1>2, <2>1 DEF Own, NoMemories
  <2>2. CASE /\ SameMemories(j)
             /\ job[j].pc \in {"cursor", "done"} => job'[j].pc \in {"cursor", "done"}
    BY <1>1, <1>2, <2>2 DEF Own, SameMemories
  <2> QED BY <2>1, <2>2
<1>4. SearchedFirst(j)' BY DEF SearchedFirst
<1>5. Listed(j)' BY <1>1, <1>2 DEF Listed, NoMemories, SameMemories
<1>6. \A k \in Jobs : Own(k)' /\ SearchedFirst(k)' /\ Listed(k)'
  <2> TAKE k \in Jobs
  <2>1. CASE k = j BY <1>3, <1>4, <1>5, <2>1
  <2>2. CASE k # j
    <3>1. job'[k] = job[k] BY <2>2 DEF Others
    <3> QED BY <3>1, SameJobParts, MemParts
  <2> QED BY <2>1, <2>2
<1>7. \A i, k \in Active' : Twins(i, k)' BY <1>2, MemParts DEF Twins
<1> QED BY <1>6, <1>7, MemPartsNext

(* What a search that leaves no hit out does not find, no memory in the    *)
(* index says.                                                             *)
LEMMA NoDuplicateIsNew ==
  ASSUME NEW c, ~ HasDuplicate(c, Hits(c))
  PROVE  \A i \in Active : items[i].content = c => ~ items[i].indexed
<1> SUFFICES ASSUME NEW i \in Active, items[i].content = c, items[i].indexed PROVE FALSE OBVIOUS
<1>1. i \in Hits(c)
  <2>1. CASE Words[c] = {} BY <2>1 DEF Hits
  <2>2. CASE Words[c] # {}
    <3>1. Words[items[i].content] \cap Words[c] # {} BY <2>2
    <3> QED BY <2>2, <3>1 DEF Hits, Matches
  <2> QED BY <2>1, <2>2
<1> QED BY <1>1 DEF HasDuplicate

(* A job that goes on from a search to its append.                         *)
LEMMA MemoriesSearched ==
  ASSUME ItemsOK, MemInv, UNCHANGED <<items, file>>, NEW j \in Jobs, Others(j), job[j].pc = "check",
         job'[j].added = job[j].added, job'[j].archived = job[j].archived,
         job'[j].orderly = job[j].orderly, job'[j].todo = job[j].todo,
         \/ job'[j].searched = 0
         \/ /\ job'[j].searched = Len(items)
            /\ ~ HasDuplicate(Head(job[j].todo), Hits(Head(job[j].todo)))
  PROVE  MemInv'
<1>1. Own(j) BY MemParts
<1>2. Active' = Active /\ Len(items) \in Nat /\ DOMAIN items = 1..Len(items)
  BY DEF Active, ItemsOK
<1>3. job[j].orderly = FALSE \/ ~ job[j].orderly BY <1>1 DEF Own
<1>4. Own(j)' BY <1>1, <1>2 DEF Own
<1>5. SearchedFirst(j)'
  <2> SUFFICES ASSUME NEW i \in Active, i <= job'[j].searched, items[i].content = Head(job[j].todo)
               PROVE  ~ items[i].indexed
    BY <1>2 DEF SearchedFirst
  <2>1. i \in 1..Len(items) BY <1>2 DEF Active
  <2>2. job'[j].searched # 0 BY <1>2, <2>1
  <2> QED BY <2>2, NoDuplicateIsNew
<1>6. Listed(j)' BY <1>1 DEF Own, Listed
<1>7. \A k \in Jobs : Own(k)' /\ SearchedFirst(k)' /\ Listed(k)'
  <2> TAKE k \in Jobs
  <2>1. CASE k = j BY <1>4, <1>5, <1>6, <2>1
  <2>2. CASE k # j
    <3>1. job'[k] = job[k] BY <2>2 DEF Others
    <3> QED BY <3>1, SameJobParts, MemParts
  <2> QED BY <2>1, <2>2
<1>8. \A i, k \in Active' : Twins(i, k)' BY <1>2, MemParts DEF Twins
<1> QED BY <1>7, <1>8, MemPartsNext

(* An append, by a job that searched the first n memories or by hand.      *)
LEMMA MemoriesAppended ==
  ASSUME ItemsOK, MemInv, file' = file, NEW c, NEW by, NEW n \in Nat, NEW indexed \in BOOLEAN,
         items' = Appended(c, by, n, indexed),
         \A i \in Active : (i <= n /\ items[i].content = c) => ~ items[i].indexed,
         \A k \in Jobs : job'[k] = job[k] \/ (Own(k)' /\ job'[k].pc # "append" /\ ~ job'[k].orderly)
  PROVE  MemInv'
<1> DEFINE l == Len(items)
<1>1. /\ l \in Nat /\ DOMAIN items = 1..l /\ Len(items') = l + 1 /\ DOMAIN items' = 1..(l + 1)
      /\ \A i \in 1..l : items'[i] = items[i]
      /\ items'[l + 1].content = c /\ items'[l + 1].searched = n
      /\ Active \subseteq 1..l /\ Active' = Active \cup {l + 1}
  BY AppendedItems
<1> HIDE DEF l
<1>a. \A i \in 1..l : i # l + 1 /\ ~ (l + 1 <= i) BY <1>1
<1>2. ASSUME NEW k \in Jobs, job'[k] = job[k]
      PROVE  Own(k)' /\ SearchedFirst(k)' /\ Listed(k)'
  <2>1. Own(k) /\ SearchedFirst(k) /\ Listed(k) BY MemParts
  <2>2. job[k].added \subseteq 1..l /\ job[k].archived \subseteq (1..l) \ Active
        /\ job[k].searched \in 0..l
    BY <2>1 DEF Own, l
  <2>3. job[k].added \subseteq 1..(l + 1) /\ job[k].searched \in 0..(l + 1)
    BY <1>1, <2>2
  <2>4. job[k].archived \subseteq (1..(l + 1)) \ Active'
    <3>1. \A i \in 1..l : i \in 1..(l + 1) BY <1>1
    <3> QED BY <1>1, <1>a, <2>2, <3>1
  <2>5. Own(k)' BY <1>1, <1>2, <2>1, <2>3, <2>4 DEF Own
  <2>6. SearchedFirst(k)'
    <3> SUFFICES ASSUME job[k].pc = "append", NEW i \in Active', i <= job[k].searched,
                        items'[i].content = Head(job[k].todo)
                 PROVE  ~ items'[i].indexed
      BY <1>2 DEF SearchedFirst
    <3>1. i # l + 1 BY <1>1, <2>2
    <3>2. i \in Active /\ items'[i] = items[i] BY <1>1, <3>1
    <3> QED BY <2>1, <3>2 DEF SearchedFirst
  <2>7. job[k].added \cap Active' = job[k].added \cap Active BY <1>1, <1>a, <2>2
  <2>8. Listed(k)' BY <1>2, <2>1, <2>7 DEF Listed
  <2> QED BY <2>5, <2>6, <2>8
<1>3. \A k \in Jobs : Own(k)' /\ SearchedFirst(k)' /\ Listed(k)'
  <2> TAKE k \in Jobs
  <2>1. CASE job'[k] = job[k] BY <1>2, <2>1
  <2>2. CASE Own(k)' /\ job'[k].pc # "append" /\ ~ job'[k].orderly
    BY <2>2 DEF SearchedFirst, Listed
  <2> QED BY <2>1, <2>2
<1>4. ASSUME NEW i \in Active', NEW k \in Active', i < k, items'[i].content = items'[k].content
      PROVE  items'[k].searched < i \/ ~ items'[i].indexed
  <2>1. i \in 1..l /\ i \in Active /\ items'[i] = items[i] BY <1>1, <1>a, <1>4
  <2>2. CASE k = l + 1
    <3>1. items[i].content = c /\ items'[k].searched = n BY <1>1, <1>4, <2>1, <2>2
    <3>2. n < i \/ i <= n BY <2>1
    <3> QED BY <2>1, <3>1, <3>2
  <2>3. CASE k # l + 1
    <3>1. k \in Active /\ items'[k] = items[k] BY <1>1, <2>3
    <3>2. Twins(i, k) BY <2>1, <3>1, MemParts
    <3> QED BY <1>4, <2>1, <3>1, <3>2 DEF Twins
  <2> QED BY <2>2, <2>3
<1>5. \A i, k \in Active' : Twins(i, k)' BY <1>4 DEF Twins
<1> QED BY <1>3, <1>5, MemPartsNext

(* An archive.                                                             *)
LEMMA MemoriesArchived ==
  ASSUME MemInv, file' = file, NEW j \in Jobs, Others(j), job[j].pc = "check", job'[j].pc = "check",
         job'[j].added = job[j].added, job'[j].searched = job[j].searched,
         job'[j].orderly = job[j].orderly,
         DOMAIN items' = DOMAIN items, Len(items') = Len(items), DOMAIN items = 1..Len(items),
         \A i \in DOMAIN items : /\ items'[i].content = items[i].content
                                 /\ items'[i].searched = items[i].searched
                                 /\ items'[i].indexed = items[i].indexed,
         NEW id, Active' = Active \ {id}, job'[j].archived = job[j].archived \cup ({id} \cap Active)
  PROVE  MemInv'
<1>0. Active \subseteq DOMAIN items BY DEF Active
<1>1. ASSUME NEW k \in Jobs, job'[k] = job[k]
      PROVE  Own(k)' /\ SearchedFirst(k)' /\ Listed(k)'
  <2>1. Own(k) /\ SearchedFirst(k) /\ Listed(k) BY MemParts
  <2>2. Own(k)' BY <1>1, <2>1 DEF Own
  <2>3. SearchedFirst(k)' BY <1>0, <1>1, <2>1 DEF SearchedFirst
  <2>4. Listed(k)' BY <1>1, <2>1 DEF Listed
  <2> QED BY <2>2, <2>3, <2>4
<1>2. Own(j)' /\ SearchedFirst(j)' /\ Listed(j)'
  <2>1. Own(j) BY MemParts
  <2>2. ~ job[j].orderly BY <2>1 DEF Own
  <2>3. Own(j)' BY <1>0, <2>1, <2>2 DEF Own
  <2> QED BY <2>2, <2>3 DEF SearchedFirst, Listed
<1>3. \A k \in Jobs : Own(k)' /\ SearchedFirst(k)' /\ Listed(k)'
  BY <1>1, <1>2 DEF Others
<1>4. \A i, k \in Active' : Twins(i, k)'
  <2> TAKE i, k \in Active'
  <2>1. i \in Active /\ k \in Active /\ i \in DOMAIN items /\ k \in DOMAIN items BY <1>0
  <2>2. Twins(i, k) BY <2>1, MemParts
  <2> QED BY <2>1, <2>2 DEF Twins
<1> QED BY <1>3, <1>4, MemPartsNext

(* The file a job writes has every memory there is, or as many as it may;  *)
(* none of them was archived.                                              *)
LEMMA MemoriesListed ==
  ASSUME ItemsOK, FileOK, MemInv, items' = items, NEW j \in Jobs, Others(j), job[j].pc = "check",
         job'[j].pc \in {"done", "cursor"}, Place[j] # NoPlace,
         job'[j].added = job[j].added, job'[j].archived = job[j].archived, job'[j].searched = 0,
         \/ job[j].added = {} /\ job[j].archived = {} /\ file' = file
         \/ \E list \in Found(Active, ProjectionLimit) : file' = [file EXCEPT ![Place[j]] = list]
  PROVE  MemInv'
<1>1. Active' = Active /\ Len(items) \in Nat BY DEF Active, ItemsOK
<1>2. Own(j)' BY <1>1, MemParts DEF Own
<1>3. ASSUME NEW k \in Jobs PROVE Own(k)' /\ SearchedFirst(k)'
  <2>1. CASE k = j BY <1>2, <2>1 DEF SearchedFirst
  <2>2. CASE k # j
    <3>1. job'[k] = job[k] BY <2>2 DEF Others
    <3>2. Own(k) /\ SearchedFirst(k) BY MemParts
    <3> QED BY <1>1, <3>1, <3>2 DEF Own, SearchedFirst
  <2> QED BY <2>1, <2>2
<1>4. ASSUME NEW k \in Jobs, job'[k].orderly PROVE Listed(k)'
  <2>1. Own(k) /\ Listed(k) BY MemParts
  <2>2. /\ job'[k].added = job[k].added /\ job'[k].archived = job[k].archived
        /\ Place[k] # NoPlace
        /\ k # j => job[k].orderly
    <3>1. CASE k = j BY <3>1
    <3>2. CASE k # j
      <4>1. job'[k] = job[k] BY <3>2 DEF Others
      <4> QED BY <1>4, <2>1, <4>1 DEF Own
    <3> QED BY <3>1, <3>2
  <2>3. CASE file' = file /\ job[j].added = {} /\ job[j].archived = {}
    <3>1. CASE k = j
      <4>1. job'[k].added = {} /\ job'[k].archived = {} BY <2>2, <2>3, <3>1
      <4> QED BY <4>1 DEF Listed
    <3>2. CASE k # j BY <1>1, <2>1, <2>2, <2>3, <3>2 DEF Listed
    <3> QED BY <3>1, <3>2
  <2>4. ASSUME NEW list \in Found(Active, ProjectionLimit), file' = [file EXCEPT ![Place[j]] = list]
        PROVE  Listed(k)'
    <3>1. list \subseteq Active /\ (list = Active \/ Cardinality(list) = ProjectionLimit)
      BY DEF Found
    <3>2. job[k].archived \cap Active = {} BY <2>1 DEF Own
    <3>a. Place[k] \in Places BY <2>2 DEF Places
    <3>b. file = [p \in Places |-> file[p]] BY DEF FileOK
    <3>3. file'[Place[k]] = IF Place[k] = Place[j] THEN list ELSE file[Place[k]]
      BY <2>4, <3>a, <3>b
    <3>4. CASE Place[k] = Place[j]
      BY <1>1, <2>2, <3>1, <3>2, <3>3, <3>4 DEF Listed
    <3>5. CASE Place[k] # Place[j]
      <4>1. k # j BY <3>5
      <4>2. job[k].orderly /\ file'[Place[k]] = file[Place[k]] BY <2>2, <3>3, <3>5, <4>1
      <4> QED BY <1>1, <2>1, <2>2, <4>2 DEF Listed
    <3> QED BY <3>4, <3>5
  <2> QED BY <2>3, <2>4
<1>5. \A k \in Jobs : Listed(k)' BY <1>4 DEF Listed
<1>6. \A i, k \in Active' : Twins(i, k)' BY <1>1, MemParts DEF Twins
<1> QED BY <1>3, <1>5, <1>6, MemPartsNext

-----------------------------------------------------------------------------
(*                           Every step                                    *)
-----------------------------------------------------------------------------

LEMMA StoreSteps ==
  ASSUME IInv, NEW t \in Turns, StoreMessage(t) \/ StoreReply(t)
  PROVE  IInv'
<1>0. Types /\ CursorInv /\ AloneInv /\ MemInv /\ SettingsSurvive BY DEF IInv
<1>1. t \in Jobs /\ t \notin Dreams BY MemoryAssumption DEF Jobs
<1>2. /\ Types' /\ Kept /\ Others(t) /\ job[t].pc \in {"idle", "replying"}
      /\ job'[t].pc \in {"replying", "loading"} /\ SameMemories(t)
      /\ UNCHANGED <<metaVars, items, file>>
  BY <1>0, StoreMessageEffect, StoreReplyEffect
<1>3. CursorInv' BY <1>0, <1>1, <1>2, JobStepCursor
<1>4. AloneInv' /\ SettingsSurvive' BY <1>0, <1>2, SameMeta
<1>5. MemInv' BY <1>0, <1>1, <1>2, MemoriesStay DEF Types
<1> QED BY <1>2, <1>3, <1>4, <1>5 DEF IInv

LEMMA StartPassStep ==
  ASSUME IInv, NEW d \in Dreams, StartPass(d)
  PROVE  IInv'
<1>0. Types /\ CursorInv /\ AloneInv /\ MemInv /\ SettingsSurvive BY DEF IInv
<1>1. d \in Jobs /\ Safe(Cursor) BY <1>0 DEF Jobs, CursorInv
<1>2. /\ Types' /\ Others(d) /\ job[d].pc = "idle"
      /\ job'[d].pc = "records" /\ job'[d].cursor = Cursor /\ SameMemories(d)
      /\ UNCHANGED <<metaVars, rows, lastId, items, file, taken, outside>>
  BY <1>0, <1>1, StartPassEffect
<1>3. Kept BY <1>0, <1>2, SameRowsKept DEF Types
<1>4. PassIsSafe(d)'
  <2>1. Safe(Cursor)' BY <1>1, <1>2 DEF Safe, Cursor, Stored, metaVars
  <2>2. Cursor' = Cursor BY <1>2 DEF Cursor, Stored, metaVars
  <2> QED BY <1>2, <2>1, <2>2 DEF PassIsSafe, Safe, Asked
<1>5. CursorInv' BY <1>0, <1>1, <1>2, <1>3, <1>4, JobStepCursor
<1>6. AloneInv' /\ SettingsSurvive' BY <1>0, <1>2, SameMeta
<1>7. MemInv' BY <1>0, <1>1, <1>2, MemoriesStay DEF Types
<1> QED BY <1>2, <1>5, <1>6, <1>7 DEF IInv

LEMMA ReadRecordsStep ==
  ASSUME IInv, NEW d \in Dreams, ReadRecords(d)
  PROVE  IInv'
<1>0. Types /\ CursorInv /\ AloneInv /\ MemInv /\ SettingsSurvive BY DEF IInv
<1>1. d \in Jobs /\ PassIsSafe(d) BY <1>0 DEF Jobs, CursorInv
<1>2. /\ Types' /\ Others(d) /\ job[d].pc = "records"
      /\ outside \subseteq outside' /\ NoMemories(job'[d])
      /\ job'[d].pc # "idle" => job'[d].pc = "loading" /\ FreshBatch(job[d].new)'
      /\ UNCHANGED <<metaVars, rows, lastId, items, file, taken>>
  BY <1>0, <1>1, ReadRecordsEffect DEF PassIsSafe
<1>3. Kept BY <1>0, <1>2, SameRowsKept DEF Types
<1>4. PassIsSafe(d)' BY <1>2 DEF PassIsSafe, Asked
<1>5. CursorInv' BY <1>0, <1>1, <1>2, <1>3, <1>4, JobStepCursor
<1>6. AloneInv' /\ SettingsSurvive' BY <1>0, <1>2, SameMeta
<1>7. job'[d].pc # "append" BY <1>2
<1>8. MemInv' BY <1>0, <1>1, <1>2, <1>7, MemoriesStay DEF Types
<1> QED BY <1>2, <1>5, <1>6, <1>8 DEF IInv

(* A pass goes on with the batch its model was asked about.                *)
LEMMA BatchGoesOn ==
  ASSUME RowsOK, Kept, NEW d \in Dreams, PassIsSafe(d), job[d].pc \in Asked,
         job'[d].new = job[d].new, job'[d].pc \in Asked
  PROVE  PassIsSafe(d)'
<1>1. Batch(job[d].new) /\ Safe(Max(job[d].new)) BY DEF PassIsSafe
<1>2. /\ \A k : Safe(k) => Safe(k)'
      /\ \A N : Batch(N) => Batch(N)'
  BY SafeKept, BatchKept
<1>3. Batch(job[d].new)' BY <1>1, <1>2 DEF Batch
<1>4. Max(job'[d].new) = Max(job[d].new) OBVIOUS
<1>5. Safe(Max(job[d].new))' BY <1>1, <1>2, <1>4 DEF Safe
<1>6. job'[d].pc # "records" /\ job'[d].pc # "loading" BY DEF Asked
<1> QED BY <1>3, <1>5, <1>6 DEF PassIsSafe, Asked

LEMMA ExtractKeeps ==
  ASSUME IInv, NEW j \in Jobs, Types', Others(j), Kept, UNCHANGED <<metaVars, items, file>>,
         job[j].pc \in {"loading", "asking"}, Extracted(j),
         j \in Dreams => PassIsSafe(j) /\ job[j].pc = "asking"
  PROVE  IInv'
<1>0. Types /\ CursorInv /\ AloneInv /\ MemInv /\ SettingsSurvive BY DEF IInv
<1>1. /\ job'[j].pc \in {"done", "cursor", "check"}
      /\ j \in Dreams => job'[j].new = job[j].new /\ job'[j].pc \in Asked
  BY DEF Extracted, Asked
<1>2. j \in Dreams => PassIsSafe(j)'
  <2> SUFFICES ASSUME j \in Dreams PROVE PassIsSafe(j)' OBVIOUS
  <2>1. job[j].pc \in Asked BY DEF Asked
  <2> QED BY <1>0, <1>1, <2>1, BatchGoesOn DEF Types
<1>3. CursorInv' BY <1>0, <1>2, JobStepCursor
<1>4. AloneInv' /\ SettingsSurvive' BY <1>0, SameMeta
<1>5. MemInv' BY <1>0, <1>1, MemoriesStay DEF Types, Extracted
<1> QED BY <1>3, <1>4, <1>5 DEF IInv

LEMMA LoadExistingStep ==
  ASSUME IInv, NEW j \in Jobs, LoadExisting(j)
  PROVE  IInv'
<1>0. Types /\ CursorInv /\ AloneInv /\ MemInv /\ SettingsSurvive BY DEF IInv
<1>1. /\ Types' /\ Others(j) /\ job[j].pc = "loading"
      /\ UNCHANGED <<metaVars, rows, lastId, items, file, outside>>
  BY <1>0, LoadExistingEffect
<1>2. CASE j \in Turns /\ taken' = taken /\ Extracted(j)
  <2>1. Kept BY <1>0, <1>1, <1>2, SameRowsKept DEF Types
  <2>2. j \notin Dreams BY <1>2, MemoryAssumption
  <2> QED BY <1>1, <1>2, <2>1, <2>2, ExtractKeeps
<1>3. CASE /\ j \in Dreams /\ taken' = taken \cup job[j].new
           /\ job'[j].pc = "asking" /\ job'[j].new = job[j].new /\ SameMemories(j)
  <2>1. Kept BY <1>0, <1>1, <1>3, SameRowsKept DEF Types
  <2>2. FreshBatch(job[j].new) BY <1>0, <1>1, <1>3 DEF CursorInv, PassIsSafe
  <2> DEFINE N == job[j].new
  <2>3. N # {} /\ N \in SUBSET (1..lastId) /\ lastId \in Nat
    BY <1>0, <2>2 DEF FreshBatch, Batch, Types, RowsOK
  <2>4. Max(N) \in N /\ \A k \in N : k <= Max(N)
    <3> HIDE DEF N
    <3> QED BY <2>3, MaxIsGreatest
  <2>5. Max(N) \in 0..lastId BY <2>3, <2>4
  <2>6. ASSUME NEW i \in DOMAIN rows, rows[i].id <= Max(N)
        PROVE  rows[i].id \in taken' \cup outside
    <3>1. ~ (rows[i].id > Max(N)) BY <2>5, <2>6, <1>0 DEF Types, RowsOK
    <3>2. rows[i].id \in taken \cup outside \cup N BY <2>2, <2>4, <3>1 DEF FreshBatch
    <3> QED BY <1>3, <3>2
  <2>7. Safe(Max(job[j].new))'
    <3>1. Max(job'[j].new) = Max(N) BY <1>3
    <3> HIDE DEF N
    <3> QED BY <1>1, <2>5, <2>6, <3>1 DEF Safe
  <2>8. Batch(job[j].new)' BY <1>1, <1>3, <2>2 DEF FreshBatch, Batch
  <2>9. PassIsSafe(j)' BY <1>3, <2>7, <2>8 DEF PassIsSafe, Asked
  <2>10. CursorInv' BY <1>0, <1>1, <2>1, <2>9, JobStepCursor
  <2>11. AloneInv' /\ SettingsSurvive' BY <1>0, <1>1, SameMeta
  <2>12. MemInv' BY <1>0, <1>1, <1>3, MemoriesStay DEF Types
  <2> QED BY <1>1, <2>10, <2>11, <2>12 DEF IInv
<1> QED BY <1>0, <1>2, <1>3, LoadExistingEffect

LEMMA ModelAnswersStep ==
  ASSUME IInv, NEW d \in Dreams, ModelAnswers(d)
  PROVE  IInv'
<1>0. Types /\ CursorInv BY DEF IInv
<1>1. d \in Jobs /\ PassIsSafe(d) BY <1>0 DEF Jobs, CursorInv
<1>2. /\ Types' /\ Others(d) /\ job[d].pc = "asking"
      /\ UNCHANGED <<metaVars, rows, lastId, items, file, taken, outside>>
      /\ Extracted(d)
  BY <1>0, ModelAnswersEffect
<1>3. Kept BY <1>0, <1>2, SameRowsKept DEF Types
<1> QED BY <1>1, <1>2, <1>3, ExtractKeeps

(* A step inside an extraction leaves the pass where it is.                *)
LEMMA InsideCursor ==
  ASSUME Types, CursorInv, NEW j \in Jobs, Others(j),
         UNCHANGED <<metaVars, rows, lastId, taken, outside>>,
         job[j].pc \in {"check", "append"},
         \/ job'[j].pc \in {"check", "append", "cursor"} /\ (j \in Dreams => job'[j].new = job[j].new)
         \/ j \notin Dreams
  PROVE  CursorInv'
<1>1. Kept BY SameRowsKept DEF Types
<1>2. j \in Dreams => PassIsSafe(j)'
  <2> SUFFICES ASSUME j \in Dreams PROVE PassIsSafe(j)' OBVIOUS
  <2>1. job[j].pc \in Asked /\ job'[j].pc \in Asked /\ PassIsSafe(j)
    BY DEF Asked, CursorInv
  <2> QED BY <1>1, <2>1, BatchGoesOn DEF Types
<1> QED BY <1>1, <1>2, JobStepCursor

LEMMA CheckNextStep ==
  ASSUME IInv, NEW j \in Jobs, CheckNext(j)
  PROVE  IInv'
<1>0. Types /\ CursorInv /\ AloneInv /\ MemInv /\ SettingsSurvive BY DEF IInv
<1>1. /\ Types' /\ Others(j) /\ job[j].pc = "check"
      /\ UNCHANGED <<metaVars, rows, lastId, items, file, taken, outside>>
      /\ job'[j].new = job[j].new
      /\ job'[j].added = job[j].added /\ job'[j].archived = job[j].archived
      /\ job'[j].orderly = job[j].orderly
      /\ \/ job'[j].pc = "check" /\ job'[j].searched = job[j].searched
         \/ /\ job'[j].pc = "append" /\ job'[j].todo = job[j].todo
            /\ \/ job'[j].searched = 0
               \/ /\ job'[j].searched = Len(items)
                  /\ ~ HasDuplicate(Head(job[j].todo), Hits(Head(job[j].todo)))
  BY <1>0, CheckNextEffect
<1>2. CursorInv' BY <1>0, <1>1, InsideCursor
<1>3. AloneInv' /\ SettingsSurvive' BY <1>0, <1>1, SameMeta
<1>4. MemInv'
  <2>1. CASE job'[j].pc = "check" /\ job'[j].searched = job[j].searched
    <3>1. SameMemories(j) BY <1>1, <2>1 DEF SameMemories
    <3>2. job'[j].pc # "append" BY <2>1
    <3> QED BY <1>0, <1>1, <3>1, <3>2, MemoriesStay DEF Types
  <2>2. CASE /\ job'[j].pc = "append" /\ job'[j].todo = job[j].todo
             /\ \/ job'[j].searched = 0
                \/ /\ job'[j].searched = Len(items)
                   /\ ~ HasDuplicate(Head(job[j].todo), Hits(Head(job[j].todo)))
    BY <1>0, <1>1, <2>2, MemoriesSearched DEF Types
  <2> QED BY <1>1, <2>1, <2>2
<1> QED BY <1>1, <1>2, <1>3, <1>4 DEF IInv

(* A job that is about to append has searched for it.                      *)
LEMMA AboutToAppend ==
  ASSUME ItemsOK, MemInv, NEW j \in Jobs
  PROVE  /\ job[j].searched \in Nat
         /\ job[j].pc = "append" =>
              \A i \in Active : (i <= job[j].searched /\ items[i].content = Head(job[j].todo)) =>
                                  ~ items[i].indexed
BY DEF MemInv, Own, SearchedFirst, ItemsOK

LEMMA AppendItemStep ==
  ASSUME IInv, NEW j \in Jobs, AppendItem(j)
  PROVE  IInv'
<1>0. Types /\ CursorInv /\ AloneInv /\ MemInv /\ SettingsSurvive BY DEF IInv
<1>a. job[j].searched \in Nat BY <1>0, AboutToAppend DEF Types
<1>1. /\ Types' /\ Others(j) /\ job[j].pc = "append" /\ job'[j].pc = "check"
      /\ UNCHANGED <<metaVars, rows, lastId, file, taken, outside>>
      /\ items' = Appended(Head(job[j].todo), j, job[j].searched, TRUE)
      /\ job'[j].new = job[j].new /\ job'[j].added = job[j].added \cup {Len(items) + 1}
      /\ job'[j].archived = job[j].archived /\ job'[j].searched = 0
      /\ job'[j].orderly = job[j].orderly
  BY <1>0, <1>a, AppendItemEffect
<1>2. CursorInv' BY <1>0, <1>1, InsideCursor
<1>3. AloneInv' /\ SettingsSurvive' BY <1>0, <1>1, SameMeta
<1>4. /\ Len(items) \in Nat /\ Len(items') = Len(items) + 1
      /\ Active \subseteq 1..Len(items) /\ Active' = Active \cup {Len(items) + 1}
  BY <1>0, <1>1, <1>a, AppendedItems DEF Types
<1>5. Own(j) BY <1>0 DEF MemInv
<1>6. ~ job[j].orderly BY <1>1, <1>5 DEF Own
<1>7. Own(j)'
  <2>1. job[j].added \subseteq 1..Len(items) /\ job[j].archived \subseteq (1..Len(items)) \ Active
    BY <1>5 DEF Own
  <2>2. \A i \in 1..Len(items) : i \in 1..(Len(items) + 1) /\ i # Len(items) + 1 BY <1>4
  <2>3. Len(items) + 1 \in 1..(Len(items) + 1) /\ 0 \in 0..(Len(items) + 1) BY <1>4
  <2>4. job'[j].added \subseteq 1..Len(items') /\ job'[j].archived \subseteq (1..Len(items')) \ Active'
    BY <1>1, <1>4, <2>1, <2>2, <2>3
  <2> QED BY <1>1, <1>4, <1>6, <2>3, <2>4 DEF Own
<1>8. \A k \in Jobs : job'[k] = job[k] \/ (Own(k)' /\ job'[k].pc # "append" /\ ~ job'[k].orderly)
  BY <1>1, <1>6, <1>7 DEF Others
<1>9. MemInv' BY <1>0, <1>1, <1>8, <1>a, AboutToAppend, MemoriesAppended DEF Types
<1> QED BY <1>1, <1>2, <1>3, <1>9 DEF IInv

LEMMA RememberStep ==
  ASSUME IInv, NEW h \in Hands, Remember(h)
  PROVE  IInv'
<1>0. Types /\ CursorInv /\ AloneInv /\ MemInv /\ SettingsSurvive BY DEF IInv
<1>1. /\ items' = Appended(Said[h], h, 0, TRUE)
      /\ UNCHANGED <<metaVars, rows, lastId, file, job, taken, outside>>
  BY DEF Remember
<1>2. Types'
  <2>1. ItemsOK' BY <1>0, <1>1, AppendedItems DEF Types
  <2>2. Frame /\ FileOK' BY <1>0, <1>1, SameFile DEF Frame
  <2>3. JobsOK' BY <1>0, <1>1 DEF Types, JobsOK, JobRecord
  <2> QED BY <1>0, <2>1, <2>2, <2>3, FrameTypes
<1>3. Kept BY <1>0, <1>1, SameRowsKept DEF Types
<1>4. CursorInv'
  <2>1. Safe(Cursor)'
    <3>1. Cursor' = Cursor BY <1>1 DEF Cursor, Stored, metaVars
    <3>2. \A k : Safe(k) => Safe(k)' BY <1>0, <1>3, SafeKept DEF Types
    <3> QED BY <1>0, <3>1, <3>2 DEF CursorInv, Safe
  <2>2. ASSUME NEW d \in Dreams PROVE PassIsSafe(d)'
    <3>1. job'[d] = job[d] BY <1>1
    <3> QED BY <1>0, <1>3, <3>1, OtherPassesSafe DEF CursorInv, Types
  <2>3. ASSUME NEW c \in Mergers PROVE ChangeIsSafe(c)'
    BY <1>0, <1>1, <1>3, ChangesSafe DEF CursorInv, Types
  <2>4. \A d \in Dreams : Waits(d)' BY <1>0, <1>1 DEF CursorInv, Waits, metaVars
  <2> QED BY <2>1, <2>2, <2>3, <2>4 DEF CursorInv
<1>5. AloneInv' /\ SettingsSurvive' BY <1>0, <1>1, SameMeta
<1>6. MemInv'
  <2>1. \A i \in Active : ~ (i <= 0) BY <1>0 DEF Active, Types, ItemsOK
  <2>2. \A k \in Jobs : job'[k] = job[k] BY <1>1
  <2> QED BY <1>0, <1>1, <2>1, <2>2, MemoriesAppended DEF Types
<1> QED BY <1>2, <1>4, <1>5, <1>6 DEF IInv

LEMMA ArchiveNextStep ==
  ASSUME IInv, NEW j \in Jobs, ArchiveNext(j)
  PROVE  IInv'
<1>0. Types /\ CursorInv /\ AloneInv /\ MemInv /\ SettingsSurvive BY DEF IInv
<1>1. /\ Types' /\ Others(j) /\ job[j].pc = "check" /\ job'[j].pc = "check"
      /\ UNCHANGED <<metaVars, rows, lastId, file, taken, outside>>
      /\ job'[j].new = job[j].new /\ job'[j].added = job[j].added
      /\ job'[j].searched = job[j].searched /\ job'[j].orderly = job[j].orderly
      /\ DOMAIN items' = DOMAIN items /\ Len(items') = Len(items)
      /\ \A i \in DOMAIN items : /\ items'[i].content = items[i].content
                                 /\ items'[i].searched = items[i].searched
                                 /\ items'[i].indexed = items[i].indexed
      /\ \E id : /\ Active' = Active \ {id}
                 /\ job'[j].archived = job[j].archived \cup ({id} \cap Active)
  BY <1>0, ArchiveNextEffect
<1>2. CursorInv' BY <1>0, <1>1, InsideCursor
<1>3. AloneInv' /\ SettingsSurvive' BY <1>0, <1>1, SameMeta
<1>4. DOMAIN items = 1..Len(items) BY <1>0 DEF Types, ItemsOK
<1>5. MemInv'
  <2>1. PICK id : /\ Active' = Active \ {id}
                  /\ job'[j].archived = job[j].archived \cup ({id} \cap Active)
    BY <1>1
  <2> QED BY <1>0, <1>1, <1>4, <2>1, MemoriesArchived
<1> QED BY <1>1, <1>2, <1>3, <1>5 DEF IInv

LEMMA FinishStep ==
  ASSUME IInv, NEW j \in Jobs, Finish(j)
  PROVE  IInv'
<1>0. Types /\ CursorInv /\ AloneInv /\ MemInv /\ SettingsSurvive BY DEF IInv
<1>1. /\ Types' /\ Others(j) /\ job[j].pc = "check"
      /\ job'[j].pc \in {"done", "cursor"}
      /\ j \in Dreams => job'[j].pc = "cursor" /\ job'[j].new = job[j].new
      /\ UNCHANGED <<metaVars, rows, lastId, items, taken, outside>>
      /\ \/ NoMemories(job'[j]) /\ file' = file
         \/ /\ job'[j].added = job[j].added /\ job'[j].archived = job[j].archived
            /\ job'[j].searched = 0 /\ Place[j] # NoPlace
            /\ \/ job[j].added = {} /\ job[j].archived = {} /\ file' = file
               \/ \E list \in Found(Active, ProjectionLimit) :
                    file' = [file EXCEPT ![Place[j]] = list]
  BY <1>0, FinishEffect
<1>2. CursorInv' BY <1>0, <1>1, InsideCursor
<1>3. AloneInv' /\ SettingsSurvive' BY <1>0, <1>1, SameMeta
<1>4. MemInv'
  <2>1. CASE NoMemories(job'[j]) /\ file' = file
    <3>1. job'[j].pc # "append" BY <1>1
    <3> QED BY <1>0, <1>1, <2>1, <3>1, MemoriesStay DEF Types
  <2>2. CASE /\ job'[j].added = job[j].added /\ job'[j].archived = job[j].archived
             /\ job'[j].searched = 0 /\ Place[j] # NoPlace
             /\ \/ job[j].added = {} /\ job[j].archived = {} /\ file' = file
                \/ \E list \in Found(Active, ProjectionLimit) :
                     file' = [file EXCEPT ![Place[j]] = list]
    BY <1>0, <1>1, <2>2, MemoriesListed DEF Types
  <2> QED BY <1>1, <2>1, <2>2
<1> QED BY <1>1, <1>2, <1>3, <1>4 DEF IInv

LEMMA CutStep ==
  ASSUME IInv, NEW j \in Jobs, Cut(j)
  PROVE  IInv'
<1>0. Types /\ CursorInv /\ AloneInv /\ MemInv /\ SettingsSurvive BY DEF IInv
<1>a. job[j].searched \in Nat BY <1>0, AboutToAppend DEF Types
<1>1. /\ Types' /\ Others(j) /\ job[j].pc # "cursor"
      /\ job'[j].pc = "done" /\ NoMemories(job'[j])
      /\ UNCHANGED <<metaVars, rows, lastId, file, taken, outside>>
      /\ \/ items' = items
         \/ /\ job[j].pc = "append"
            /\ items' = Appended(Head(job[j].todo), j, job[j].searched, FALSE)
  BY <1>0, <1>a, CutEffect
<1>2. Kept BY <1>0, <1>1, SameRowsKept DEF Types
<1>3. PassIsSafe(j)' BY <1>1 DEF PassIsSafe, Asked
<1>4. CursorInv' BY <1>0, <1>1, <1>2, <1>3, JobStepCursor
<1>5. AloneInv' /\ SettingsSurvive' BY <1>0, <1>1, SameMeta
<1>6. CASE items' = items
  <2>1. MemInv' BY <1>0, <1>1, <1>6, MemoriesStay DEF Types
  <2> QED BY <1>1, <1>4, <1>5, <2>1 DEF IInv
<1>7. CASE /\ job[j].pc = "append"
           /\ items' = Appended(Head(job[j].todo), j, job[j].searched, FALSE)
  <2>1. Len(items') \in Nat
    <3>1. Len(items) \in Nat /\ Len(items') = Len(items) + 1
      BY <1>0, <1>7, <1>a, AppendedItems DEF Types
    <3> QED BY <3>1
  <2>2. Own(j)' /\ job'[j].pc # "append" /\ ~ job'[j].orderly
    BY <1>1, <2>1 DEF Own, NoMemories
  <2>3. \A k \in Jobs : job'[k] = job[k] \/ (Own(k)' /\ job'[k].pc # "append" /\ ~ job'[k].orderly)
    BY <1>1, <2>2 DEF Others
  <2>4. \A i \in Active : (i <= job[j].searched /\ items[i].content = Head(job[j].todo)) =>
                            ~ items[i].indexed
    BY <1>0, <1>7, AboutToAppend DEF Types
  <2>5. MemInv' BY <1>0, <1>1, <1>7, <1>a, <2>3, <2>4, MemoriesAppended DEF Types
  <2> QED BY <1>1, <1>4, <1>5, <2>5 DEF IInv
<1> QED BY <1>1, <1>6, <1>7

LEMMA ClearSessionStep ==
  ASSUME IInv, ClearSession
  PROVE  IInv'
<1>0. Types /\ CursorInv /\ AloneInv /\ MemInv /\ SettingsSurvive BY DEF IInv
<1>1. Types' /\ Kept BY <1>0, ClearSessionEffect
<1>2. UNCHANGED <<metaVars, items, file, job>> BY DEF ClearSession
<1>3. CursorInv'
  <2>1. Safe(Cursor)'
    <3>1. Cursor' = Cursor BY <1>2 DEF Cursor, Stored, metaVars
    <3>2. \A k : Safe(k) => Safe(k)' BY <1>0, <1>1, SafeKept DEF Types
    <3> QED BY <1>0, <3>1, <3>2 DEF CursorInv, Safe
  <2>2. ASSUME NEW d \in Dreams PROVE PassIsSafe(d)'
    <3>1. job'[d] = job[d] BY <1>2
    <3> QED BY <1>0, <1>1, <3>1, OtherPassesSafe DEF CursorInv, Types
  <2>3. ASSUME NEW c \in Mergers PROVE ChangeIsSafe(c)'
    BY <1>0, <1>1, <1>2, ChangesSafe DEF CursorInv, Types
  <2>4. \A d \in Dreams : Waits(d)' BY <1>0, <1>2 DEF CursorInv, Waits, metaVars
  <2> QED BY <2>1, <2>2, <2>3, <2>4 DEF CursorInv
<1>4. AloneInv' /\ SettingsSurvive' BY <1>0, <1>2, SameMeta
<1>5. MemInv' BY <1>0, <1>2, MemoriesSame
<1> QED BY <1>1, <1>3, <1>4, <1>5 DEF IInv

(*----------------------------- the metadata ------------------------------*)

(* A change that begins leaves the object, and what the others write, as   *)
(* they are.                                                               *)
LEMMA BeginMergeStep ==
  ASSUME IInv, NEW c \in Mergers, NEW keys, NEW updates, BeginMerge(c, keys, updates),
         UNCHANGED memVars, c \in Dreams => job[c].pc = "cursor",
         (WritesCursor(c) \/ WritesModel(c) \/ WritesRuntime(c))'
  PROVE  IInv'
<1>0. Types /\ CursorInv /\ AloneInv /\ MemInv /\ SettingsSurvive BY DEF IInv
<1>1. /\ MergeOK' /\ merge[c].pc = "idle" /\ OtherMerges(c)
      /\ merge'[c].pc = "reading"
      /\ merge'[c].alone <=> Merging = {}
      /\ UNCHANGED <<meta, said, doubt>>
  BY <1>0, BeginMergeEffect DEF Types
<1>2. UNCHANGED <<rows, lastId, items, file, job, taken, outside>> BY DEF memVars
<1>3. Types'
  BY <1>0, <1>1, <1>2 DEF Types, RowsOK, ItemsOK, FileOK, Item, JobsOK, JobRecord, SaidOK
<1>4. \A k : Safe(k)' <=> Safe(k) BY <1>2 DEF Safe
<1>5. CursorInv'
  <2>1. Safe(Cursor)' BY <1>0, <1>1, <1>2 DEF CursorInv, Safe, Cursor, Stored
  <2>2. \A d \in Dreams : PassIsSafe(d)'
    BY <1>0, <1>2 DEF CursorInv, PassIsSafe, Safe, FreshBatch, Batch
  <2>3. ASSUME NEW d \in Mergers, d # c PROVE ChangeIsSafe(d)'
    <3>0. ChangeIsSafe(d) BY <1>0 DEF CursorInv
    <3>1. /\ merge'[d].pc = merge[d].pc /\ merge'[d].keys = merge[d].keys
          /\ merge'[d].updates = merge[d].updates /\ merge'[d].existing = merge[d].existing
          /\ merge'[d].alone => merge[d].alone
      BY <1>1, <2>3 DEF OtherMerges
    <3>2. WritesCursor(d) => WritesCursor(d)' BY <3>1, <1>2 DEF WritesCursor, Safe
    <3>3. WritesModel(d) => WritesModel(d)' BY <3>1 DEF WritesModel
    <3>4. WritesRuntime(d) => WritesRuntime(d)'
      BY <3>1, <1>1 DEF WritesRuntime, Runtime, Stored
    <3>5. Safe(Stored(merge[d].existing, "cursor", 0)) =>
          Safe(Stored(merge[d].existing, "cursor", 0))'
      BY <3>1, <1>2 DEF Safe, Stored
    <3> QED BY <3>0, <3>1, <3>2, <3>3, <3>4, <3>5 DEF ChangeIsSafe
  <2>4. ChangeIsSafe(c)' BY <1>1 DEF ChangeIsSafe
  <2>5. \A d \in Dreams : Waits(d)'
    BY <1>0, <1>1, <1>2 DEF CursorInv, Waits, OtherMerges, Mergers
  <2> QED BY <2>1, <2>2, <2>3, <2>4, <2>5 DEF CursorInv
<1>6. AloneInv'
  <2>1. Merging' = Merging \cup {c} BY <1>1 DEF Merging, OtherMerges
  <2>2. ASSUME NEW d \in Merging', merge'[d].alone
        PROVE  Merging' = {d} /\ merge'[d].pc # "writing"
    <3>1. CASE d = c BY <1>1, <2>1, <2>2, <3>1
    <3>2. CASE d # c
      <4>1. d \in Merging BY <2>1, <3>2
      <4>2. d \in Mergers BY <4>1 DEF Merging
      <4> QED BY <1>1, <2>2, <3>2, <4>1, <4>2 DEF OtherMerges
    <3> QED BY <3>1, <3>2
  <2> QED BY <2>2 DEF AloneInv
<1>7. SettingsSurvive'
  BY <1>0, <1>1 DEF SettingsSurvive, InEffect, StoredChoice, RuntimeSettings, Runtime, Stored
<1>8. MemInv' BY <1>0, <1>2, MemoriesSame
<1> QED BY <1>3, <1>5, <1>6, <1>7, <1>8 DEF IInv

LEMMA MoveCursorStep ==
  ASSUME IInv, NEW d \in Dreams, MoveCursor(d)
  PROVE  IInv'
<1>0. Types /\ CursorInv BY DEF IInv
<1>1. d \in Mergers BY DEF Mergers
<1> DEFINE k == CursorAfter(d)
           updates == [cursor |-> k]
<1>2. BeginMerge(d, <<>>, updates) /\ UNCHANGED memVars BY DEF MoveCursor
<1>3. Safe(k) BY <1>0 DEF MoveCursor, CursorInv, PassIsSafe, Asked, CursorAfter
<1>4. merge'[d].keys = <<>> /\ merge'[d].updates = updates
  BY <1>0, <1>1, <1>2, BeginMergeEffect DEF Types
<1>5. k \in 0..lastId' /\ \A i \in DOMAIN rows' : rows'[i].id <= k => rows'[i].id \in taken' \cup outside'
  BY <1>2, <1>3 DEF memVars, Safe
<1> HIDE DEF k
<1>6. WritesCursor(d)' BY <1>4, <1>5 DEF WritesCursor, Safe
<1>7. job[d].pc = "cursor" BY DEF MoveCursor
<1> QED BY <1>1, <1>2, <1>6, <1>7, BeginMergeStep

LEMMA CommandStep ==
  ASSUME IInv, NEW c \in Commands, Command(c)
  PROVE  IInv'
<1>0. Types BY DEF IInv
<1>1. c \in Mergers /\ c \notin Dreams /\ UNCHANGED memVars
  BY MemoryAssumption DEF Mergers, Command
<1>2. CASE SwitchModel(c)
  <2>1. PICK name \in Switches :
          LET choice == ModelSelection(name)
          IN /\ choice # Nothing
             /\ BeginMerge(c, [model |-> choice], [provider_id |-> choice.slot, model |-> choice.model])
    BY <1>2 DEF SwitchModel
  <2> DEFINE choice == ModelSelection(name)
  <2>2. /\ merge'[c].keys = [model |-> choice]
        /\ merge'[c].updates = [provider_id |-> choice.slot, model |-> choice.model]
    BY <1>0, <1>1, <2>1, BeginMergeEffect DEF Types
  <2>3. WritesModel(c)' BY <2>1, <2>2 DEF WritesModel
  <2> QED BY <1>1, <2>1, <2>3, BeginMergeStep
<1>3. CASE ChangeReasoning(c)
  <2>1. PICK updates \in ReasoningUpdates :
          BeginMerge(c, updates, [runtime |-> DeepMerge(Runtime(meta), updates)])
    BY <1>3 DEF ChangeReasoning
  <2>2. /\ merge'[c].keys = updates
        /\ merge'[c].updates = [runtime |-> DeepMerge(Runtime(meta), updates)] /\ meta' = meta
    BY <1>0, <1>1, <2>1, BeginMergeEffect DEF Types
  <2>3. Runtime(meta') = Runtime(meta) BY <2>2
  <2>4. WritesRuntime(c)'
    <3>1. merge'[c].keys \in ReasoningUpdates BY <2>2
    <3>2. merge'[c].updates = [runtime |-> DeepMerge(Runtime(meta'), merge'[c].keys)] BY <2>2
    <3> QED BY <3>1, <3>2 DEF WritesRuntime
  <2> QED BY <1>1, <2>1, <2>4, BeginMergeStep
<1> QED BY <1>2, <1>3 DEF Command

LEMMA ReadObjectStep ==
  ASSUME IInv, NEW c \in Mergers, ReadObject(c)
  PROVE  IInv'
<1>0. Types /\ CursorInv /\ AloneInv /\ MemInv /\ SettingsSurvive BY DEF IInv
<1>1. /\ MergeOK' /\ merge[c].pc = "reading" /\ \A d \in Mergers : d # c => merge'[d] = merge[d]
      /\ merge'[c].pc = "writing" /\ merge'[c].keys = merge[c].keys
      /\ merge'[c].updates = merge[c].updates /\ merge'[c].existing = meta
      /\ merge'[c].alone = merge[c].alone
      /\ UNCHANGED <<meta, said, doubt>>
  BY <1>0, ReadMetaEffect DEF ReadObject, Types
<1>2. UNCHANGED <<rows, lastId, items, file, job, taken, outside>>
  BY DEF ReadObject, memVars
<1>3. Types'
  BY <1>0, <1>1, <1>2 DEF Types, RowsOK, ItemsOK, FileOK, Item, JobsOK, JobRecord, SaidOK
<1>5. CursorInv'
  <2>1. Safe(Cursor)' BY <1>0, <1>1, <1>2 DEF CursorInv, Safe, Cursor, Stored
  <2>2. \A d \in Dreams : PassIsSafe(d)'
    BY <1>0, <1>2 DEF CursorInv, PassIsSafe, Safe, FreshBatch, Batch
  <2>3. ASSUME NEW d \in Mergers PROVE ChangeIsSafe(d)'
    <3>0. ChangeIsSafe(d) BY <1>0 DEF CursorInv
    <3>1. /\ merge'[d].keys = merge[d].keys /\ merge'[d].updates = merge[d].updates
          /\ merge'[d].alone = merge[d].alone
          /\ merge'[d].pc \in {"reading", "writing"} => merge[d].pc \in {"reading", "writing"}
      BY <1>1
    <3>2. WritesCursor(d) => WritesCursor(d)' BY <3>1, <1>2 DEF WritesCursor, Safe
    <3>3. WritesModel(d) => WritesModel(d)' BY <3>1 DEF WritesModel
    <3>4. WritesRuntime(d) => WritesRuntime(d)'
      BY <3>1, <1>1 DEF WritesRuntime, Runtime, Stored
    <3>5. merge'[d].pc = "writing" => Safe(Stored(merge[d].existing, "cursor", 0))'
      <4>1. CASE d = c
        <5>1. Stored(merge'[d].existing, "cursor", 0) = Cursor BY <1>1, <4>1 DEF Cursor
        <5> QED BY <1>0, <1>2, <5>1 DEF CursorInv, Safe
      <4>2. CASE d # c BY <1>1, <1>2, <3>0, <4>2 DEF ChangeIsSafe, Safe, Stored
      <4> QED BY <4>1, <4>2
    <3> QED BY <3>0, <3>1, <3>2, <3>3, <3>4, <3>5 DEF ChangeIsSafe
  <2>4. \A d \in Dreams : Waits(d)'
    BY <1>0, <1>1, <1>2 DEF CursorInv, Waits, Mergers
  <2> QED BY <2>1, <2>2, <2>3, <2>4 DEF CursorInv
<1>6. AloneInv'
  <2>1. Merging' = Merging /\ c \in Merging BY <1>1 DEF Merging
  <2>2. ASSUME NEW d \in Merging, merge'[d].alone
        PROVE  Merging = {d} /\ (merge'[d].pc = "writing" => merge'[d].existing = meta)
    <3>1. CASE d = c BY <1>0, <1>1, <2>1, <2>2, <3>1 DEF AloneInv
    <3>2. CASE d # c
      <4>1. d \in Mergers BY DEF Merging
      <4> QED BY <1>0, <1>1, <2>2, <3>2, <4>1 DEF AloneInv
    <3> QED BY <3>1, <3>2
  <2> QED BY <1>1, <2>1, <2>2 DEF AloneInv
<1>7. SettingsSurvive'
  BY <1>0, <1>1 DEF SettingsSurvive, InEffect, StoredChoice, RuntimeSettings, Runtime, Stored
<1>8. MemInv' BY <1>0, <1>2, MemoriesSame
<1> QED BY <1>3, <1>5, <1>6, <1>7, <1>8 DEF IInv

(* The object written has the cursor of the change, or the one it read.    *)
LEMMA WrittenCursor ==
  ASSUME Types, CursorInv, NEW c \in Mergers, WriteMeta(c)
  PROVE  Safe(Stored(meta', "cursor", 0))
<1>1. meta' = Overlaid(merge[c].existing, merge[c].updates) BY DEF WriteMeta, Merged
<1>2. merge[c].pc = "writing" BY DEF WriteMeta
<1>3. ChangeIsSafe(c) BY DEF CursorInv
<1>4. Safe(Stored(merge[c].existing, "cursor", 0)) BY <1>2, <1>3 DEF ChangeIsSafe
<1>5. Stored(meta', "cursor", 0) = IF "cursor" \in DOMAIN merge[c].updates
                                  THEN merge[c].updates["cursor"]
                                  ELSE Stored(merge[c].existing, "cursor", 0)
  BY <1>1, OverlaidStored
<1>6. CASE WritesCursor(c)
  <2>1. PICK k : merge[c].updates = [cursor |-> k] /\ Safe(k) BY <1>6 DEF WritesCursor
  <2>2. DOMAIN merge[c].updates = {"cursor"} /\ merge[c].updates["cursor"] = k BY <2>1
  <2> QED BY <1>5, <2>1, <2>2
<1>7. CASE WritesModel(c) \/ WritesRuntime(c)
  <2>1. "cursor" \notin DOMAIN merge[c].updates
    <3>1. CASE WritesModel(c)
      <4>1. PICK choice : merge[c].updates = [provider_id |-> choice.slot, model |-> choice.model]
        BY <3>1 DEF WritesModel
      <4> QED BY <4>1
    <3>2. CASE WritesRuntime(c)
      <4>1. PICK base : merge[c].updates = [runtime |-> DeepMerge(base, merge[c].keys)]
        BY <3>2 DEF WritesRuntime
      <4> QED BY <4>1
    <3> QED BY <1>7, <3>1, <3>2
  <2> QED BY <1>4, <1>5, <2>1
<1> QED BY <1>2, <1>3, <1>6, <1>7 DEF ChangeIsSafe

(* What a change that is alone writes is in effect, and nothing else       *)
(* changed.                                                                *)
LEMMA WrittenSettings ==
  ASSUME Types, CursorInv, AloneInv, SettingsSurvive, NEW c \in Mergers, WriteMeta(c),
         merge[c].alone
  PROVE  SettingsSurvive'
<1>0. merge[c].pc = "writing" /\ c \in Merging BY DEF WriteMeta, Merging
<1>1. merge[c].existing = meta BY <1>0 DEF AloneInv
<1>2. meta' = Overlaid(meta, merge[c].updates) BY <1>1 DEF WriteMeta, Merged
<1> DEFINE keys == merge[c].keys
           updates == merge[c].updates
<1>3. \A k, missing : Stored(meta', k, missing) =
        IF k \in DOMAIN updates THEN updates[k] ELSE Stored(meta, k, missing)
  BY <1>2, OverlaidStored
<1>4. doubt' = doubt \ DOMAIN keys /\ said' = Overlaid(said, keys) BY DEF WriteMeta
<1>5. DOMAIN said = Settings BY DEF Types, SaidOK
<1>6. \A k \in Settings : said'[k] = IF k \in DOMAIN keys THEN keys[k] ELSE said[k]
  BY <1>4, <1>5 DEF Overlaid
<1>7. WritesCursor(c) \/ WritesModel(c) \/ WritesRuntime(c)
  BY <1>0 DEF CursorInv, ChangeIsSafe
<1> SUFFICES ASSUME NEW k \in Settings, k \notin doubt' PROVE InEffect(k)' = said'[k]
  BY DEF SettingsSurvive
<1>8. k \notin DOMAIN keys => k \notin doubt /\ InEffect(k) = said[k]
  BY <1>4 DEF SettingsSurvive
<1> DEFINE Model(m) == StoredChoice(m)
<1>9. CASE WritesCursor(c)
  <2>1. keys = <<>> /\ DOMAIN updates = {"cursor"}
    <3>1. PICK n : updates = [cursor |-> n] /\ keys = <<>> BY <1>9 DEF WritesCursor
    <3> QED BY <3>1
  <2>2. k \notin DOMAIN keys BY <2>1
  <2> HIDE DEF keys, updates
  <2>3. \A key, missing : key # "cursor" => Stored(meta', key, missing) = Stored(meta, key, missing)
    BY <1>3, <2>1
  <2>4. /\ Stored(meta', "runtime", <<>>) = Stored(meta, "runtime", <<>>)
        /\ Stored(meta', "provider_id", "none") = Stored(meta, "provider_id", "none")
        /\ Stored(meta', "model", NoName) = Stored(meta, "model", NoName)
    BY <2>3
  <2>5. InEffect(k)' = InEffect(k)
    <3>1. StoredChoice(meta') = StoredChoice(meta) BY <2>4 DEF StoredChoice
    <3>2. RuntimeSettings(meta') = RuntimeSettings(meta) BY <2>4 DEF RuntimeSettings, Runtime
    <3> QED BY <3>1, <3>2 DEF InEffect
  <2> QED BY <1>6, <1>8, <2>2, <2>5
<1>10. CASE WritesModel(c)
  <2>1. PICK name \in Switches :
         LET choice == ModelSelection(name)
         IN /\ choice # Nothing /\ keys = [model |-> choice]
            /\ updates = [provider_id |-> choice.slot, model |-> choice.model]
    BY <1>10 DEF WritesModel
  <2> DEFINE choice == ModelSelection(name)
  <2>2. /\ choice # Nothing /\ keys = [model |-> choice]
        /\ updates = [provider_id |-> choice.slot, model |-> choice.model]
    BY <2>1
  <2>3. /\ DOMAIN keys = {"model"} /\ keys["model"] = choice
        /\ DOMAIN updates = {"provider_id", "model"}
        /\ updates["provider_id"] = choice.slot /\ updates["model"] = choice.model
    BY <2>2
  <2> HIDE DEF keys, updates
  <2>4. ResolveProvider("none", NoName, choice.slot, choice.model) = choice
    BY <2>2, SelectionIsResolved
  <2> HIDE DEF choice
  <2>5. /\ Stored(meta', "runtime", <<>>) = Stored(meta, "runtime", <<>>)
        /\ Stored(meta', "provider_id", "none") = choice.slot
        /\ Stored(meta', "model", NoName) = choice.model
    BY <1>3, <2>3
  <2>6. CASE k = "model"
    <3>1. StoredChoice(meta') = choice BY <2>4, <2>5 DEF StoredChoice
    <3>2. said'[k] = choice BY <1>6, <2>3, <2>6
    <3> QED BY <2>6, <3>1, <3>2 DEF InEffect
  <2>7. CASE k # "model"
    <3>1. k \notin DOMAIN keys BY <2>3, <2>7
    <3>2. RuntimeSettings(meta') = RuntimeSettings(meta) BY <2>5 DEF RuntimeSettings, Runtime
    <3>3. InEffect(k)' = InEffect(k) BY <2>7, <3>2 DEF InEffect
    <3> QED BY <1>6, <1>8, <3>1, <3>3
  <2> QED BY <2>6, <2>7
<1>11. CASE WritesRuntime(c)
  <2>1. /\ keys \in ReasoningUpdates
        /\ updates = [runtime |-> DeepMerge(Runtime(meta), keys)]
    BY <1>11 DEF WritesRuntime
  <2>2. DOMAIN keys \subseteq {"show", "effort"} BY <2>1, ChangesAssumption
  <2>3. DOMAIN updates = {"runtime"} /\ updates["runtime"] = DeepMerge(Runtime(meta), keys)
    BY <2>1
  <2> HIDE DEF keys, updates
  <2>4. /\ Stored(meta', "runtime", <<>>) = DeepMerge(Runtime(meta), keys)
        /\ Stored(meta', "provider_id", "none") = Stored(meta, "provider_id", "none")
        /\ Stored(meta', "model", NoName) = Stored(meta, "model", NoName)
    BY <1>3, <2>3
  <2>5. CASE k = "model"
    <3>1. StoredChoice(meta') = StoredChoice(meta) BY <2>4 DEF StoredChoice
    <3>2. InEffect(k)' = InEffect(k) BY <2>5, <3>1 DEF InEffect
    <3>3. k \notin DOMAIN keys BY <2>2, <2>5
    <3> QED BY <1>6, <1>8, <3>2, <3>3
  <2>6. CASE k # "model"
    <3>1. k = "show" \/ k = "effort" BY <2>6 DEF Settings
    <3>2. /\ InEffect(k)' = Stored(DeepMerge(Runtime(meta), keys), k, "none")
          /\ InEffect(k) = Stored(Runtime(meta), k, "none")
      BY <2>4, <3>1 DEF InEffect, RuntimeSettings, Runtime
    <3>3. InEffect(k)' = IF k \in DOMAIN keys THEN keys[k] ELSE InEffect(k)
      BY <3>2, DeepMergeSettings
    <3> QED BY <1>6, <1>8, <3>3
  <2> QED BY <2>5, <2>6
<1> QED BY <1>7, <1>9, <1>10, <1>11

LEMMA WriteObjectStep ==
  ASSUME IInv, NEW c \in Mergers, WriteObject(c)
  PROVE  IInv'
<1>0. Types /\ CursorInv /\ AloneInv /\ MemInv /\ SettingsSurvive BY DEF IInv
<1>1. /\ WriteMeta(c)
      /\ UNCHANGED <<rows, lastId, items, file, taken, outside>>
  BY DEF WriteObject
<1>2. /\ MergeOK' /\ merge[c].pc = "writing" /\ \A d \in Mergers : d # c => merge'[d] = merge[d]
      /\ merge'[c].pc \in {"idle", "done"}
  BY <1>0, <1>1, WriteMetaEffect DEF Types
<1>3. /\ JobsOK'
      /\ \/ job' = job
         \/ /\ c \in Dreams /\ Others(c) /\ job'[c].pc \in {"idle", "done"}
            /\ NoMemories(job'[c]) \/ (SameMemories(c) /\ job'[c].pc = "done")
  <2>1. CASE c \in Dreams
    <3>1. c \in Jobs /\ JobRecord(job[c]) BY <1>0, <2>1 DEF Jobs, Types, JobsOK
    <3> DEFINE q == [job[c] EXCEPT !.pc = "done"]
               r == [job[c] EXCEPT !.pc = "done", !.new = {}]
    <3>2. Step(c, NoJob) \/ Step(c, r) BY <2>1 DEF WriteObject
    <3>3. CASE Step(c, NoJob)
      <4>1. JobsOK' /\ Others(c) /\ job'[c] = NoJob
        BY <1>0, <3>1, <3>3, NoJobRecord, StepEffect DEF Types
      <4> QED BY <2>1, <4>1, NoJobRecord
    <3>4. CASE Step(c, r)
      <4>1. r = [q EXCEPT !.new = {}] OBVIOUS
      <4>2. /\ JobRecord(q) /\ q.pc = "done" /\ q.added = job[c].added
            /\ q.archived = job[c].archived /\ q.searched = job[c].searched
            /\ q.orderly = job[c].orderly
        BY <3>1, NewPc
      <4> HIDE DEF q, r
      <4>3. /\ JobRecord(r) /\ r.pc = "done" /\ r.added = q.added /\ r.archived = q.archived
            /\ r.searched = q.searched /\ r.orderly = q.orderly
        <5>1. {} \in SUBSET Nat OBVIOUS
        <5>2. LET s == [q EXCEPT !.new = {}]
              IN /\ JobRecord(s) /\ s.pc = q.pc /\ s.added = q.added /\ s.archived = q.archived
                 /\ s.searched = q.searched /\ s.orderly = q.orderly
          BY <4>2, <5>1, NewBatch
        <5> QED BY <4>1, <4>2, <5>2
      <4>4. JobsOK' /\ Others(c) /\ job'[c] = r BY <1>0, <3>1, <3>4, <4>3, StepEffect DEF Types
      <4> QED BY <2>1, <4>2, <4>3, <4>4 DEF SameMemories
    <3> QED BY <3>2, <3>3, <3>4
  <2>2. CASE c \notin Dreams BY <1>0, <2>2 DEF WriteObject, Types, JobsOK, JobRecord
  <2> QED BY <2>1, <2>2
<1>4. Types'
  <2>1. SaidOK'
    <3>1. DOMAIN merge[c].keys \subseteq Settings
      <4>1. WritesCursor(c) \/ WritesModel(c) \/ WritesRuntime(c)
        BY <1>0, <1>2 DEF CursorInv, ChangeIsSafe
      <4>2. CASE WritesCursor(c)
        <5>1. merge[c].keys = <<>> BY <4>2 DEF WritesCursor
        <5> QED BY <5>1
      <4>3. CASE WritesModel(c)
        <5>1. PICK choice : merge[c].keys = [model |-> choice] BY <4>3 DEF WritesModel
        <5> QED BY <5>1 DEF Settings
      <4>4. CASE WritesRuntime(c) BY <4>4, ChangesAssumption DEF WritesRuntime, Settings
      <4> QED BY <4>1, <4>2, <4>3, <4>4
    <3>2. said' = Overlaid(said, merge[c].keys) /\ DOMAIN said = Settings
      BY <1>0, <1>1 DEF WriteMeta, Types, SaidOK
    <3>3. said' = [k \in Settings |-> IF k \in DOMAIN merge[c].keys THEN merge[c].keys[k] ELSE said[k]]
      BY <3>1, <3>2 DEF Overlaid
    <3> QED BY <3>3 DEF SaidOK
  <2> QED BY <1>0, <1>1, <1>2, <1>3, <2>1 DEF Types, RowsOK, ItemsOK, FileOK, Item
<1>5. CursorInv'
  <2>1. Safe(Cursor)'
    <3>1. Safe(Stored(meta', "cursor", 0)) BY <1>0, <1>1, WrittenCursor
    <3>2. Cursor' = Stored(meta', "cursor", 0) BY DEF Cursor
    <3> QED BY <1>1, <3>1, <3>2 DEF Safe
  <2>2. ASSUME NEW d \in Dreams PROVE PassIsSafe(d)'
    <3>1. CASE job'[d] = job[d]
      BY <1>0, <1>1, <3>1 DEF CursorInv, PassIsSafe, Safe, FreshBatch, Batch
    <3>2. CASE job'[d].pc \in {"idle", "done"} BY <3>2 DEF PassIsSafe, Asked
    <3>3. d \in Jobs BY DEF Jobs
    <3> QED BY <1>3, <3>1, <3>2, <3>3 DEF Others
  <2>3. ASSUME NEW d \in Mergers PROVE ChangeIsSafe(d)'
    <3>1. CASE d = c BY <1>2, <3>1 DEF ChangeIsSafe
    <3>2. CASE d # c
      <4>0. ChangeIsSafe(d) /\ merge'[d] = merge[d] BY <1>0, <1>2, <3>2 DEF CursorInv
      <4>1. WritesCursor(d) => WritesCursor(d)' BY <4>0, <1>1 DEF WritesCursor, Safe
      <4>2. WritesModel(d) => WritesModel(d)' BY <4>0 DEF WritesModel
      <4>3. merge[d].pc \in {"reading", "writing"} => ~ merge[d].alone
        BY <1>0, <1>2, <3>2 DEF AloneInv, Merging
      <4>4. ASSUME WritesRuntime(d), merge[d].pc \in {"reading", "writing"}
            PROVE  WritesRuntime(d)'
        BY <4>0, <4>3, <4>4 DEF WritesRuntime
      <4>5. Safe(Stored(merge[d].existing, "cursor", 0)) =>
            Safe(Stored(merge[d].existing, "cursor", 0))'
        BY <4>0, <1>1 DEF Safe, Stored
      <4> QED BY <4>0, <4>1, <4>2, <4>4, <4>5 DEF ChangeIsSafe
    <3> QED BY <3>1, <3>2
  <2>4. ASSUME NEW d \in Dreams PROVE Waits(d)'
    <3>0. d \in Mergers /\ d \in Jobs BY DEF Mergers, Jobs
    <3>1. CASE d = c BY <1>2, <3>1 DEF Waits
    <3>2. CASE d # c
      <4>1. merge'[d] = merge[d] /\ job'[d] = job[d] BY <1>2, <1>3, <3>0, <3>2 DEF Others
      <4> QED BY <1>0, <4>1 DEF CursorInv, Waits
    <3> QED BY <3>1, <3>2
  <2> QED BY <2>1, <2>2, <2>3, <2>4 DEF CursorInv
<1>6. AloneInv'
  <2> SUFFICES ASSUME NEW d \in Merging', merge'[d].alone PROVE FALSE
    BY DEF AloneInv
  <2>1. d \in Merging /\ d # c /\ merge[d].alone BY <1>2 DEF Merging
  <2>2. c \in Merging BY <1>2 DEF Merging
  <2> QED BY <1>0, <2>1, <2>2 DEF AloneInv
<1>7. SettingsSurvive'
  <2>1. CASE merge[c].alone BY <1>0, <1>1, <2>1, WrittenSettings
  <2>2. CASE ~ merge[c].alone
    <3>1. doubt' = Settings BY <1>1, <2>2 DEF WriteMeta
    <3> QED BY <3>1 DEF SettingsSurvive
  <2> QED BY <2>1, <2>2
<1>8. MemInv'
  <2>1. CASE job' = job BY <1>0, <1>1, <2>1, MemoriesSame
  <2>2. CASE /\ c \in Dreams /\ Others(c) /\ job'[c].pc \in {"idle", "done"}
             /\ NoMemories(job'[c]) \/ (SameMemories(c) /\ job'[c].pc = "done")
    <3>1. c \in Jobs /\ job'[c].pc # "append" BY <2>2 DEF Jobs
    <3> QED BY <1>0, <1>1, <2>2, <3>1, MemoriesStay DEF Types
  <2> QED BY <1>3, <2>1, <2>2
<1> QED BY <1>4, <1>5, <1>6, <1>7, <1>8 DEF IInv

LEMMA NextStep ==
  ASSUME IInv, Next
  PROVE  IInv'
<1>1. CASE \E t \in Turns : StoreMessage(t) \/ StoreReply(t) BY <1>1, StoreSteps
<1>2. CASE \E d \in Dreams : StartPass(d) \/ ReadRecords(d) \/ ModelAnswers(d) \/ MoveCursor(d)
  BY <1>2, StartPassStep, ReadRecordsStep, ModelAnswersStep, MoveCursorStep
<1>3. CASE \E j \in Jobs : \/ LoadExisting(j) \/ CheckNext(j) \/ AppendItem(j) \/ ArchiveNext(j)
                           \/ Finish(j) \/ Cut(j)
  BY <1>3, LoadExistingStep, CheckNextStep, AppendItemStep, ArchiveNextStep, FinishStep, CutStep
<1>4. CASE \E c \in Commands : Command(c) BY <1>4, CommandStep
<1>5. CASE \E c \in Mergers : ReadObject(c) \/ WriteObject(c)
  BY <1>5, ReadObjectStep, WriteObjectStep
<1>6. CASE ClearSession BY <1>6, ClearSessionStep
<1>7. CASE \E h \in Hands : Remember(h) BY <1>7, RememberStep
<1> QED BY <1>1, <1>2, <1>3, <1>4, <1>5, <1>6, <1>7 DEF Next

LEMMA StutterStep ==
  ASSUME IInv, UNCHANGED vars
  PROVE  IInv'
<1>0. Types /\ CursorInv /\ AloneInv /\ MemInv /\ SettingsSurvive BY DEF IInv
<1>1. UNCHANGED metaVars /\ UNCHANGED memVars BY DEF vars
<1>2. UNCHANGED <<rows, lastId, items, file, job, taken, outside>>
  BY <1>1 DEF memVars
<1>3. Types'
  BY <1>0, <1>1, <1>2 DEF Types, RowsOK, ItemsOK, FileOK, Item, JobsOK, JobRecord, MergeOK,
     MergeRecord, SaidOK, metaVars
<1>4. CursorInv'
  <2>0. Kept BY <1>0, <1>2, SameRowsKept DEF Types
  <2>1. Safe(Cursor)' BY <1>0, <1>1, <1>2 DEF CursorInv, Safe, Cursor, Stored, metaVars
  <2>2. ASSUME NEW d \in Dreams PROVE PassIsSafe(d)'
    <3>1. job'[d] = job[d] BY <1>2
    <3> QED BY <1>0, <2>0, <3>1, OtherPassesSafe DEF CursorInv, Types
  <2>3. ASSUME NEW c \in Mergers PROVE ChangeIsSafe(c)'
    BY <1>0, <1>1, <2>0, ChangesSafe DEF CursorInv, Types
  <2>4. \A d \in Dreams : Waits(d)' BY <1>0, <1>1, <1>2 DEF CursorInv, Waits, metaVars
  <2> QED BY <2>1, <2>2, <2>3, <2>4 DEF CursorInv
<1>5. AloneInv' /\ SettingsSurvive' BY <1>0, <1>1, SameMeta
<1>6. MemInv' BY <1>0, <1>2, MemoriesSame
<1> QED BY <1>3, <1>4, <1>5, <1>6 DEF IInv

LEMMA InitIInv == Init => IInv
<1> SUFFICES ASSUME Init PROVE IInv OBVIOUS
<1>1. /\ meta = <<>> /\ merge = [c \in Mergers |-> NoMerge]
      /\ said = [k \in Settings |-> InEffect(k)] /\ doubt = {}
      /\ rows = <<>> /\ lastId = 0 /\ items = <<>> /\ file = [p \in Places |-> {}]
      /\ job = [j \in Jobs |-> NoJob]
      /\ taken = {} /\ outside = {}
  BY DEF Init, MetaInit
<1>2. Types
  <2>1. RowsOK BY <1>1 DEF RowsOK
  <2>2. ItemsOK /\ FileOK BY <1>1 DEF ItemsOK, FileOK
  <2>3. JobsOK BY <1>1, NoJobRecord DEF JobsOK
  <2>4. MergeOK BY <1>1, NoMergeRecord DEF MergeOK
  <2>5. SaidOK BY <1>1 DEF SaidOK
  <2> QED BY <2>1, <2>2, <2>3, <2>4, <2>5 DEF Types
<1>3. CursorInv
  <2>1. Cursor = 0 BY <1>1 DEF Cursor, Stored
  <2>2. Safe(Cursor) BY <1>1, <2>1 DEF Safe
  <2>3. \A d \in Dreams : PassIsSafe(d)
    BY <1>1, NoJobRecord DEF PassIsSafe, Jobs, Asked
  <2>4. \A c \in Mergers : ChangeIsSafe(c) BY <1>1, NoMergeRecord DEF ChangeIsSafe
  <2>5. \A d \in Dreams : Waits(d) BY <1>1, NoMergeRecord DEF Waits, Mergers
  <2> QED BY <2>2, <2>3, <2>4, <2>5 DEF CursorInv
<1>4. AloneInv BY <1>1, NoMergeRecord DEF AloneInv, Merging
<1>5. MemInv
  <2>1. Len(items) = 0 /\ Active = {} BY <1>1 DEF Active
  <2>2. \A j \in Jobs : Own(j) /\ SearchedFirst(j)
    BY <1>1, <2>1, NoJobRecord DEF Own, SearchedFirst, NoMemories
  <2>3. TwinsUnseen BY <2>1 DEF TwinsUnseen
  <2>4. FileKeepsUp BY <1>1, NoJobRecord DEF FileKeepsUp, NoMemories
  <2> QED BY <2>2, <2>3, <2>4 DEF MemInv
<1>6. SettingsSurvive BY <1>1 DEF SettingsSurvive
<1> QED BY <1>2, <1>3, <1>4, <1>5, <1>6 DEF IInv

(* The inductive invariant holds throughout.                               *)
THEOREM Invariance == Spec => []IInv
<1>1. IInv /\ [Next]_vars => IInv' BY NextStep, StutterStep
<1> QED BY InitIInv, <1>1, PTL DEF Spec

(* Every row at or below the dreaming cursor was given to a model or was   *)
(* older than the window of the pass that looked (_dream_session).         *)
THEOREM NoTurnIsSkipped == Spec => []NothingIsSkipped
<1>1. IInv => NothingIsSkipped BY DEF IInv, CursorInv, Safe, NothingIsSkipped
<1> QED BY Invariance, <1>1, PTL

(* Of two equal memories the later one was added without a search that     *)
(* had seen the earlier one in the index: by hand, before the earlier one  *)
(* was there, or after a search that failed or left hits out               *)
(* (_has_duplicate, append_item and /memory remember).                     *)
THEOREM TwinsAreUnseen == Spec => []TwinsUnseen
<1>1. IInv => TwinsUnseen BY DEF IInv, MemInv
<1> QED BY Invariance, <1>1, PTL

(* Whoever writes the memory file of a workspace, it has what the orderly  *)
(* consolidations of that workspace added, as far as that is active and    *)
(* fits, and nothing they archived (project_workspace_memory).             *)
THEOREM FileHasWhatWasAdded == Spec => []FileKeepsUp
<1>1. IInv => FileKeepsUp BY DEF IInv, MemInv
<1> QED BY Invariance, <1>1, PTL

(* A setting a command said it set is in effect until another changes it,  *)
(* unless two changes of the metadata overlapped (update_session_metadata, *)
(* set_session_model, update_runtime_settings).                            *)
THEOREM SettingsAreKept == Spec => []SettingsSurvive
<1>1. IInv => SettingsSurvive BY DEF IInv
<1> QED BY Invariance, <1>1, PTL
=============================================================================
