# Verification of nahida-bot

TLA+ models of nahida-bot, TLC runs that check them on small instances, and
TLAPS proofs, for every value of the constants, of the safety invariants the passing
runs check, of their action properties and of a refinement. Source
paths are relative to the root of the repository; `PROJECT.json` maps every definition to the lines it stands for.

nahida-bot is one asyncio process. Everything between two `await`s is atomic;
every `await` lets any other handler run, and a cancelled coroutine receives
`CancelledError` at the await it is in. All state that survives a restart is in
one SQLite file behind `DatabaseEngine.write_lock`. So the questions worth asking
are: what may happen between two awaits, what a cancellation leaves behind, and
what a restart finds.

## 1. The system

| Component | State | Operations | Interacts with |
|---|---|---|---|
| Scheduler (`scheduler/`) | table `cron_jobs`, `_running`, `_active_tasks`, the dreaming task | `start`, `stop`, `_poll_loop`, `claim_due_jobs`, `_fire_job`, `complete_fire`, `mark_failed`, cron tools | SessionRunner (fires an agent run), channels (reply), router (active session), engine |
| MessageRouter + ActiveRunTracker (`core/router.py`, `core/session_runner.py`) | `_active_sessions`, `_pending`, tracker `_runs`, table `active_sessions`, `memory_turns` | dispatch, `_run_agent_in_background`, `_drain_pending`, `/stop`, `/new`, `restore_active_sessions`, `stop` | EventBus (messages come in), SessionRunner, command plugin |
| AgentOrchestrator (`agent/orchestration/`) | `AgentRegistry`, table `background_tasks`, semaphore | `spawn_subagent`, `_run_subagent`, `stop_task`, `wait_for_task` | called from tools of a parent run and from commands; writes completions into the requester's session |
| SessionRunner (`core/session_runner.py`) | none of its own | `run`, `run_stream`: resolve the model, load history and pictures, run the loop, persist turns; `persist_observed_message` | memory store, AgentLoop, providers, media |
| Provider slots (`agent/providers/manager.py`, `router.py`) | the configured slots | choice of a slot and a model by name, tag, session or default | SessionRunner, dreaming, `/model` |
| AgentLoop (`agent/loop.py`) | messages of one run, step and retry counters | `run_stream`: provider calls with retry, tool calls, stop event | context builder, providers, tool executor |
| Context builder (`agent/context.py`) | none | `build_context`: window, truncation, summary under a token budget | AgentLoop |
| Providers (`agent/providers/`) | an HTTP client each | serialize a transcript, parse an answer, map errors | external services |
| Media (`agent/media/`) | cached files | resolve a picture to a file, expire | SessionRunner, channels |
| Memory (`agent/memory/`, `db/repositories/`) | turns, items, session metadata, the memory file, vectors | append, search, consolidate, dream, merge metadata | engine, files, scheduler |
| EventBus (`core/events.py`) | handlers, `_closed` | `subscribe`, `publish`, `shutdown` | everything |
| PluginManager (`plugins/`) | plugin records with a state, registries of tools, commands and handlers | discover, load, enable, disable, unload | EventBus, registries, channels |
| Application (`core/app.py`) | what has been started | `initialize`, `start`, `stop`, `run` | owns all of the above |
| Channels (`channels/`) | a poll task, Telegram offset, Milky connection | poll or stream, send | external services, EventBus |
| MCP (`plugins/mcp/`) | a session and a transport for each server | connect, disconnect, reconnect, call | external servers, tool registry |
| Workspace, configuration, logging, CLI | files | read and write | the user |

What makes each of them hard, and what makes it correct:

- **Scheduler.** Polls, fires, tools, stops and crashes interleave over the same
  rows, and a fire settles a row from the copy it was claimed with, after an
  agent run that may itself have called the cron tools. Correct: no job fires
  twice at once; a fire never settles stale data; limits (`max_runs`,
  `max_consecutive_failures`, `max_jobs_per_chat`, `max_concurrent_fires`) hold;
  no job is lost; no claim stays.
- **Router.** A message arrives between the reply of a run and its `finally`
  clause; `/stop` cancels at any await; stop() races a drain. Correct: one run per
  session at a time, in the order of arrival, each run sees what was answered
  before, every queued message has a run that will take it, shutdown leaves no
  run behind.
- **Orchestrator.** Cancellation may hit a subagent before, inside or after its
  `try`, and each of its writes may fail. Correct: one outcome, told once, equal
  to the ledger; a stop is final; a run gives its slot of the child limit and of the
  semaphore back; a waiter gets an answer. (Slots leak before the `try`, and a waiter may get
  no answer: section 5.)
- **AgentLoop with its prompt and its providers.** The history is windowed, the turn
  truncated, an answer may be malformed, a run stopped in the middle of a batch,
  and each service refuses a transcript whose calls and results are not paired.
  Correct: every request is paired and within the budget, no tool runs again
  without having said that it may, every run ends.
- **SessionRunner.** Runs of a chat, runs of the scheduler, observed messages,
  `/reset` and `/model` change one session between any two queries of a run.
  Correct: a run is given the last turns of the dialogue; a model that cannot see
  is given no picture.
- **Memory.** `update_session_metadata` and the duplicate check read before they
  lock; a dreaming pass works on rows it read minutes ago and moves a cursor
  afterwards; the search behind the duplicate check and the memory file may fail or
  leave hits out. Correct: settings are lost by overlapping changes only; a memory is
  doubled only by who had not seen it; no turn is passed over; the file of a workspace
  keeps what was written into it.
- **Application, PluginManager, MCP.** Hooks fail, hang or are cancelled after they
  registered something; a second interrupt starts a second `stop()`; several
  tasks reconnect to one server. Correct: only enabled plugins can be reached, a
  `stop()` ends, and one that returned closed all that was not lost before.

## 2. The modules

| Module | Role |
|---|---|
| `CronScheduler` | the scheduler over the `cron_jobs` table, any number of processes on one file |
| `MCCronScheduler` | symmetry for TLC |
| `CronSchedulerProofs` | theorems about `CronScheduler` |
| `SessionLane` | abstract: a session is a lane that serves one message at a time |
| `MessageRouter` | the router, tracker, session overrides and the persistence of a run; refines `SessionLane` |
| `MCMessageRouter` | symmetry for TLC |
| `MessageRouterProofs` | theorems about the router and the lane it implements |
| `Orchestrator` | subagents, registry, ledger, stop and wait |
| `MCOrchestrator` | instance for TLC |
| `OrchestratorProofs` | theorems about `Orchestrator` |
| `Prompt` | the context builder, as operators over messages with sizes |
| `Wire` (extends `Prompt`) | requests and answers of the three provider classes, two of them in both of their modes |
| `AgentLoop` (extends `Wire`), `MCAgentLoop` | one run of the loop; sizes for TLC |
| `AgentLoopProofs` | theorems about the prompt and the loop |
| `Routing` | provider slots, choice of a model, the tag router |
| `Media` | what pictures become on their way to a model and to the database |
| `SessionTurn` (extends `Routing`, `Media`), `MCSessionTurn` | the runs of one session around the agent loop |
| `SessionTurnProofs` | theorems about what a run is given |
| `SessionMeta` (extends `Routing`) | changes of one session's metadata |
| `Memories` (extends `SessionMeta`), `MCMemories` | turns, memory items, consolidation, dreaming |
| `MemoriesProofs` | theorems about `Memories` and `SessionMeta` |
| `McpServer` | the connection to one MCP server, used by several tasks |
| `Plugins` (extends `McpServer`) | plugin manager, registries, event bus as lifecycle tasks see them |
| `Application` (extends `Plugins`), `MCApplication` | start-up and shutdown of the whole process |
| `ApplicationProofs` | theorems about `Application`, `Plugins` and `McpServer` |
| `SequenceLemmas` | induction, recursive functions and sequences, for the proofs |

In each module a comment starting with `Mutant` marks an operator that is not
part of the model: it is a plausible bug in the operator that follows it, and a
property is shown to notice the difference (`mutants` in `PROJECT.json`).

### CronScheduler

`row[j]` is a row of `cron_jobs` with the columns the scheduler decides on;
`task[t]` is a fire: claimed and not dispatched yet, running, or ended with
the outcome it is about to record; `snap` is the `CronJob` object the fire works
with. `_poll_loop` is three steps, because `claim_due_jobs` is awaited: compute
`available` (`PollTick`), claim the rows (`ClaimDueJobs`), dispatch the fires
(`DispatchFires`). A fire ends in `FireReturns` or `FireRaises`, and is settled by
`CompleteFire` or `MarkFailed`, which compute the next time from the snapshot and
update the row. `update_job` reads the row and writes it later (`UpdateReads`,
`UpdateWrites`); `insert_job_with_quota` counts and inserts under `write_lock`
(`CountForInsert`, `InsertRow`). `Crash` may happen at any step; `Start` releases
all claims. A settling write that fails (`SettlingRaises`, only with `DbFaults`)
leaves the claim, as `_fire_job` does. Time is a counter.

### MessageRouter

A run is named by the message it answers; `at[m]` is the await it is at (or
"new", "queued", ... before a run and "done", "dead", "over" after it), `sid[m]` the
session the message was resolved to, and which awaits are inside the `try` decides what a cancellation does. `tracked` is
`ActiveRunTracker._runs`, `pending` the per-session queues, `active` and `saved`
the session overrides in memory and in the table, `saves` the fire-and-forget
persist tasks. `Finish` is the whole `finally` clause: unregister, then drain,
with no await in between. `StopCommand` is `/stop` with its handling of a tracker
entry whose task is already done. `turns` and `seen` follow what the memory
store holds and what each run's history contained; `ahead[m]` is history too, the
messages of its session that were in hand when `m` arrived and still are.

`ImplementsLane` is the refinement of `SessionLane`: `LaneState` and the session
of a message are its refinement mapping. It says in particular that a drain hands
the session over in one step, so that no message can slip in between two runs.

### Orchestrator

`pc[k]` is the await `spawn_subagent` or `_run_subagent` is at: "creating" between
the limit check and the registration, "created" behind the semaphore, "starting"
at the write of `running` (both before the `try`), "running", "recording" and
"delivering" inside it, "handling" and "reporting" in an `except` clause. A
cancellation sets `cancel[k]` and is delivered by `Cancelled(k)`, which abandons
the write the coroutine was awaiting: sqlite's thread may have executed it
(`WriteUnderWay`). That thread executes statements in order and
`stop_task` queues its own after the cancelled one, hence the guard of
`StopRecords`. `reg` is the registry, `ledger` the table, `told` the completions
appended to the requester's session: "unsure" when its append raised, which may have
been executed, "twice" when a second one follows. `Faulty` are the tasks whose writes may
raise. One that does so before the `try` ends the run there ("raised"), inside it in
`except Exception`, which records and delivers a second outcome, and in a handler
it leaves the run without one. `parent[k]` is the run that spawns `k`: `policy.py` counts the
children of a run, and runs of one session (a chat's and a cron job's) count apart.
A `spawn_subagent` that is cancelled at its `create` is "dropped" (`SpawnAbandoned`).

### Prompt, Wire, AgentLoop

A message is its role, its calls and its size in tokens; the tokenizer is additive
over messages, which is all the budget algorithm relies on. `BuildContext` follows
`build_context`: the window over groups of an assistant message and its
results (`Groups`), the protected turn with its order of truncation
(`FitProtected`), and the summary that must fit beside them. When no turn is
protected, the code's other branch computes the same as this one with an
empty turn. `Wire` serializes the prompt as each provider does, with what each
does to unpaired calls (`ChatRequest`, `ResponsesRequest`, `MessagesRequest`), and
parses answers whose calls may be malformed in the ways the parsers tell apart.
The chat family occurs twice, with and without `merge_system_messages`, and so does
the Responses family: replaying its output and naming the stored response.

`AgentLoop` is `run_stream` as a machine whose `pc` is the await it is at. A provider
call ends in one of `Errors`, whose `Retryable` comes from the exception classes, or
in an answer; tools return, fail or ask for a retry. `SetStop` and `Cancel` are
the two halves of `request_stop`, which sets the event and cancels the task; a tool
that swallows the cancellation leaves the event alone to end the run.
`PayloadIsPaired` speaks of calls the parser accepted: see section 5. Histories hold texts
only (`IsText`): `_persist_turns` stores the user's message and the final answer, never a call
or a result.

### Routing, Media, SessionTurn

`Routing` resolves names as sequences of the parts between slashes, in the order of
`_resolve_provider`: what the caller asks for, what the session stored, the
default. `Media` says of a picture where it is and whether its file is there,
fresh or expired. A model whose slot is known not to take pictures is `Blind`, and its history is
described whatever the policy; with no slot resolved the configured policy stays, as in
`_apply_media_context_policy`. A run of `SessionTurn` is started, routed, ready (its history,
observed context and parts are assembled), answered, and stores the message and
the answer in two steps; it may end at each of them. What the agent loop does is one step
here. Commands change the choice that is stored with the session (`SwitchModel`)
and the rows (`ClearSession`); `AgeFile` lets time pass over a file. The metadata changes
atomically here, how it really changes is `SessionMeta`'s matter.

### SessionMeta, Memories

A change of the metadata is a read of the whole object and a write of the whole
object, with another change possibly in between (`ReadMeta`, `WriteMeta`); `/reasoning`
computes its update from an even older read (`ChangeReasoning`). `said` remembers what
the user was told, `doubt` which settings were changed while another change was
under way. A consolidation after a turn and a dreaming pass share the code from
`Extract` on: check each content against what the search finds (`HasDuplicate`),
append, archive, write the file. asyncio's lock is fair and one connection answers
all, so rows appear in the order of their ids and the files are written in the
order in which they were read.

`items` are the memories in the order of their appends, each with who appended it, whether
it reached the full-text index and how many memories there were when its author last searched for it.
A search finds what shares a word with the content, or everything if the content has no word
(`Hits`); of more than `SearchLimit` hits it returns that many, which of them being up to the ranking
(`Found`), and one that fails returns none. `/memory remember` (`Remember`) appends
without a search. A consolidation that is cut at its append may leave the row without
its entry in the index (`Cut`): these are two statements, and two commits.
`file[p]` is what the memory file of workspace `p` lists, at most
`ProjectionLimit` of the active memories; a consolidation writes that of its own workspace if it has one and
applied something, and a failed search leaves it as it was (`Finish`).
Candidates are left out, because nothing reads them. The prompt of a pass shows the model
2000 characters and 20 memories, which the model does not count.

### McpServer, Plugins, Application

`link` is the connection object and `doing[a]` the await task `a` is at: `connect`, `disconnect` and
`reconnect` work on whatever transport the object names when they get to it, so `held` may be
another one than the one a task opened. A transport is named by the task that
opens it and its attempt, and `link.cm` names it before it is open, as `_transport_cm` does.
`kept` are the open transports that somebody will still close. All others that
are open are lost, each in one of five ways, which the head of the module lists: the task
that was opening or closing it was cut off; its `close()` raised, which `_close_transport`
swallows before it forgets the object; the connection names another one, or none, in its place;
`on_unload` found it in the hands of another task; or a call opened it
after `on_unload` (`parted`). `CloseDatabase` may raise, and then so does the `stop()`.

`job[t]` is where a lifecycle task is: `at` names the phase, and while that is one of
the `Sweeps` over the plugins, `i` is the plugin it is at and `step` whether it awaits a
hook or the handlers of an event. `Withdrawn` is `_clear_plugin_registrations`.
A hook may return, raise, time out or, in the second `stop()`, be cancelled; it may
have registered any part of what it offers by then. `Application` adds the order of
`initialize`, `start` and `stop`, with `First` the first call of `stop()` and `Second` the one
`run()` makes when it is interrupted again; then all tasks are cancelled, and
the first call survives only in the `on_disable` of a channel, which takes the
cancellation for that of its poll task. Publishing an event is one step that
always ends, because `publish` bounds each handler.

## 3. The runs

| Run | Instance | Shows |
|---|---|---|
| `cron_safety` | 1 process, 2 jobs, 2 fires, clock to 2, failing writes | no double fire, no stale settlement, limits, no lost or revived job |
| `cron_live` | 1 process, 2 jobs, 1 fire slot, dreaming on | due jobs are claimed, claims are released, fires stay within the limit |
| `cron_shared` | 2 processes, 1 job | **violated**: a second process releases the first one's claims, a job fires twice |
| `router` | 1 chat, 1 further session, 3 messages and an observed one | the lane refinement, order, queue and history invariants, shutdown |
| `router_live` | 1 chat, 2 further sessions, 2 messages | queued messages are taken, stop() returns, overrides are saved in order |
| `router_queue` | 2 messages | **violated**: `/stop` before the run's `try` strands the queue |
| `orchestrator` | 2 subagents, 2 runs of one session that may spawn at once, child limit 1, semaphore 1, failing writes of one subagent | stop is final, outcome told once, child limit of a run and of its session, slots leak before the `try` only, nobody waits for the semaphore for ever |
| `orchestrator_wait` | 1 subagent, 1 waiter | **violated**: stopping a subagent cancels the run that waits for it |
| `agent_loop` | 5 families, streamed or not, 3 steps, 1 retry, history that must be windowed, tool results that must be cut | paired requests, prompts in the budget, no blind retry, every run ends |
| `session_turn` | 2 chat runs, 1 cron run, 2 slots, up to 2 pictures, 2 observed messages | history is the last dialogue, no picture for a model that cannot see |
| `memory` | 2 turns, passes of dreaming one after the other, 1 `/memory remember`, 1 command, 3 contents, searches that fail or find too much | settings, cursor, twins, memory file |
| `application` | a channel and the MCP plugin, a call of a run and one of a subagent, 2 calls of `stop()` | only enabled plugins serve, what is not lost is closed after `stop()`, every stop ends |

Every specification has a type invariant. Those of the scheduler and the router are
among the runs' properties; the other runs ask about behaviour only, and `TypeOK` of
`Orchestrator`, `AgentLoop`, `SessionTurn` and `Application` is a theorem
(section 4). That of `Memories` holds on the run's instance and is not proved.

Deadlock checking is off everywhere: the inputs (jobs, messages, tasks) are
bounded, and a system whose users have stopped asking is idle.

**Bounds and why they suffice.** `MaxTime = 2` lets a job be due, fail, be
retried after `RetryDelay = 1` and be due again; `MaxFailures = 2` distinguishes
the first failure from the last, `RunLimits = {2}` the first run from the
last. Two jobs with two fire slots give the race of two settlements, one slot the
case of a full scheduler. `MaxPerChat = 1` in `cron_safety` makes the second job
hit the quota. `RunBound` only stops updates on a job that ran often
already, as each update would restart the history. In the router three messages
are one running, one queued behind it and one arriving in between; one further
session gives the switch of a chat while a run of the old session goes on, and
two switches race their saves in `router_live`. In the orchestrator two tasks and a
limit of one give contention for both the child limit and the semaphore. Two runs
of one session, the chat's and that of a cron job, may pass the check of the limit
together; they are interchangeable, so that the first task may be taken to be of the first run
(`FirstByMain`). The bound on the session's children can only be broken by a third task: there the
theorem `ChildrenAreLimited` says more than the run. `Awaited = {k1}` restricts which task is
waited for: waits do not interact with each other. `Faulty = {k2}`: writes of one task fail, and
the other one has to live with it.

In `agent_loop` the sizes matter and not their scale: `Usable = 14` holds the system
message, the request and one exchange; a request of 6 with a result of 7 does not
fit and is truncated, two such results drop the oldest group. `MCAgentLoop`
lists the answers: text alone, good calls, a call that fails validation beside one
that does not, and the two the parsers treat differently. Three steps are a
first, a middle and a last one. In `session_turn` two turns of history and two
observed messages are one more than the limits of the queries on each side;
the surplus of one is reached, with a third run by the scheduler. Its slots have a model
of the same name that sees in one and not in the other. In `memory` "tea" and "t e a"
are equal for the duplicate check, and the second has no word a search could look for, so that it is
searched for among all memories; `SearchLimit = 1` and `ProjectionLimit = 2` are below the number
of memories there can be, so that searches leave some out. The window of two rows is smaller than what two turns
store; one archive in an answer is enough to archive what another pass adds. A pass that
changed nothing may be repeated at any time, one that changed the memories is the last. In
`application` one plugin owns a poll task and subscriptions, the other registers
only tools and disconnects in its last hook, and the two calls suffice for a
reconnect that meets another or `on_unload`, with `Attempts = 2` a first and a last one; all plugins load in the late phase, the early one runs over none.

**Fairness.** The event loop runs every ready callback, so each step of a
coroutine that waits for nothing outside is weakly fair. Agent runs, tool calls
and channel sends are bounded by timeouts of the providers and of the
orchestrator, so their end is weakly fair too. Nothing forces a user, a tool, a
stop, a crash or a failing write. `Start` is fair in `cron_live`: claims
left by a crash are released by the next start, so that run speaks of a
scheduler that is restarted. `DueJobIsClaimed` assumes in addition that the
process is up from some point on. In `agent_loop` the steps between awaits, the
answer of a provider and the return of a tool are fair: httpx bounds each read and
`wait_for` each tool. In `application` only the `stop()` calls are fair, and in them only what
does not depend on others: a hook of a plugin or the server need never answer, its
timeout is what `StopEnds` rests on, and a tool call is cut by the loop's timeout.
`session_turn` and `memory` state safety only.

## 4. What is proved

Each theorem holds for every value of the constants that the named assumptions of
its model admit. TLC checks the assumptions on every run; what they say is
what the code or its configuration guarantees, and it is listed with each
component.

| Module | Theorem | Property |
|---|---|---|
| `CronSchedulerProofs` | `TypeCorrect`, `FiresAreLimited` | `TypeOK`, `FiresWithinLimit` |
| | under `OneProcess`: `OneFireAtATime`, `SnapshotsStayCurrent`, `FailingJobsStop`, `NoJobIsLost`, `QuotaIsKept`, `InactiveStaysInactive`, `RunLimitIsKept` | `NoDuplicateFire`, `SnapshotIsCurrent`, `FailingJobIsOff`, `InactiveForAReason`, `QuotaHolds`, `InactiveIsFinal`, `ExhaustedJobStops` |
| | under `OneProcess` and `DbFaults = FALSE`: `ClaimsHaveFires` | `NoOrphanClaim` |
| `MessageRouterProofs` | `TypeCorrect`, `RunsAreReachable`, `QueuesAreServed`, `StopLeavesNoRun`, `OrderIsKept`, `HistoryIsComplete`, `SwitchesStayInOrder` | `TypeOK`, `LiveRunIsTracked`, `QueueHasAWorkerUnlessEarly`, `NoRunOutlivesStop`, `TakenInOrder`, `SeesWhatWasAnswered`, `SwitchesAreSavedInOrder` |
| | `RouterImplementsLane`, `RunsAreSerial` | `ImplementsLane`, the lane's `OneAtATime` |
| `OrchestratorProofs` | `TypeCorrect`, `StopIsFinal`, `OutcomesAreTold`, `ChildrenAreLimited`, `SlotsComeBack` | `TypeOK`, `StoppedStaysCancelled`, `OutcomeIsTold`, `ChildLimit`, `SlotIsNotLeaked` |
| `AgentLoopProofs` | `TypeCorrect`, `PromptsFit`, `RetriesAreAsked`, `PayloadsArePaired` | `TypeOK`, `PromptFits`, `NoBlindRetry`, `PayloadIsPaired` |
| `SessionTurnProofs` | `TypeCorrect`, `TextModelsSeeNoImages`, `HistoryIsTheEnd` | `TypeOK`, `NoImagesForTextModel`, `HistoryIsLast` |
| `MemoriesProofs` | `NoTurnIsSkipped`, `TwinsAreUnseen`, `FileHasWhatWasAdded`, `SettingsAreKept` | `NothingIsSkipped`, `TwinsUnseen`, `FileKeepsUp`, `SettingsSurvive` |
| `ApplicationProofs` | `TypeCorrect`, `NothingIsLeftRegistered`, `OnlyLostStaysOpen` | `TypeOK`, `OnlyEnabledServe`, `StoppedIsQuiet` |

*How.* A theorem `Spec => []P` comes from an inductive invariant (`IInv`, or `Inv` for
the router) that the initial states satisfy, that every action keeps (one lemma for each
action) and that implies `P`. An action property adds a lemma about one step.
Recursive definitions of the models are recursive functions; what they
compute for every argument is proved with `SequenceLemmas`, whose `Least` (a set of
numbers has a least member) gives `Induction` over sets of numbers, `Recursion` (a
function with a given rule exists and has the values of the rule) and
`SequenceInduction`: the form of induction that needs no operator as a
parameter.

### The scheduler

For every number of jobs, chats, fire tasks and every value of the limits.
`OneProcess` says that one process uses the file; it is needed, as `cron_shared`
shows. `TypeCorrect` and `FiresAreLimited` hold for any number of processes.
`DbFaults = FALSE` is needed for `ClaimsHaveFires` because a settling write that
fails leaves its claim.

No property is inductive alone. That a job has one live
task needs that a claimable row has no live task; this holds because a live task's
row is either inactive, hence not due, or equal to the claimed snapshot, hence
marked as claimed (`SnapshotIsCurrent`). That equality survives because
every operation that changes an active row either belongs to the fire itself or
refuses claimed rows (`Updatable`), except those that deactivate it. So
`NoDuplicateFire` and `SnapshotIsCurrent` are proved together, with
`FiredJobsAreIssued` and `InsertsAreFresh` (a new row has a fresh id nobody
fires). `start()` releases every claim, which is sound only because no fire is
left by then: `TasksHaveAProcess` and `NoBatchUnlessUp` say that a process that
is down has no fire, and one that is stopping holds no undispatched batch. The
failure limit follows: the counter a settlement uses is the row's own. The quota
is a conjunct of its own (`QuotaInv`): a pending insert holds `write_lock` and has
found room, and nothing but an insert adds an active row, so the room is still
there when it writes. The proof has one step per action and groups the actions
that leave the table alone (`QuietSteps`).

The settlement lemmas are stated on rows in isolation (`SettledRowType`,
`NextFireType`, `RecomputedType`, ...), so that the invariant's proof never expands
them. `FiresAreLimited` counts: the tasks of a process, the batch it has claimed and what
`PollTick` left `available` stay within `max_concurrent_fires` together (`FiresInv`).
`ClaimsHaveFires` says of each claimed row where its fire is: in the batch being claimed, in a
task, or in a settlement (`ClaimsAreServed`).

### The router

For every set of chats, sessions and messages, and under no
assumption but that the names are distinct (`ConstantsAssumption`).

`LiveRunIsTracked` is the core: a live run has a session whose
tracker entry names it (`RunsHaveSessions`), so two live runs of one session are
the same run, an idle session has none, and the tasks `stop()` gathers are all
there are (`StoppingAwaits`, hence `NoRunOutlivesStop`). A drain keeps it because
what it takes from a queue is queued and of that session
(`QueuesHoldTheQueued`) and occurs in it once (`QueuesAreDistinct`). That a queue
has a worker needs in addition that the tracked task is not dead; this is true
only while no run was cancelled before its `try` (`DeathsAreEarly`), which is the
hypothesis `~early` of `QueueHasAWorkerUnlessEarly` and exactly what
`router_queue` violates without it. `Inv` is the conjunction. `EndKeepsInv` is the
one lemma about the end of a run, whether it hands over, leaves the session
idle or drops the queue.

`OrderInv` adds the order: a queued message is in its session's queue, the queue
lists messages in the order they arrived (`QueuesInOrder`), and `ahead` speaks
only of held messages of the same session. The head of a queue can then have no
queued message ahead of it, which is the step `OrderAtFinish`; a message that is
dispatched at once has none because an idle session has an empty queue, by
`QueueHasAWorkerUnlessEarly`.

For the refinement every action maps to one step of the lane (`Arrive` to `Wait`,
`Serve` or `Leave`; `Finish` to `HandOver` or `Leave`; `Stopped` and `Crash` to the
`Leave` of all messages in hand) or to a stutter (`LaneStep`). `Serve` needs
`LiveRunIsTracked`: nobody is served in a session that is not busy.

`LanesAreSerial` is proved of the abstract specification alone, and `RunsAreSerial`
carries it over to the router through the refinement: a session answers one message
at a time.

`HistoryIsComplete` needs that what a run of a session answered is stored before the
session is handed over (`AnsweredIsStored` in `SeenInv`), and `SwitchesStayInOrder` that the
saves still under way are of later switches than the one the table has (`MintInv`).

### The orchestrator

For any number of tasks, sessions and slots (`ConstantsAssumption`: the limits are
positive, as `policy.py` and the configuration require). Every action but a restart touches one
task, so `IInv` is an invariant of each task (`TaskInv`) and one count (`ChildInv`).
The core is `Doomed`: whoever is being stopped writes nothing but "cancelled" any more,
which makes a stop final, although it is `stop_task` and the coroutine that both
write the row. For the child limit, the tasks of a run that have passed the check and are not
registered yet are counted with those that are: a run awaits its `spawn_subagent`, hence has
one such task at most and keeps its limit exactly. The tasks of a session may exceed it, by one
for each further run that passed the check at the same time.

### The agent loop

For every history, every size of a message and every limit. `LoopAssumption` and
`BudgetAssumption` say that sizes are numbers, that histories are texts and that the system
message fits into the budget; without the last no prompt can. The code does not enforce it: the system
prompt, `AGENTS.md`, the skills and the memory are never truncated, so `PromptsFit` holds for workspaces
whose instructions fit. `PromptsFit` is about `BuildContext`
alone, and holds because each of its parts is bounded: the window stops at the
budget, the protected turn is truncated until it fits or dropped from the front, and the
summary is given what is left. `Tokens` is a recursive function; that it is
additive over concatenation is the lemma everything else rests on.
`RetriesAreAsked` needs that the executions of a call in progress are the tries
counted for it (`TriesCounted`), and that those of an earlier call of the batch
are over, because ids within a batch are distinct.

`PayloadsArePaired` is an argument about *closed* sequences: every call has a result behind
it with tool messages only in between, and every result has such a call before it. The turn
is closed whenever a prompt is built, and closed but for its last calls while a batch is
under way (`TurnInv`). From there on the proof follows a message to the wire:

- `GroupsClosed`, `PromptClosed`: the window and the cut of the turn take whole groups, truncation changes
  no more than sizes, and the summary and the system messages are texts, so prompts are
  closed for every history and budget.
- `SanitizeCloses`: `_sanitize_transcript` drops calls without an answer and
  results without a call; what it returns is closed. `SinceClosed`: so is the
  part of a prompt behind the stored response that a Responses request names, but for the
  results of that response's calls, which the service holds.
- `ItemsPaired`, `RequestPaired`: the items a family serializes a closed sequence
  to are paired. Where a provider replays its own output, the calls in it may be
  more than those of the message; that ids belong to one step keeps a replayed call of
  one message from those of another (`Coherent`, `AllowedCoherent`).

### The session's turns

For every configuration of slots, every media policy and any number of runs
(`SlotsAssumption`: slot ids are distinct; `MediaAssumption`, `TurnAssumption`: limits are
numbers, modes are those `config.py` admits). That a model without vision is
given no picture is a property of `Assemble` that the steps up to the answer keep. It holds of
the history for another reason than of the message: what was stored is made into parts without
asking for the model, and the whole history is degraded afterwards, whatever policy is
configured (`DegradedType`).

`HistoryIsTheEnd` is an argument about sequences (`WindowIsLast`). The query reads the last
`QueryLimit` rows, observed messages among them, and keeps the dialogue. If the
run missed a turn, the rows read contain fewer than `MaxHistory` of the
dialogue, hence more than `Surplus` observed ones: this is the exception
the property states. It needs `ContextMax > 0`, see section 5.

### Memory

For any number of turns, passes, changes and contents. `MemoryAssumption` and
`ChangesAssumption` say what the models' constants stand for; the latter also leaves out one
name of `/model` (section 5). `NoTurnIsSkipped` needs that every cursor anybody may still
write is safe (`Safe`): the stored one, that of each pass on its way to write it, and the one in
each object a change of the metadata has read. `TwinsAreUnseen` rests on `SearchedFirst`: while a
consolidation is about to append, none of the memories its search has seen says the same. If the search left no hit out,
these are all that were there and indexed, because equal contents share their words (`Matches`). `FileHasWhatWasAdded`
says that a file lists a full set of memories or all that were active when it was written, and whoever writes it
later sees what was added before and nothing archived comes back (`Own`). `SettingsAreKept` rests on `AloneInv`: a change that is alone
works on the object that is stored.

### The application

For any plugins, in any order, with any offers, and any number of calls and transports
(`PluginAssumption`, `TasksAssumption`, `McpAssumption`). `NothingIsLeftRegistered` follows
from what `disable` and `unload` withdraw before they await a hook (`ServeInv`).
`OnlyLostStaysOpen` is the largest proof. `SweepInv` says that the plugins before
the one a sweep of `stop()` is at have been treated, also by the sweep that was overtaken by
the second call; `DownInv` that the parts go down in the order of the code; and
`LinkInv` that a kept transport is the one the connection names or one a task is closing (`KeptInv`),
that once a `stop()` has reached `on_unload`, none but the one it is closing is kept (`PartInv`), and that
there is none when the plugin has forgotten the connection (`ForgetInv`).

### Only model-checked

- `TypeOK` of `Memories`: that what a fold keeps of a list (`Deduped`) are contents.
- Liveness, which needs fairness and `ENABLED` and is out of the backends' reach:
  `DueJobIsClaimed`, `ClaimIsReleased`, `QueuedIsTaken`, `StopReturns`,
  `RunGetsItsTurn`, `RunEnds`, `StopEnds`.

## 5. Disagreements found

1. `cron_shared`: `claim_due_jobs` promises to prevent duplicate fires "across
   multiple processes sharing the same SQLite database"
   (`scheduler/repository.py:88-90`), but `start()` releases all claims
   unconditionally (`scheduler/service.py:81`).
2. `router_queue`: `_run_agent_in_background` awaits before its `try`
   (`core/router.py:380`). A `/stop` in that window ends the task without its
   `finally` clause; the tracker keeps the entry and later messages queue up
   with nobody to take them.
3. `orchestrator_wait`: `wait_for_task` (`agent/orchestration/service.py:163`)
   cannot tell its own cancellation from that of the task behind `shield`. A run
   waiting for a subagent that somebody stops ends without a reply.

What the models show and no document of the repository contradicts, stated in the
properties as an exception or left to the reader of the code:

- A `stop()` after a `start()` that failed takes the short path (`core/app.py:714`): the
  scheduler and the router stay up over a closed database (`StoppedIsQuiet`
  speaks of them only when the application had been started).
- `on_enable` of Telegram creates its poll task before it registers its tool
  (`channels/telegram/plugin.py:106`). If that raises, the plugin is in ERROR,
  `on_disable` is not called, and the task polls on: `stray`.
- A transport of an MCP server stays open after `stop()` when the task that opens or closes it is cut off (a
  tool call by its timeout, a hook by `plugins/manager.py`), when its `close()` raises
  (`plugins/mcp/connection.py:179-194` logs that and forgets it), when a second `connect` or `disconnect` meets the
  first, and when a call, say of a subagent, which no `stop()` awaits, reconnects after
  `on_unload`. `StoppedIsQuiet` says that there is no other way.
- The handler of an MCP tool reconnects and calls once more after any exception
  (`plugins/mcp/tool_adapter.py:132-146`), also when the first call may have had its effect. `NoBlindRetry`
  speaks of the loop, for which this is one execution.
- If the `close()` of a provider or of the engine raises, `stop()` raises, and what would come after it is
  not closed (`core/app.py:757`): the stop ends as "raised".
- `max_children` is counted for a run (`agent/orchestration/registry.py:56`), while `policy.py:28` speaks of "this
  run/session": two runs of one session that spawn at once have one more child than that together.
- If the write of `running` raises (`agent/orchestration/service.py:208-211`), or the run is cancelled before its `try`
  by a stop that does not get to its own write, nothing unregisters the run: its slot counts against the limit until
  a `stop_task` on it finishes (`SlotIsNotLeaked`).
- A delivery that raised after its rows were written is followed by that of a second outcome: the
  requester is told twice (`OutcomeIsTold` speaks of the others).
- Two changes of a session's metadata at once lose one of them, and the user was
  told otherwise: `doubt`.
- A memory is stored twice when two consolidations check for it before either appends it, when the ten hits of
  the search do not include it (`agent/memory/consolidation.py:560`), when the search fails (`:561`), when `/memory
  remember` adds it, or when an append was cut before its entry in the index. `TwinsUnseen` says that there is no other way
  for equal contents; contents that only `_normalize_for_dedupe` holds for equal may share no word and are missed as well.
- The memory file lists 40 memories (`agent/memory/consolidation.py:330`), a search that fails leaves it as it was
  (`:459`), and only the workspace of the consolidation is written (`:448`), while memories are shared by all:
  `FileKeepsUp` speaks of what a workspace's own consolidations changed.
- A settling write of the scheduler that raises (`scheduler/service.py:602`) leaves the claim, and the job is not fired
  until the next `start()`: `NoOrphanClaim` and `ClaimIsReleased` are checked without such writes.
- A switch of `/new` whose save has not run when the process ends is forgotten (`core/router.py:168`).
- A dreaming pass whose model failed moves its cursor as well
  (`scheduler/service.py:508`): the turns count as `taken`, as do those beyond the first 2000 characters of its prompt.
- The Responses provider replays a call without a name that the parser has dropped,
  and nothing answers it (`agent/providers/openai_responses.py:742`);
  `PayloadIsPaired` asks for results of accepted calls only.
- `/model` with a name that repeats its slot (`/model openrouter/openrouter/auto` for a slot
  `openrouter`) stores the model `openrouter/auto` (`plugins/api_bridge.py:428`),
  and `_resolve_provider` strips the prefix again (`core/session_runner.py:685`): the run
  uses `auto`, and the user was told otherwise. `ChangesAssumption` leaves such names out.
- With `group_context.enabled` and `max_messages = 0` (`core/config.py:165`) observed
  messages are stored as well, and `_history_query_limit`
  (`core/session_runner.py:991`) adds no surplus for them: chatter crowds the
  dialogue out of the history. `HistoryIsLast` speaks of `ContextMax > 0`.
- When the protected turn does not fit even truncated, messages are dropped from its
  front, the user's request first (`agent/context.py:536`), where the docstring
  of `_build_context_with_protected_messages` calls for it to survive.

## 6. Plan

1. *(done)* `CronScheduler`, `MessageRouter` and `SessionLane` with their proofs,
   `Orchestrator`.
2. *(done)* `Prompt`, `Wire`, `AgentLoop`; `Routing`, `Media`, `SessionTurn`;
   `SessionMeta`, `Memories`; `McpServer`, `Plugins`, `Application`, with their runs. None
   of them declares a recursive operator, so all can be proved about.
3. *(done)* Proofs of the safety invariants and action properties of all runs, as listed in
   section 4.
4. `TypeOK` of `Memories`. Of the scheduler's theorems under `OneProcess`, what several
   processes on one database still guarantee.

**Not modelled and why.** HTTP, authentication, token counting, the text of prompts and
summaries, embeddings, the vector index and the ranking of memories, message
conversion of the channels and markdown layout: data, without decisions the
properties tell apart. Migrations, workspace files, configuration, logging
and CLI: file and terminal I/O by one task. `publish_nowait`, `reload()` and enabling a
disabled plugin: nothing in the repository calls them. The order of the
handlers of one event: only the router subscribes to messages. Which updates a channel
fetched and lost: outside `Application`, listed as a hazard. Metrics decide nothing.
