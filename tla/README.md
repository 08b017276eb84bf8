# TLA+ verification of uclaw-pi

uclaw-pi is a desktop agent: a Tauri host (`src-tauri`) with a database of
conversations, memory, automations and tools, which runs the agent either in a
loop of its own (the default) or through an engine (`crates/uclaw-pi-engine`)
around a vendored agent (`crates/pi`). This project models the parts in which
most of the concurrency and the durable state live - both ways a chat turn runs,
the tool calls that wait for the user or for the host, the way a turn reaches
the message table, the runs of automations, and the memory tree - checks them
with TLC and proves the central safety properties with TLAPS.

    tlc -workers 2 -config MCPiEngineSafety.cfg MCPiEngine
    tlapm PiEngineProofs.tla

Paths below are relative to the repository. `engine.rs`, `approval.rs`,
`tool_bridge.rs`, `tool_factory.rs` and `acl.rs` are in
`crates/uclaw-pi-engine/src`, `agent.rs` is `crates/pi/src/agent.rs`,
`engine_sink.rs` and `tauri_commands.rs` are in `src-tauri/src`.

## 1. Inventory

### What is modelled

**Engine actor** (`engine.rs`). An OS thread runs a single-threaded asupersync
runtime. State: a bounded command channel (1024, `try_send`, a full channel
drops the command), one engine-wide `model_config`, and per conversation a
session handle behind an async mutex, an abort slot and a generation counter
`run_gen`. Operations: the commands Configure, Prompt, FollowUp, Stop, Drop,
SetModel, Respond, ToolResult. A prompt creates the session if need be (the loop
awaits that), registers its abort handle and is spawned as a task that waits for
the session's mutex. Hard: runs that finish after their successor registered,
Stop with more than one prompt around, the loop waiting on something a prompt
holds. Correct if: prompts of one conversation run one at a time, Stop reaches
what it should, every prompt ends.

**Approval registry** and **tool result registry** (`approval.rs`,
`tool_bridge.rs`). A map from request id to the sender of a oneshot, a ticket
with the receiver and a guard that removes the map entry whenever the ticket
goes. Operations: register, respond, await with a timeout, drop. Approval ids
are the provider's `tool_call_id`s and may collide; result ids come from a
counter. Hard: ids shared by two tickets, answers that are late, duplicated or
lost, cancellation in the middle. Correct if: nothing leaks, nobody is left
waiting unreachable, and a missing answer denies.

**Tool execution** (`agent.rs`: `execute_tool_calls`, `execute_tool_batch`, the
approval gate; `BridgedIoTool`, `ExitPlanTool`). Batches of calls with
compatible effects run concurrently in one future that an abort drops. Correct
if: a tool runs only after the user allowed that very call.

**Host commands and executor** (`tauri_commands.rs`, `engine_sink.rs`). The host
sends Configure, awaits memory recall, then sends Prompt; the user stops and
answers dialogs; one tokio task per bridged call always replies.

**ACL and event sink** (`acl.rs`, `engine_sink.rs`, `engine_persist.rs`). A run
has an `Acl` (accumulated text, complete latch); the one sink has two buffers
per conversation (last turn cost, tool activity) and writes the assistant's row.
Hard: the buffers outlive turns that fail; three kinds of end. Correct if: a
completed turn has one row with all its text, its own cost and its tool calls.

**Turns of the default chat path** (`tauri_commands.rs` `send_agent_message` and
the commands around it, `agent/agentic_loop.rs`, `agent/cancellation_registry.rs`,
`agent/queues.rs`). The pi engine runs a chat only if an override or environment
variable switches it on (`engine_sink.rs:1044-1058`); otherwise a turn is a task
around `run_agentic_loop`, in a `select!` with its cancellation token and a
timeout. State: two maps from session to token (`cancellation_registry`,
`running_sessions`) under two locks, a steering and a follow-up queue per session
that outlive the turns, the rows. Operations: send, stop, cancel, steer, follow
up, and the loop's checks and drains. Hard: nothing serialises two turns of a
session, and each removes the session's entries when it ends. Correct if: a
stopped turn ends, the maps hold no dead turn, no typed card is lost.

**Automation runtime** (`src-tauri/src/automation/runtime`,
`agent/headless.rs`). A fire of a spec goes through a pipeline of about eleven
steps: activity row, filter, permit (two per spec), daily cap, session, model,
the loop with a headless delegate, transcript, pruning, outcome. State: the
activity ledger, approval requests, escalations, run sessions with their
transcripts, chat threads with a mutex per session, permits. Hard: a dozen early
returns behind the first insert, a stop that the run has yet to notice, answers
that come late, pruning of sessions that are in use, crashes. Correct if: the
ledger says how each run ended, a stop is not overwritten, runs of a thread take
turns, nothing points to a deleted session, every run gives back what it holds.

**Memory bucket-seal tree** (`src-tauri/src/memory_bucket_seal`). Documents and
chat turns are chunked, stored and appended as leaves to a level-0 buffer; a
buffer that meets its gate (50 000 tokens at level 0, a fan-out of 10 above) is
sealed into a summary of the next level, and so on up. State: chunks, buffers,
summaries, the tree row, all in SQLite, and a mutex per namespace in memory. Hard:
a seal reads, awaits two models and then writes; a cascade is several
transactions; retries and re-ingests; deletes beside it; crashes. Correct if: no
leaf is ever lost, a summary hangs in the tree once, the root is at the top.

### What is not modelled

| Component | State and operations | Why not (yet) |
|---|---|---|
| Service manager (`services/manager.rs`) | map of services with a lock each; start, stop, restart. `restart` releases the map's lock between stop and start, and a stop that times out is dropped half-way | next in the plan; what a service's own start and stop do is elsewhere |
| Model download (`local_llm/download`) | partial file, source list; resume, verify, fall back | HTTP and files, one task at a time |
| Automation live room, proactive services, memorization | scripts and jobs over the database | the state they keep is the browser's, or one job at a time |
| Safety rules, skills, providers, MCP, channels, browser, memory graph, migrations, shell, type crates | decision tables, I/O, SQL, formatting | little state of their own, or another program's |

The rest of `crates/pi` (providers, terminal UI, extensions, its own session
store) is a vendored agent and is left aside.

## 2. Modules

| Module | Models | Lines of code it follows |
|---|---|---|
| `PendingRegistry` | map, tickets, guard; parameterised by waiters, ids and answers | `approval.rs`, `tool_bridge.rs` |
| `ConversationRuns` | abstract: a prompt is unsent, waiting, running or over, and a conversation runs one at a time | `engine.rs:12-15` |
| `PiEngine` | channel, actor loop, sessions, prompt tasks, tool calls, host, executor; instantiates the registry twice and `ConversationRuns` | `engine.rs`, `approval.rs`, `tool_bridge.rs`, `tool_factory.rs`, `agent.rs`, `tauri_commands.rs` |
| `TurnSink` | what the events of a run do to the Acl, the sink's buffers and the rows | `acl.rs`, `engine_sink.rs`, `engine_persist.rs`, `agent.rs` |
| `ChatTurns` | the turns of one session on the default path: tokens in two maps, the loop, the two queues, the user's commands | `tauri_commands.rs`, `agentic_loop.rs`, `turn_runner.rs`, `cancellation_registry.rs`, `queues.rs` |
| `AutomationRun` | the runs of one automation spec with the rows they share with the user's commands | `automation/runtime/*.rs`, `agent/headless.rs`, `agent/tool_dispatch/mod.rs`, `tauri_commands.rs` |
| `LeafLog` | abstract: a leaf that was taken in stays | `bucket_seal.rs:112-116` |
| `BucketSeal` | the tree of one namespace: ingest, append, gate, seal, cascade, delete, failure, crash | `memory_bucket_seal/*.rs` |
| `PendingRegistryProofs`, `PiEngineProofs`, `PiEngineToolProofs`, `TurnSinkProofs`, `ChatTurnsProofs`, `AutomationRunProofs`, `BucketSealProofs` | theorems | - |
| `SetSums` | lemmas: the sum of a function over a finite set | - |
| `MCPendingRegistry`, `MCPiEngine`, `MCTurnSink`, `MCChatTurns`, `MCAutomationRun`, `MCBucketSeal` | small instances | - |

`PiEngine` and `TurnSink` are two views of the same run. `PiEngine` has the
mutex and the abort and leaves the events out; `TurnSink` has the events and
takes from the engine only that a conversation's runs take turns (`Busy`), which
is what `SerializesPrompts` establishes.

**Actions.** A step of `PiEngine` is what one task does between two awaits. The
runtime is single threaded (`RuntimeBuilder::current_thread`), so such a block is
atomic; host threads interleave only through the channel. The abort slot's mutex
is never held across an await, so it is not a variable; the session's mutex is,
and whoever waits for it may get it next (no queue order is assumed). Prompt and
FollowUp both go through `start_run` and are one action. The await between
session creation and the rest (`actor.at = "creating"`) and the await in SetModel
(`"switching"`) are states of the loop. In `TurnSink` an event callback is
synchronous and therefore one step; the two emissions of one AgentEnd (cost, then
completion) are one step as well.

The host's tasks run on tokio's thread pool. In `ChatTurns`, `AutomationRun` and
`BucketSeal` a step is what a task does under one lock (a map's, the database's)
or in one SQLite transaction; everybody else may come in between any two. A turn
that is cancelled by `select!` is dropped at an await, so a drain of a queue and
the rows written for it, which have no await that yields between them, are one
step. A crash, where rows outlive the process, loses tasks, mutexes and permits and
leaves the rows.

**State of a run** (`phase`): `idle`, `configured` (between the host's two
sends), `sent`, `refused` (channel full), `creating`, `failed` (no session),
`queued` (spawned, waiting for the mutex), `streaming`, `ended`. A session is
named by the run that created it, so that Drop and a new Prompt give a second
one. **State of a call** (`call`): `new`, `scheduled`, `asking` (the gate),
`planning` (exit_plan's own dialog), `bridged`, `executing`, and the ways it
ends.

In `AutomationRun` the place of a run (`at`) is the next step of the pipeline; in
`ChatTurns` it says between which two locks the turn is; in `BucketSeal` `pc`
follows the adapter's call through store, append and cascade.

**Where the model is wider than the code.** A batch may be any set of new
compatible calls, while the code takes contiguous ones in the reply's order; a
dialog may be answered at any later time, up to `MaxClicks` times; a session's
creation may always fail. Queues of cards are sets, so a turn may take any of
them. `BucketSeal` lets every document be deleted by its key, chat turns too.
**What is left out.** Extension hooks, panics and
poisoned locks, the counter that replaces an empty `tool_call_id`, the text of
requests and results; in `TurnSink` also thinking text, live tool output,
sequence numbers, compaction folds, reflections, preference extraction, failure
records, failing inserts, the feature flag read at completion, and the error
pi's session store may return after AgentEnd (sessions are not saved to disk).
In `ChatTurns` also what a model and its tools do in an iteration, the assistant's
row, and failing inserts. In `AutomationRun` uninstalling and editing the spec, two
stops at once, costs, what a filter computes, the permission that an approval also
grants, ties of `created_at`. In `BucketSeal` chunking, scoring and the text of
summaries, and `append_leaf_deferred` and a forced seal, which nothing calls.

## 3. Properties and runs

| Run | Question | Size |
|---|---|---|
| `registry` | Three waiters, two may share an id. `NoLeak`: an entry belongs to an unanswered ticket. `NobodyStranded`: a silent waiter is on file. `NeverDisplaced`: nobody else closes the channel of a waiter whose ids are its own. `EveryAskEnds`. | 152 states |
| `engine_safety` | Two prompts of one conversation, one bridged call and one plan under the gate, Stop/Drop/SetModel, a channel of 2. `AbortSlotCoherent`: a session's slot holds the handle of its newest run exactly while that run lives unstopped. `ToolNeedsAllow`: no tool runs unless the user allowed it in an open dialog. `NothingPendingAfterRun`. `UsesRegistries`: the engine's steps on the two registries implement `PendingRegistry`. | 205,643 states |
| `engine_live` | The default build: no gate, two conversations, three prompts. `SerializesPrompts`: the engine implements `ConversationRuns`. `PlanNeedsItsAnswer`: a plan is accepted only in its own dialog. `PromptsEnd`: every accepted prompt ends. | 123,210 states |
| `engine_stop` | Scheduler fairness alone. `StopEndsTheRun`: a stopped run ends though no tool, model or user does anything. | 24,464 states |
| `sink_turns` | Two agent turns, one chat turn. `RepliesAreFiled`, `UsageIsOwn`, `ToolsAreFiled`, `ActivityFiledOnce`. | 353,968 states |
| `chat_turns` | Three turns, one card, one stop. `Reachable`: the maps hold no turn that is through with them, and every turn that never overlapped another one is found until it is stopped. `CardsKept`: each command for a card leaves it in a queue or gives it a row, once. `StoppedTurnsEnd`: a stopped or superseded turn ends though its model or tool hangs. | 325,105 states |
| `automation` | Two fires of one chat thread and a manual run, two permits, retention 1, one approval per run, one path prompt, one stop, one crash. `OutcomeTold`: a row whose run is over is neither `queued` nor `running` and, unless the run was stopped or asked for an approval, says how it ended. `AnswersAgree`: a row that waits, may go on or was denied says what the request it points to says. `StopHolds`, `ThreadsSerialize`, `TranscriptKept`, `LinksAreLive`, `RunsEnd`. | 585,111 states |
| `bucket_seal` | Two callers, a document of two chunks and a turn of one, budget 3, fan-out 2, depth 2, each ingested up to twice, one removal, one failure or crash. `LeavesAreHeld`: the tree implements `LeafLog`. `LeafInOnePlace`, `TreeIsWhole`, `RootAtTop`, `TokensCounted`, `BuffersStaySmall`, `SealsWhatItRead`, `CallsReturn`. | 196,987 states |

Every property has a mutant in `PROJECT.json`: a definition of the model
changed the way a bug would change the code, under which the same run finds the
property violated. The mutants stand next to the definitions they change.

**Bounds.** Two prompts are what the abort slot and the mutex need to go wrong
(predecessor and successor); the third, in another conversation, shows that
conversations do not block each other. A channel of 2 is the smallest that can
be full while a command is being prepared and still hold two commands in an
unexpected order. Two calls are one that collides with and one that differs from
an abort's victim; one answer per dialog (`MaxClicks`) is enough for late and
misdirected answers, two control commands (`MaxControls`) for Stop before and
after Drop. In `TurnSink`, two deltas distinguish a whole text from a part, two
tool calls allow two batches or two assistant messages. Three waiters are a
colliding pair and a bystander. The liveness runs use no symmetry; the model
values are few enough without. In `ChatTurns` a third turn is what it takes to be
sent while a superseded one is ending and its successor is under way; the card is
one because cards do not interact. In `AutomationRun` two runs of a thread meet at
its mutex, the third competes for the second permit, and a retention of 1 makes
pruning reach sessions in use; a manual run without a dispatcher is there so that a
run can report success. A run asks for one approval: batches of requests are the
theorem `AnswersAlwaysAgree`'s. In `BucketSeal` the fan-out and the budget are the smallest
that still leave a buffer non-empty below its gate; depth 2 gives a cascade of two
seals and a level at which it stops (the code's 32 is never reached in practice).
One failure or crash is enough to leave a level past its gate; the second ingest is
the retry.

**Deadlock** is not checked except for the registry: the number of prompts, clicks,
turns, fires and ingests is bounded, so the environment falls silent. That nothing
gets stuck is what `PromptsEnd`, `StopEndsTheRun`, `StoppedTurnsEnd`, `RunsEnd` and
`CallsReturn` say.

**Fairness.** `Scheduling` is what the executor owes: it polls every task that
can make a step, and the loop is one of them (weak fairness of the loop as a
whole, of each task's mutex acquisition, tool steps and abort). `Progress` is
what the world owes: timers fire (dialogs 300 s, tools their own), pi's own
tools return, and a model's replies end (`max_tool_iterations` bounds the turns
of a prompt). `engine_stop` assumes only `Scheduling`; `engine_live` assumes
both. The user owes nothing in either. What is owed to one of them has an operator
of its own (`PolledLoop`, `PolledRun`, `PolledCall`, `ReplyEnds`, `WorldAnswers`, and
`Fair` in `PendingRegistry` and `ChatTurns`), which is what the proofs of liveness
cite. In `ChatTurns` only a turn's own steps are
fair (each a poll that can go on): the model, the tools and the user owe nothing. In
`AutomationRun` each run goes on by itself: provider streams have an idle timeout
and the loop a last iteration; the user owes nothing, but `RunsEnd` supposes that
path prompts are answered, because that prompt has no timeout. In `BucketSeal` a
call that is under way goes on (the embedder has a timeout of 30 s, `memu/bridge.rs`)
and gets the mutex if it is free again and again - tokio's mutex is first in, first
out, hence strong fairness; nobody need make a call.

## 4. Where code and comments disagree

Four runs have a counterexample (`PROJECT.json`, "findings"):

- `stop_misses`: with a second prompt queued, Stop fires that one's handle and
  the run in flight goes on (`engine.rs:101` says it aborts the in-flight run).
- `model_cross_talk`: `model_config` is engine-wide and the host awaits between
  Configure and Prompt, so a session may be created under another
  conversation's model (`tauri_commands.rs:1522-1523`).
- `pause_overwritten`: a call that needs approval pauses the activity, ends the loop
  with NeedApproval and sets no gate, so the pipeline's last step writes `failed` over
  `paused_pending_approval` while the request is still open (`service.rs:957` against
  `approval.rs:4-5`). `OutcomeTold` takes no side: it holds whether or not the last
  step spares the pause.
- `abort_loses_reply`: pi returns Ok for an aborted run, so the partial text of a
  stopped reply is not persisted (`engine_sink.rs:263-264`).

Others were met on the way. They concern commands that no caller in `src-tauri`
sends, or an opt-in flag, or are told by a property that states how far they go.
They have no run of their own.

On the default chat path:

- A superseded turn that ends removes its successor's entries from both maps
  (`tauri_commands.rs:6684-6687`). A stop then finds nothing while a turn runs, and
  the next send finds no prior token, so that two uncancelled turns of a session run
  at once, although "old requests for the same conversation are abandoned"
  (`cancellation_registry.rs:7-8`). `Reachable` is about turns that met no other.
- The reply before a follow-up is never written to `agent_messages`: the loop drops
  the outcome and goes on (`agentic_loop.rs:560-574`), and only the last reply is
  inserted (`tauri_commands.rs:6578-6634`).
- A card that is steered while the loop pops it, or before `agent_follow_up` has
  parked it, is handled twice, despite "avoid double-processing"
  (`tauri_commands.rs:6976`). A follow-up parked after the turn's last look, or a card
  steered in an idle session, waits for the next turn. `CardsKept` counts both.

In automations:

- An answer given after the run was filed as `failed` makes its row `resumable`, and
  nothing resumes it. An ask overwrites a stop; `StopHolds` says that nothing else does.
- The request and the activity are written by two statements without a transaction,
  when the run asks and when the user answers. A crash between them leaves a request
  that no row points to, or a row that still waits for what was answered;
  `AnswersAgree` says how far that goes.
- Every run the application starts has a dispatcher (`app.rs:727`,
  `channels/dispatcher.rs:291`), and on that path `report_to_user` and
  `request_escalation` are not among the tools that can succeed
  (`tool_registry.rs`), so no such run ends as `completed`.
- A path prompt has no timeout, a stop does not reach it, and it keeps its permit. A
  stop reaches neither a run that waits for its thread nor a paused row.
- The message ids of a transcript start at `<session>-0` in every run, so the second
  run of a chat thread stores nothing. `TranscriptKept` promises a thread's session
  only that it has a transcript.
- Pruning may delete the session of a run that is under way, after which two runs of
  a thread may run at once (`ThreadsSerialize` names the condition).
- Start-up repairs no row: `queued` and `running` stay after a crash. The ledger's
  parser (`activity.rs:31-41`) does not know `filtered_out`,
  `paused_pending_approval`, `resumable` and `cancelled_user_denied`.

In the memory tree:

- "a retry after a failed cascade is a no-op" (`bucket_seal.rs:175-177`) does not hold
  once level 0 was sealed before a higher level failed: the retry appends the chunk
  again. So does a re-ingest of sealed content; a chunk is then under two summaries
  (`LeafInOnePlace` is about chunks ingested once).
- When one append fails, the later chunks of the document are stored but never
  appended. Ids of deleted chunks stay in buffers and child lists.

In the engine and its sink:

- Drop during a run and a new Prompt give one conversation two sessions that run
  at once (`SerializesPrompts` and its theorem exclude Drop).
- SetModel makes the loop wait for the session's mutex, so nothing, Stop
  included, is read until the prompt ends, although "the loop keeps reading commands
  while prompts run" (`engine.rs:9-11`). `PromptsEnd` is checked with SetModel: the
  wait ends, if need be with the timer of a call whose answer the loop has yet to read.
- A turn's cost is reported under the loop's current model, not the session's, which
  keeps its configuration (`engine.rs:65-67`): after a Configure the turns of a session
  that goes on are priced by the wrong name. `FirstCostIsRight` says when it is right.
- With the approval gate on, exit_plan asks twice under one id; a duplicate of
  the gate's answer that arrives after the second registration accepts the plan
  (`PlanNeedsItsAnswer` is checked in the default build).
- The tool activity of a turn that fails or says nothing is not drained and
  shows up in the row of the conversation's next completed turn, although
  "removing the entry resets it for the next turn" (`engine_sink.rs:87-89`).
  `ActivityFiledOnce` says how far that can go: same conversation, one row.
- Preference extraction pairs a reply with the newest user row, which may be a
  queued prompt's (`engine_sink.rs:141-150`).
- A run that returns Err emits its error twice (AgentEnd and the run task), and
  the failure is recorded twice; a Stop is recorded as a failure.
- The parking of follow-ups depends on `running_sessions`, which only the legacy
  path fills.

## 5. Proofs

All theorems hold for every value of the constants that satisfies the module's
named assumption (`RegistryAssumption`, `EngineAssumption`, `SinkAssumption`,
`ChatAssumption`, `AutomationAssumption`, `TreeAssumption`): which run belongs to
which conversation or thread, that the sentinels are not members of the sets, that
bounds are numbers, and that the runs of an automation are finitely many.

`PendingRegistryProofs`
- `TypeCorrect`.
- `MapIsUnanswered` and `NobodyIsStranded`: `NoLeak` and `NobodyStranded`. The two
  are inductive together (`Registered`): an insertion over another waiter's entry keeps `NobodyStranded` only
  because that entry's owner is woken, and a release keeps `NoLeak` only because
  an entry stands under its owner's own key. One lemma per map operation
  (insert, deliver, leave); `StepShapes` reduces the actions to these.
- `NoDisplacement`: `NeverDisplaced`, from `NoLeak` and the fact that a ticket's
  id is one of its owner's (`AsksOwn`).
- `AsksEnd`: `EveryAskEnds`, under `TimersCanFire` (see "Liveness" below).

`PiEngineProofs`
- `TypeCorrect`, with a lemma for host, loop and task steps.
- `SlotAlwaysCoherent`: `AbortSlotCoherent`, Drop and SetModel included. Alone it
  is not inductive. The invariant `IInv` adds where runs belong (`Placement`),
  that generations of a session are distinct and at most `run_gen`, that a slot
  holds only runs of its own session, that the mutex is held by the run that
  streams, and that a Prompt is in the channel or in the loop's hands at most once
  and only while its run is `sent` or `creating` (`InChannel`, `InActor`) -
  without which a second delivery could start a run again.
- `Serialization`: if Drop is not among the host's operations, the engine
  implements `ConversationRuns`: initial states map to initial states, and every
  step to one of Submit, Reject, Begin, Finish or a stutter. Begin needs that all
  runs of a conversation share one session, hence one mutex; that is the part
  that Drop breaks.
- How far two findings go. `AStopAbortsTheNewest`: a Stop fires the abort of the
  newest prompt of the session that its conversation has, if that one is alive, and
  of nobody else. `AStopMissesOnlyBehindALater`: without Drop, a run in flight that
  is missed has a later prompt of its session behind it, which is what `stop_misses`
  shows; there is no other way. Both rest on `ServesOne` (a session is used by one
  conversation) and `NewestThere` (the number `run_gen` holds is some run's).
  `FirstCostIsRight`: without SetModel, the prompt that creates a session is
  reported under its model; a wrong one needs a later prompt or a switch.

`PiEngineToolProofs`, on top of `IInv`
- `NothingStaysPending`: `NothingPendingAfterRun`, for any ids. The invariant
  `Filed` adds that an entry is that of a call which waits on it and that a call
  under way belongs to a prompt that runs; a prompt ends only with no call under way.
- `RegistriesAreUsed`: `UsesRegistries`, the refinement of `PendingRegistry` by the
  gate and the plan tool and once more by the bridged tools. `ApprovalsMove` and
  `ResultsMove` reduce every step of the engine to what it does to either map.
- `ConsentIsNeeded` and `PlansAreAnswered`: `ToolNeedsAllow` and
  `PlanNeedsItsAnswer`, both for ids that tell calls apart (`Distinct`), as an answer
  carries an id and not a call, and the second with the gate off, as with it the two
  dialogs of the plan tool share an id. The invariant `Asked` says that an allow on
  its way to a call was given to a dialog of that call.
- `WaitsAreNeverLost`: whatever waits, waits for something that is there
  (`NoWaitIsLost`). A prompt that was accepted is in the channel or in the loop's
  hands (`Delivered`), who waits for a mutex - a prompt, or the loop for SetModel -
  finds it free or held by a run that executes, and a call with nothing in its
  inbox is on file in its registry (`ApprovalsOnFile`, `ResultsOnFile`). This is the
  safety half of `PromptsEnd`.
- `StopAlwaysEnds`: `StopEndsTheRun`, under `StoppedCanEnd`: with the abort fired no
  batch starts, so calls under way only become fewer, and the select takes the rest.
- `CallsAlwaysEnd`: under `CallsCanGoOn` every call that was started ends. A call goes
  through at most the gate, a dialog or a bridge of its own and an execution
  (`CallsAdvance`); each has a timer or returns.

`TurnSinkProofs`
- `TypeCorrect`. The buffers and the rows are sequences, so it rests on lemmas
  about what appending a block of entries or a row adds.
- `RepliesFiled` and `UsageOwn`: `RepliesAreFiled` and `UsageIsOwn`. The invariant
  `Book` adds that a turn that is not over has neither latched `completed` nor
  filed a row (`Latched`, `RowsAreOver`); without it a step that ends a turn could
  file a second one.
- `ActivityOnce`: `ActivityFiledOnce`. The invariant `Ledger` adds that an entry in
  a buffer belongs to that conversation, has been emitted and is in no row
  (`Buffered`), and that an entry in a row has been emitted (`Shown`); an event
  emits only entries that were not emitted before, so nothing shown comes back.
- `ToolsFiled`: `ToolsAreFiled`. The invariant `Buffer` adds that one turn of a
  conversation is under way (`OneAtATime`), and that what it has begun and got back
  is in the conversation's buffer in that order (`Noted`), behind whatever an earlier
  turn left there.

`ChatTurnsProofs`
- `TypeCorrect`.
- `TurnsAreReachable`: `Reachable`, with `Overlap` (two turns that are under way have
  met); without it the end of one turn could remove the entry of another that is
  claimed to be reachable.
- `CardsAreKept`: `CardsKept`. `Kept` adds that a card is in a queue only when the
  command that put it there is done, so no command adds a card to a queue that
  holds it.
- `StoppedTurnsAlwaysEnd`: `StoppedTurnsEnd`, under `StoppedCanGoOn`. A turn whose
  token fired is under way (`FiredUnderWay`), nobody's step moves it away from its
  end (`StoppedMoves`), and its own brings it nearer (`Nearer`, `StoppedGoesOn`).

`AutomationRunProofs`
- `TypeCorrect`. That a new session has a number left rests on counting: every
  session made has an owner, a run that used one, and a run that makes one has none.
- `TheOutcomeIsTold`: `OutcomeTold`. The invariant `Ledger` says of every place in
  the pipeline what the run's row, gate, escalation and requests may be (`Told`),
  answers and stops included.
- `AnswersAlwaysAgree`: `AnswersAgree`, which is inductive with the types. In
  the run `automation` a run asks at most once (`MaxAsks` = 1); that an answer to an
  earlier request of a batch leaves the row alone, and that a batch cut off by a crash
  leaves one request behind and not more, rests on this proof, for any number of them.
- `AStopHolds`: `StopHolds`, an action property, from the same invariant.
- `AllLinksAreLive`, `RunsOfAThreadSerialize`, `TheTranscriptIsKept`. The invariant
  `Uses` relates runs to sessions: a thread's session is the newest one made for it
  (`Threaded`), a session is used by runs of one thread or by one manual run
  (`Shared`), at most one run holds a thread's session that is alive (`Exclusive`),
  and a run that is past its persist step has its transcript (`Written`). Pruning is
  the step that disturbs them all.

`BucketSealProofs`
- `TypeCorrect`.
- `SealsAreOfWhatWasRead`: `SealsWhatItRead`. `Holds` says that a caller in the midst
  of its call holds the mutex, so that nobody else appends; `Reads` that the snapshot
  and the inputs are still what the tables hold, and that of the items of a level at
  least one is not deleted.
- `TreeAlwaysWhole` and `RootAlwaysAtTop`: `TreeIsWhole`, `RootAtTop`, together, from
  what the transaction of a seal does to buffers, parents, children and the tree row.
- `ImplementsLeafLog`: `LeavesAreHeld`, a refinement: a step appends one leaf or
  leaves the set of held leaves as it is; for a seal this needs that what it clears is
  what it read.
- `LeavesInOnePlace`: `LeafInOnePlace`, if no document lists a chunk twice
  (`DistinctChunks`: the id of a chunk is made of the document's key and the chunk's
  number). The invariant `Leaves` adds that a leaf in a caller's hands which was
  ingested once is in nobody else's and not yet in the tree (`Awaited`, `Single`),
  and that what is in the tree was ingested (`Origin`).
- `BuffersAreBounded`: `BuffersStaySmall`. The invariant `Sizes` says that a level
  whose gate is met and that no cascade is at exceeds it by at most the troubles
  there were, and one that a cascade is at by one item more. Leaving such a level
  without a seal takes a failure or a crash, which counts; that seals never refuse
  for want of inputs (`SealsWhatItRead`) is what excludes a third way.

- `TokensAreCounted`: `TokensCounted`. The property is a `MapThenSumSet`, a fold over a set.
  `SetSums` proves of any finite set what adding an element does to the sum of a
  function over it (`TotalAdd`); its induction is over families of subsets, because the
  library's theorems take an operator as a parameter. An append adds its tokens
  exactly if the leaf is new, a seal of level 0 empties both the buffer and the sum.
- `WorkRunsOut`: what is ahead of a call that holds the mutex, counted in steps
  (`Ahead`), is made of its leaves and `MaxDepth` alone; every step of its own lowers
  it, and nobody else's touches it. The safety half of `CallsReturn`: no buffer,
  however large, keeps a cascade going.

**Liveness.** The prover cannot compute `ENABLED`. The four liveness theorems
(`AsksEnd`, `StoppedTurnsAlwaysEnd`, `StopAlwaysEnds`, `CallsAlwaysEnd`) therefore have
one hypothesis each, `[]TimersCanFire`, `[]StoppedCanGoOn`, `[]StoppedCanEnd` or
`[]CallsCanGoOn`, which says of every state in question that the fair action can be
taken. Each is plain from the action - its guard is the state that the hypothesis
names and its other conjuncts assign variables - and TLC finds each true in every
state of the instances of section 3. What is proved from it and from fairness is
the rest: that the state stays until the action comes, that the action leads on,
that the ways on have an end, and the chain of leads-to steps that follows.

All safety and action properties and refinements of the passing runs are proved.
Only model-checked are three liveness properties: `PromptsEnd`, `CallsReturn` and
`RunsEnd`. Each needs an induction over a number that a constant
sets (places in the channel, runs before one in line for a mutex, leaves and levels,
approvals asked for); that is an induction over a temporal formula, which needs a
rule with an operator parameter. `WaitsAreNeverLost` and `WorkRunsOut` are what
safety contributes to two of them.

## 6. Plan

1. Done: `PendingRegistry`, `ConversationRuns`, `PiEngine`, `TurnSink`,
   `BucketSeal` over `LeafLog`, `AutomationRun`, `ChatTurns`, and the proofs above.
2. More of the system: the service manager with concurrent stop and restart; the
   assistant's and the user's rows of the default chat path, next to `TurnSink`; the
   granting of permissions by an approval; uninstalling a spec while it runs.
3. Every safety property that a run checks is proved. New modules take their proofs
   with them. What the proofs have left: a measure for the pipeline of an automation
   run, the safety half of `RunsEnd`; what the engine's theorems say of `TurnSink`,
   whose `Busy` takes `SerializesPrompts` for granted.
