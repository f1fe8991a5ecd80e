# A verification project for ziee

TLA+ models of ziee's server (`src/src-app/server`), the TLC runs that
model-check them on small instances, and theorems about them that TLAPS checks.
Line numbers below and in `PROJECT.json` refer to the sources under `src/`; all
paths without a prefix are relative to `src/src-app/server/src/modules/`.

How to run, in this directory: `tlc -config SchedulerLoops.cfg MCScheduler` checks
one run; `tlapm SchedulerProofs.tla` (likewise `SchedulerTaskProofs`, `SchedulerLoopProofs`, `SchedulerOrderProofs`, `ChatStreamProofs`,
`LocalRuntimeProofs`, `WorkflowRunProofs` and `BackgroundRunsProofs`) checks the proofs. `PROJECT.json` lists each run with its
module, its configuration and what it shows; `map` there leads from every
definition to the lines it models.

## 1. The system

ziee is a self-hosted assistant: a Rust server (axum, tokio, PostgreSQL) with a
web and a desktop client. A user chats with models (remote providers, or engines
the server runs itself); a turn may call tools over MCP, run workflows, search
files and delegate; tasks may be scheduled. The parts that hold state and run
concurrently:

| part | state | operations | talks to |
|---|---|---|---|
| scheduler (`scheduler/`) | rows of `scheduled_tasks`, `scheduled_task_runs`; the batch of the current sweep; spawned firings | create, update, delete, run-now, tick (claim, pause, advance), fire, write back, prune | chat turns, workflow engine, notifications |
| chat stream registry (`chat/stream/`) | connections per user, subscription of each, one replay buffer per turn in flight | register, unregister, begin/end generation, publish, subscribe | every producer of a turn; SSE bodies |
| chat turns (`chat/core/services`, `chat/agent_host`) | one detached consumer task and one generator task per turn; stop tokens | send, resume with approvals, stop | registry, providers, MCP, database |
| local model runtime (`llm_local_runtime/`) | instance rows, process table, in-flight counters, health windows | ensure running, start, stop, monitor, reap, drain | proxy, operating system |
| workflow engine (`workflow/`) | runs, steps, gates, artifacts | start, step, pause at a gate, resume, cancel, recover at boot | MCP, agents, models |
| agent loop (`agent-core/`) | transcript, tool calls in flight, delegation tree | step, tool dispatch, compaction, stop | hosts (chat, workflow) |
| background MCP (`background_mcp/`) | runs (rows of `workflow_runs`), run handles, results on their way to the conversation, run notes | spawn, drive, cancel, stop with the conversation, resume the chat, fail at boot | agent loop, sandbox, workflow repository and registry, chat turns |
| MCP client, approvals, elicitation (`mcp/`, `elicitation_mcp/`) | sessions, approval rows, waiting questions | call, approve, answer, time out | chat turns, workflow engine |
| files and RAG (`file/`, `file_rag/`) | files, versions, embedding queue | upload, process, embed, delete | models, database |
| model downloads (`llm_model/`) | download tasks, progress, cancel tokens | start, progress, cancel, resume | cancellation tracker |
| sync (`sync/`) | per-user subscribers | subscribe, publish | everything that changes a row |

`PROJECT.json` lists these and all other parts (memory, voice, sandbox, hub,
skills, connectors, authentication, desktop shell, front ends, build), each with a
reason when it is not modelled: CRUD without a protocol between requests, wire-format
conversion, operating-system calls, or a later item of the plan.

How they interact. The scheduler's tick loop, the REST handlers and the detached
tasks share the database and three process-wide tables: the chat stream registry,
the cancellation tracker and the local runtime's in-flight tables. A firing of a
prompt task and a user's message both go through `start_generation`, so they
compete for one slot per conversation; the firing then polls that slot
(`is_generating`) to learn that its turn is over. A stop request finds its turn by
the id of the assistant message. Nothing in memory survives a restart; rows do.

What is hard in it: a row that is read (claimed) in one statement and written in
another, with requests in between; a firing that works for fifteen minutes from a
snapshot of its row; two writers of one column in one firing; a slot claimed in a
request handler whose future may be dropped; a terminal frame that frees a slot
before the task that sent it is done; a mid-turn join with a bounded buffer and a
bounded queue; two keys for one turn (conversation and message). `hazards` in `PROJECT.json` lists
them at the line where they bite, each with the properties that would catch it.

### What makes each part correct

- Scheduler: an occurrence fires once; a due task is served; a loop is written back
  or disarmed, never dropped by accident, and ends at its horizon and turn cap; the
  failure cap pauses exactly at the cap; only a user enables a task; run-now leaves
  the schedule alone; a failure is never displayed as a completion.
- Registry: at most one turn per conversation, and a conversation is marked exactly
  while it has one; a connection that joins in mid-turn sees no gap and no
  duplicate; the caps count streams that exist; a removed connection ends.
- Turns: every turn ends and frees its conversation; a stop reaches the turn it names and
  ends it; what is announced as finished is in the database.
- Local runtime: no engine process is lost to the process table; one start at a time drives
  the single-flight cell; a finished drain kills under no request; every waiter gets an outcome.
- Workflow engine: a step whose output is saved is not redone although runs pause, resume
  and restart; a cancelled run stops; a terminal status is final; an answer reaches the run
  that waits; no run is left pending or running with nobody to finish it.
- Agent loop: every tool call has exactly one result in the transcript, also after a
  stop or a compaction; turn and depth limits hold.
- Background MCP: no twin of a run is started and no cap exceeded, however many calls are in the guard at once;
  a run does not outlive its conversation unseen; a task and its row agree on how it ended; every run ends and
  every result is delivered or given up.
- Approvals, elicitation: an answer is delivered once, to
  the turn that asked, and a wait ends by answer, timeout or cancel.
- Files, downloads: a file that is deleted while queued leaves no chunks; a
  cancelled download leaves no row that says it is running.

## 2. Modules

| module | models | proofs |
|---|---|---|
| `Scheduler.tla` (`MCScheduler.tla`) | `scheduler/` | `SchedulerProofs.tla`, `SchedulerTaskProofs.tla`, `SchedulerLoopProofs.tla` |
| `SchedulerOrder.tla` (`MCSchedulerOrder.tla`) | `Scheduler` with a history variable: who was served while another task waited | `SchedulerOrderProofs.tla` |
| `TurnLock.tla` | what `begin_generation` promises, abstractly | |
| `ChatStream.tla` (`MCChatStream.tla`) | `chat/stream/`, `start_generation` on both hosts, the generator, the stop tokens | `ChatStreamProofs.tla` |
| `LocalRuntime.tla` (`MCLocalRuntime.tla`) | `llm_local_runtime/`: `auto_start.rs`, `engine/health.rs`, `deployment/local.rs`, `handlers.rs`, `proxy_handlers.rs`, `reaper.rs`; the validation worker of `llm_model/` | `LocalRuntimeProofs.tla` |
| `WorkflowRun.tla` (`MCWorkflowRun.tla`) | `workflow/`: `runner.rs`, `dispatch.rs`, `registry.rs`, `handlers.rs`, the statements of `repository.rs` on a run, the boot sweep; the tool call of `workflow_mcp/` | `WorkflowRunProofs.tla` |
| `BackgroundRuns.tla` (`MCBackgroundRuns.tla`) | `background_mcp/`: `tools.rs`, `runs.rs`, `resume.rs`; `spawn_background_run`, the guarded insert, `mark_status` and the sweep of `workflow/`; the head of `agent-core`'s loop; `delete_conversation` | `BackgroundRunsProofs.tla` |

### Scheduler

`rows` is the table, `runs` the part of `scheduled_task_runs` that a goal-seeking task counts
its turns by, `tick` the tick loop (idle, or working off a batch), `firing` the
spawned `fire_task` calls with a program counter and the snapshot of the row each was claimed with,
`req` the REST requests between their checks and their statement. One database
statement is one step, because PostgreSQL makes it atomic; each `await` between two
statements is a point where others run. `Claim` is `claim_due_tasks`, whose row
locks end with its statement; `PauseInsteadOfFiring`, `AdvanceAndFire` and
`SkipTask` are the three ways one claimed task is handled in the sweep (pre-emptive
pause; advance and spawn; the statement failed). A firing goes through
`AfterDispatch`, a `Start...`/`Dispatch...` action, `TargetEnds`, `Record`, `InsertRun`, `DecideGoal` or
`DecideSelfPaced`, and `WriteBack`. `Crash` loses the tick, the firings and the
requests and keeps the tables. `hist` records what the properties need of a task's past (arms, shots, what users did) and decides nothing.

`SchedulerOrder` extends it by one more history variable: `overtakes[t][u]` counts how often `u` was claimed while `t` was due at the sweep's
clock and left in the table. It is reset when `t` is claimed or no longer due. `SpecO` is `Spec` with the count; every step of one is a step of the other.

Time is a counter. A cron expression is a constant function `NextCron` about which
only "strictly later, or never" is assumed, which is what `find_next_occurrence`
gives. Reply texts are a value of "says stop / proposes a delay" (`Proposals`), the
goal judge a choice.

### ChatStream and TurnLock

`conns` holds SSE streams and their registry entries, `slots` the replay buffers of
the turns in flight (a conversation is generating exactly when it has one), `turns`
the turns, each with the program counter of its handler and consumer task, and the
state of its generator and of the channel between them; `senders` is the table of
stop tokens; `puts` the subscription PUTs between their ownership check and
`set_subscription`. A registry call holds one mutex and is one step; so is a call of
the cancellation tracker. `Host` selects the legacy consumer or the agent-core host
(`ZIEE_CHAT_AGENT_CORE=1`).

What the model abstracts: frames are numbered (0 is `started`, then content, then the end), so that
gap and duplicate can be told; the buffer's byte cap is a cap in frames; the
generator's iterations with tool calls are a run of chunks; a connection's `seen` is what was
queued for it since its last change of subscription. `ConnGuard` is declared so that
it drops before the receiver (`chat/stream/handler.rs:139`), so an entry never
outlives its stream in the model; the sweeps of `register` are modelled all the same. Connection ids are
used once, as UUIDs are. `set_limits` runs once at boot: the caps are constants.

`TurnLock` is the abstract specification: a conversation is held by nobody or by one turn, is handed over only
through nobody, and no turn holds twice. `ChatStream` implements it under a
refinement mapping (`Holder`: the live turn of the conversation) with the legacy
host; with the agent-core host it does not (see "Further disagreements").

### LocalRuntime

One model. `row` is its row of `llm_runtime_instances`, `engines` the engine
processes (`sick`: loading or hanging, `up`: answers `/health`, `dead`), `proc` its
entry of `LocalDeployment::processes`, `cell` its entry of `IN_FLIGHT` and `cells`
the `OnceCell`s, `health` its machine in `HEALTH`, `draining` its instance flag.
`task` holds whatever runs at the time: a proxied request, the validation worker, the admin's start,
stop, restart and clear-failed, and the reaper's tick (one worker, one reaper; any number of handlers up to
`Tasks`). A task stops at every `await` between two uses of shared state.

| code | actions |
|---|---|
| `probe_liveness` | `ReadRow`, `CheckHealth`, `MarkCrashed` |
| `ensure_running` | `NoteCrash`, `CheckFailed`, `PersistFailed`, `Claim`, `GetOrInit`, `DropCell`, `Forget` |
| `do_start`, `LocalDeployment::start` | `StartEngine`, `StartRefused`, `SpawnEngine`, `InsertEngine`, `PollHealth`, `PollFails`, `PersistInstance`, `StartSucceeds`, `StartFails` |
| the proxy | `CheckFlag`, `Resolve`, `Forward`, `StreamEnds` |
| the admin's handlers, `LocalDeployment::stop` | `ReadForAdmin`, `CheckForAdmin`, `DeleteRow`, `CreateRow`, `ReadBack`, `SetRunning`, `UndoRow`, `StopRow`, `KillEngine`, `ClearFailed`, `ClearRow` |
| the reaper | `Monitor`, `Watch`, `NoteState`, `Candidates`, `Drain`, `Drained`, `DrainTimeout`, `MarkStopped`, `ClearTracking` |
| dropped futures, time, the outside | `Hangup`, `ValidationTimeout`, `EngineChanges`, `CrashExpires`, `Crash` |

`Crashed`, `StartedOk` and `Probed` are the health machine; the sliding window is the number of
crashes in it, and `CrashExpires` moves it. A task that drives a cell's closure `holds` it; when its
future is dropped (`Abandon`), the closure goes back to `new` for the next waiter and a child that was not
stored yet is killed (`kill_on_drop`). The row keeps only the three machine states that a restart
tells apart. The engine quota, ports, argv, logs and the catalogue of versions are a start that may fail.

### WorkflowRun

One run. `row` is its row of `workflow_runs`, `handle` the `RunHandle`s and
`current` the run's entry of `RUN_HANDLES`, `thread` the handlers and runners, `cancel` how far the cancel (or
the dropped tool call) is, `boot` how far the startup sweep is; `plan` is the
sorted list of its steps by how they ask: `work` (llm, map, tool, sandbox) does not,
`ask` is an elicit step with a timeout (its runner parks), `gate` one without (its
runner suspends), `agent` may ask for a review and suspend. A handler that starts a
runner goes on, in the model, as that runner; nothing of the handler is left but its reply.

| code | actions |
|---|---|
| `spawn_run`, `run_workflow` | `Spawn`, `Register`, `HandlerFails`, `Enter`, `MarkEnd`, `Leave`, `Park` |
| `run_inner` | `SkipStep`, `BeginStep`, `SeeCancel`, `Arm`, `Preempt`, `Deadline`, `Work`, `Save`, `Check`, `Finish` |
| `ElicitDispatcher` | `Consult`, `ConsumeStatus`, `ConsumeResponse`, `Answer`, `PersistGate`, `Suspend`, `PersistAsk`, `AskAnswered`, `AskGivenUp` |
| `AgentDispatcher` and its human gate | `AgentEnter`, `AgentAsks`, `AgentSuspends`, `AgentStops`, `AgentLeave` |
| `submit_elicit`, `resume_run` | `Submit`, `SubmitHot`, `SubmitCold`, `StoreResponse`, `ResumeCheck`, `ResumeRead`, `ResumePromote` |
| cancel, delete, subscribe | `CancelRow`, `CancelSignal`, `DropSignal`, `DropRow`, `DeleteRun`, `DeleteWorkflow`, `Subscribe`, `Reap` |
| boot | `Crash`, `SweepSpare`, `SweepFail`, `SweepRedrive`, `SweepDies` |

`Lossy` is a write whose error the code ignores (`let _ =`, or a warning), `mark_running` at `Enter` among them: it
happens, or it uses up one of `MaxMishaps`. A failed read of the consumed answer (`NoAnswer`) fails the step. `DeleteRun` takes rows whose status is
terminal, `DeleteWorkflow` those of any status, by the cascade from the workflow's row: a run at work then goes on without a row. `Arm` stands between the test of the cancel flag and the
`notified().await` of `await_cancel`: a cancel in that window wakes nobody, and `Preempt` needs a
waiter that was woken. `Reap` needs a handle that is older than its runner, which takes a subscriber or
a suspension. Outputs are the set of steps that have one; step contents, templates, caps and artifacts are a step
that completes or fails. `raced` says that two resumes overlapped or that a live runner lost
its handle: what holds only without these says so.

### BackgroundRuns

`spawn_background` lets a chat turn leave work behind: a sub-agent or a sandbox command. `task` is each call and then
the task it spawns, `rows` the runs in `workflow_runs`, `handles` their entries of `RUN_HANDLES`,
`resumes` the delivery of each result, `cancels` and `deletes` the handlers of a cancel and of a conversation's
deletion, `busy` and `gone` what the chat side shows of a conversation (a turn is in flight; deleted), `sweep`
whether the startup sweep is still to come.

| code | actions |
|---|---|
| `spawn_background`, `insert_background_run_guarded`, `spawn_background_run` | `Call`, `Lock`, `Guard`, `Insert`, `Register`, `MarkRunning`, `HandlerFails` |
| `execute_subagent_run`, `AgentCore::run` | `Boundary`, `Round`, `Mark` |
| `execute_sandbox_run` | `Exec`, `Mark` |
| the spawned task of either | `TaskPanics` |
| `await_cancel`, the bridge to the `CancelToken` | `Test`, `Listen` |
| `resume_conversation_with_result` | `Resume`, among `TurnBegins`, `TurnEnds` |
| `cancel_background_run` | `CancelCas`, `CancelSignal`, `CancelFails` |
| `delete_conversation` | `DeleteList`, `DeleteCas`, `DeleteSignal`, `DeleteRow`, `DeleteFails` |
| restart, the boot sweep, time | `Crash`, `Sweep`, `Age` |

Steps that nobody can tell apart are one: the dedup and the count (under the advisory lock the runs they find can only end in
between), the terminal `mark_status` and `unregister` (the driver, the only reader of the handle, is over), the last
idle check of a resume and its claim of the slot (when a turn comes in between, the claim is refused like a busy conversation). A round of the
sub-agent's loop is a model call with its tools: it answers, fails, is cancelled or goes on.

A row keeps, besides status and conversation, four facts that the code derives from its timestamps or that the properties need:
`recent` (`updated_at` is within the dedup window; `Age` ends it), `old` (created before the sweep's cutoff), `missed` (inserted
after the deletion in progress had listed the runs, or its cancel failed) and `lost` (the write of its terminal status failed, its
handler was dropped before the task was spawned, or its task panicked: only a restart ends it). The loop of a sub-agent is also left when an extension
short-circuits in `before_model`; none of those that a background run is built with does, so `Boundary` has no such way out.

## 3. Runs

Bounds are the constants marked "bound" in each module and are set in each `.cfg`.
Deadlock is not an error in any run: the systems really may stop (no due task, no
user, no more turns, ids or handles under the bounds).

### Passing

| run | what it shows | why its bounds are enough |
|---|---|---|
| `sched_loops` | a self-paced loop is held from disarm to write-back, ends at its horizon and turn cap, is not claimed again while its turn runs | one task, two overlapping firings, a PUT or run-now in the middle, clock to 3 with horizon 2, retention 1 so that the prune overtakes a slow turn |
| `sched_edits` | one firing per arming and per cron match; only users enable; exact failure cap | tasks of every kind that a PUT may switch, a chat or a deletion in their conversation, two firings, cap 2, one crash or lost statement |
| `sched_fair` | a due task is overtaken by each other task at most once, so no due task starves; every firing ends | two recurring tasks that are due again at every instant compete for a batch of one; the clock goes to 2, so that a task that was re-armed is claimed again ahead of the other if the order lets it |
| `chat_turns` | one turn per conversation (also as refinement), marked exactly while live, stop tokens, saved before announced; a stop ends its turn, a turn ends after its generator | the legacy host; two turns that may share one message, stops, hang-ups, panics at every place, late extension events |
| `chat_join` | catch-up without gap or duplicate; queues and buffers within their caps | the legacy host; two turns in two conversations of one user, a PUT that moves the subscription between them at every place, a buffer of one frame (evicts), a queue of three (overflows) |
| `chat_agent` | a removed stream ends | the agent-core host; two turns, stops, hang-ups and panics at every place; a queue of two that overflows |
| `runtime` | no engine is lost, a finished drain kills under no request, one holder per cell | two tasks of every kind, two engines (one in use, one replacing it), spawns and writes that fail, proxied requests that hang up, a restart, a breaker that trips on the second crash |
| `runtime_ends` | every request and every stop ends | two requests that share a cell while either may hang up, or a request and a stop; the first crash trips the breaker |
| `workflow` | terminal is final, a cancel is seen, one runner, no saved step redone, an answer finds its slot, a waiting run has its question, no run abandoned | two threads (a runner beside a handler, or two resumes), three handles, two questions, plans that gate, ask and run an agent in one run, one mishap |
| `workflow_ends` | every runner ends, a run settles | one thread, two mishaps: a restart and a failing write, or two restarts |
| `background` | no twin, no cap exceeded, none outlives its conversation unseen, task and row agree, everything settles | two calls in one conversation, of one spec or two, of a sub-agent or a command, that have read caps of one or two; two steps; one dropped handler, failing write or restart |

The type invariants are proved for all constants (section 4); a run checks `TypeOK` only where its bounds say something, the
queue and buffer sizes of `chat_join`.

Where the code fails a property, the property is restricted, and the restriction is
visible: `SlotFollowsTurns` excepts senders that went away during set-up,
`StopReachesTurn` is about turns that created their message, the lock, token and catch-up properties are
checked on the legacy host, `OvertakenOnce` excepts tasks that a user re-armed (a PUT or a resume may set `next_run_at` back) and lost statements, `GoalTurnsBounded` counts pruned rows as slack, it and `LoopIsHeld` except tasks that
a PUT made a loop of (`switched`), `OneRunner` and what rests on it excepts `raced`,
`NotAbandoned` and `WaitingHasQuestion` except writes that failed. The violation run and the disagreements below say why these are needed.

### Failing on purpose

Each states what a comment or an API text of the repository says, and TLC finds a
behaviour of the code that contradicts it; `findings` in `PROJECT.json` quotes the line.

| run | disagreement |
|---|---|
| `workflow_double_resume` | two submits of one suspended question (a double click) both pass the test of `runner_resident` and start two runners; `runner.rs:1584` says the resume is idempotent (`workflow/runner.rs:1594`) |

Further disagreements between comments and code that the models reproduce, without a run of their own.

Scheduler and chat:

- `scheduler/tick.rs:274`: one transient failure stops a self-paced task for good: enabled, and no next fire (`LoopIsHeld` excepts a failed turn).
- A recurring task that a PUT turns into a loop while a firing of its is in flight is left to that firing, which knows nothing of
  a loop: when the loop's own first turn fails and the old firing succeeds after it, the task is enabled, has no next fire, and
  says success (`Update`, `WriteBack`; `LoopIsHeld` excepts it).
- `scheduler/tick.rs:55` and `:73`: a task whose conversation is deleted after a failure is not paused before it fires (`PauseInsteadOfFiring`).
- `chat/stream/registry.rs:205`: a sender that goes away during set-up (`chat/core/services/streaming.rs:935`) leaves the conversation taken for ever
  (`SlotFollowsTurns` says that nothing else does).
- `chat/core/handlers/streaming.rs:183`: a resumed turn loses its stop token to its predecessor's clean-up
  (`chat/core/services/streaming.rs:1094`; `StopReachesTurn` is about turns that created their message).
- `chat/stream/registry.rs:199`: the agent-core host frees the slot twice, at the terminal frame and at its clean-up (`chat/agent_host/dispatcher.rs:621`).
  By then the slot can be the next turn's. Its conversation is no longer marked while the turn is live, a third turn can be admitted beside it, and its
  buffer is gone: who joins gets neither `started` nor what followed. So `registry.rs:239-243` (no gap, no duplicate) and `:205` (one turn) hold on the legacy host
  only. Two turns show it: `chat_join` with `Host = "agent_core"` ends in a violation of `CaughtUp` after 15 steps (turn 1 publishes its end, turn 2 begins, turn 1
  cleans up, turn 2 starts, a client subscribes).
- `scheduler/failure.rs:64-66` says a 409 must not count toward auto-pause; it is recorded as a
  failure like any other (`Record`).
- `scheduler/failure.rs:73-74` says the compared count is the post-increment value; it is the
  snapshot's count plus one, so overlapping failures can reach the cap without a
  pause (`PauseReason`; `CapIsExact` excepts overlapping firings).
- `scheduler/handlers.rs:474-477` says run-now leaves the schedule alone; for a goal-seeking
  task the write-back re-arms or disables it (`AfterDispatch`, `WritesBack`).
- `scheduler/goal_eval.rs:11-14` says the turn cap bounds a goal-seeking loop; the turns are
  counted by rows that the retention prune deletes (`Prune`, `DecideGoal`).
- `chat/agent_host/dispatcher.rs:475`: the agent-core task has no guard against a panic; its conversation stays taken (`Panic`).
- `chat/core/handlers/streaming.rs:204-206` says a stopped turn ends with `finishReason: cancelled`; the stop poll is
  a timer that every chunk restarts, so that a stop answered 204 is not noticed while chunks keep coming (`Cancel`).
- `chat/core/services/streaming.rs:1096-1098`: a cancelled turn is announced before its generator has saved
  the partial reply (`Cancel`, `Cleanup`, `GenChunk`).
- `chat/core/services/streaming.rs:923`: the generator of a cancelled turn may still run when the
  next turn starts its own (`Deaf`, `GenFails`).
- `chat/stream/handler.rs:224`: two subscription PUTs in flight apply in either order (`PutCheck`, `PutApply`).

Local runtime (under `llm_local_runtime/`):

- `handlers.rs:31-39` lets an admin start a model whose engine has crashed; the dead child is never taken out of
  `processes`, so the start answers 409 until somebody stops the model (`deployment/local.rs:927`; `StartEngine`). An automatic
  start fails in the same way, and every such failure counts as a crash (`StartFails`).
- `auto_start.rs:399`: the backoff is reported to one caller and not enforced on the next (`NoteCrash`).
- `engine/health.rs`: `RestartAttempt` and `AdminStop` are sent by tests only, so the cap on restart attempts is never reached.
- `engine/health.rs:189`: the breaker trips on the sixth crash of the window, the documentation says five (`Crashed`).
- `engine/health.rs:372`: after clear-failed, or when a row that says stopped is restored, the machine is
  in `Stopped`, which ignores every event: the breaker is off until the model is forgotten (`ClearFailed`, `Known`).
- `auto_start.rs:457`: every waiter removes whatever cell the model has by then, which may be a later start's (`DropCell`).
- A hang-up in mid-start, or a failed `persist_instance`, leaves an engine in the process map without a row (`Hangup`, `PersistInstance`).
- `proxy_handlers.rs:290-297` and `reaper.rs:255-260`: the guard that the drain waits for is dropped with the handler's
  response, before its body has been streamed: a drain cuts streams (`InFlight`; `DrainSparesRequests` is about guards).
- `reaper.rs:212`: the late UPDATE of a health probe overwrites a `failed` row (`NoteState`).
- The validation worker stops the engine of its model although requests may be in flight on it (`Serve`, `KillEngine`).
- `deployment/local.rs:947`: the quota is read, then the engine is spawned; two models may exceed it together.

Workflow engine (under `workflow/`):

- `dispatch.rs:1491-1497` says a submit cannot meet a missing slot; while a gate suspends, its runner is still resident and the
  answer is refused with 410 (`PersistGate`, `SubmitHot`).
- A handler that fails or hangs up after `register` leaves a handle that says it has a runner: answers get 410 until a
  reap or a restart; when it was `spawn_run`, the row stays `pending` as well (`HandlerFails`).
- `startup_sweep.rs:121-122` says a run whose resume fails stays parked; it is promoted from `resumable` to `running` before
  its workflow is loaded (`ResumePromote`).
- `mod.rs:98-101`: a waiting run of before the boot that is resumed while the sweep runs is failed by it (`SweepFail`).
- `registry.rs:102-110`: `await_cancel` tests the flag before it listens; a cancel in between is lost until the step ends (`Arm`).
- A cold answer is acknowledged and erased before its step has used it; a crash in between asks again (`ConsumeResponse`).
- A hot answer is acknowledged, and the parked runner may still take the timeout or the cancel (`AskGivenUp`).
- `registry.rs:312-345`: `reap_stale` measures a handle's age from its creation, so the handle of a run that was suspended for
  long is removed while its resumed runner works (`Reap`).
- A run that was cancelled, deleted and whose signal was missed goes on to its end (`Check` finds no row).
- `handlers/mod.rs:170-206`: deleting a workflow removes the rows of its runs by cascade, whatever their status, and signals none of them;
  a run at work goes on to its end (`DeleteWorkflow`).
- Errors of `persist_step_meta` are ignored: a resume redoes the step (`Save`; `SavedStepIsNotRedone` is about saved outputs).
- A resumed agent run stays `waiting`; a later question of it clears the record, and after a crash nobody can answer (`WaitingHasQuestion` excepts `asked`).
- The wall-clock deadline leaves `pending_elicitation_json` in the row (`Deadline`).
- A subscriber that registers after the terminal broadcast gets a new handle that no runner will close (`Subscribe`).
- `runner.rs:581-584` says a suspended run unregisters; its handle stays (`Park`).

Background runs (under `background_mcp/` unless named):

- `workflow/runner.rs:1488-1489` says that a driver whose run is cancelled early sees it by its handle; a cancel between the insert
  and `register` finds no handle, and one that meets `await_cancel` between its test and its wait wakes nobody
  (`CancelSignal`, `Test`, `Listen`): the task works to its own end under a row that says cancelled.
- `chat/core/handlers/conversations.rs:241-247` says that without the teardown runs would survive detached; with it, a run inserted
  after the teardown has listed the runs still does (`missed`; `DeletedIsStopped` excepts it).
- `resume.rs:4-6` says the resume follows the terminal `Completed`, and `:14` that the run is already completed; the resume is spawned
  (`tools.rs:928`) before `mark_status`, and for a run that was cancelled meanwhile too (`End`).
- `workflow/repository.rs:629-636` says that keying the dedup on `updated_at` closes the loop of result and identical re-spawn; a
  resume may wait as long (300 s, `resume.rs:41`) as the dedup window (`tools.rs:50`), so the re-spawn can come after it (`Resume`, `Age`).
- A handler that fails or is dropped after `register` leaves an active row without a task, which counts for the cap and the dedup until a
  restart, and its handle (`HandlerFails`).
- `workflow/runner.rs:1496`: nothing catches a panic of the spawned task; its row stays active, and its handle registered, until a restart (`TaskPanics`).
- `set_final_output` writes the result of a run whatever its row says; a cancelled row may carry one (`Mark`).
- A sub-agent that stops at one of its caps is recorded as completed (`Round`).
- `workflow/repository.rs:2188-2190` says at most eight notes stay pending; two posts at once trim, then insert, and leave nine. A note
  posted after a sub-agent's last boundary, or to a command, is read by nobody. (Notes are not modelled.)

### Fairness

- Scheduler (`FairSpec`): the tick loop never ends and handles what it claimed; a spawned firing
  takes its next step; a turn ends (its provider ends or times out). Nothing is assumed of users, of crashes
  (a bounded number) or of statements failing. tokio runs every task that can run.
- ChatStream (`FairSpec`): handlers answer, the spawned consumer runs, a generator whose
  provider has ended sends its last chunk, a connected client reads. Users, senders and
  the provider may stop at any point: a silent provider is dropped by its client only after ten
  minutes and one that keeps sending never, so `GeneratorEndsTurn` starts from a generator that has ended, and `StopEndsTurn` is what a user
  can do about one that has not.
- LocalRuntime (`Spec`): weak fairness of every task's next step: handlers, the worker and the reaper are polled, every
  wait has a deadline (`/health`, drain, validation). Strong fairness of `GetOrInit`: the semaphore of a `OnceCell`
  is a queue, so a waiter is not passed over for ever by others that take over the closure and are dropped.
  A streamed body is assumed to end; nothing is assumed of engines, which may stay sick.
- BackgroundRuns (`FairSpec`): weak fairness of each handler's and driver's next step (a command has a
  timeout, and a model's stream that is silent for ten minutes is dropped, `ai-providers/src/providers/mod.rs:47`), of
  each `Resume` (its wait has a deadline) and of the sweep, which the boot spawns. Nothing is assumed of users, turns, the clock,
  or of the waiter on a handle: runs settle even when every cancel is missed. Mishaps are bounded.
- WorkflowRun (`Live`): weak fairness of every thread's next step and of the sweep: tokio runs spawned tasks, and a step ends
  by its own result, its timeout or the deadline of the run. Nothing is assumed of users, cancels or restarts (a bounded number).

## 4. Proofs

`SchedulerProofs.tla` proves, for every number of tasks, firings and requests, every cron function that satisfies
`CronAssumption` and all settings that satisfy `NumbersAssumption` and `DomainAssumption` (a shortest wait above zero: the table admits 60 to 86400 seconds):

- `SchedulerType`: `Spec => []TypeOK`. One lemma per statement (`MarkFiredType`, `ArmType`, ...)
  gives the type of the row it writes, one per action that the action keeps the type.
- `SchedulerPausedIsDisabled`: a row with a pause reason is disabled. Inductive with `TypeOK`:
  each statement that sets a reason also disables, and each that enables clears it (`StatementsAreCoherent`).
- `SchedulerEveryShotWasArmed`: no arming of `next_run_at` fires twice. It is not inductive: a task may be in the
  batch of the sweep, or still have a `next_run_at`, and each of these may become a shot. The invariant
  `ShotsInv` strengthens it with `BatchIsDistinct` (a batch names each task once, which follows from the claim's
  `WHERE` over primary keys) and `ArmsCoverShots` (an arming that has not been used is left for whatever may still fire).
- `SchedulerOnlyUsersEnable`: every step that turns a row on is a user's insert or update.

`SchedulerTaskProofs.tla` looks at the scheduler from one task. `TaskStep(t)` lists what a step can be for `t`: nothing (`Rests`), a claim
(`IsClaimed`), a shot, one statement of one of its firings, an edit, a deletion, a prune, a crash; one lemma per action shows that it is one of
these. `Base` is the common ground: `ShotsInv`; the history of unborn tasks is empty (`NamesInv`); what requests will write is valid
(`RequestsInv`); a firing past its decision holds what it decided (`FiringsInv`); the sweep's clock is in the past (`SweepInPast`).

`SchedulerLoopProofs.tla` proves six properties, each by an invariant that speaks of one task and is kept by every `TaskStep`. All rest on
`SnapsInv`: what a batch entry or a firing remembers of its row agrees with the row on `created_at`, on being goal-seeking and,
unless a PUT switched it, on the kind of schedule.

- `SchedulerTurnIsNotReclaimed`: not inductive, since one more claim would be enough. `LoopOf` adds why there is none: an armed loop has no scheduled firing.
- `SchedulerLoopEndsAtHorizon`: the clamp uses the `created_at` of the snapshot; `SnapsInv` makes it the row's.
- `SchedulerLoopIsHeld`: "a firing is in flight" is too weak, because that firing may be past its write-back. `HeldOf` asks for one that is still to decide (`Deciding`).
- `SchedulerCapIsExact`: the count that a firing compares is its snapshot's plus one. `SoloOf` (no overlap: one firing or one entry at a time) gives
  that snapshot and row agree until the firing records its outcome, and `CapOf` carries the agreement through the statements in between.
- `SchedulerOncePerOccurrence`: shots are bounded by the matches passed before `next_run_at`, not before now; a claim moves the row past the sweep's
  clock, so the set of matches passed grows by at least one with each shot (`OccasionsOf`, by cardinality).
- `SchedulerGoalTurnsBounded`: what `count_scheduled_runs_for_task` will find is bounded from both sides: turns logged, pruned or lost to a fault, plus firings that have still to log theirs,
  are at least the shots (`Counted`); a firing arms the loop only when its count was below the cap.

`SchedulerOrderProofs.tla` proves `SchedulerOvertakenOnce`: `SpecO => []OvertakenOnce`. That a count is at most one is not inductive. `OvertakeOf` adds, for a pair whose
count is one, that the task that waits still does and that the other is `Behind` its instant: whatever may arm that one again (its row, the
sweep that holds it, the write-back of a loop's turn in flight) does so later. A claim in order then cannot take it first. It rests on `LoopsInv` (a claimed loop has no
turn in flight that could arm it earlier) and on `FiringsInv` (a decision to fire again is later than the firing).

`ChatStreamProofs.tla` proves, for every number of connections, users, conversations, turns and subscription
PUTs and all sizes that satisfy `SizesAssumption` and `NamesAssumption`:

- `ChatStreamType`: `Spec => []TypeOK`, on both hosts. `TypeInv` adds that a turn that has begun has a
  conversation, which indexes `slots` and `last`. `PushType` and `SubscribeType` carry the two caps.
- `ChatOneTurnPerConversation`, `ChatSlotFollowsTurns`, with `Host = "legacy"`. None is
  inductive alone: freeing a conversation is safe only because nobody else lives in it, and taking one
  only because whoever lives has it marked. `LockInv` is their conjunction, pointwise. `LockStep` says that any
  step leaves the lock alone (`Keeps`), takes a free conversation (`Takes`) or ends a turn (`Frees`); that
  `LockInv` survives these three is then a short argument.
- `ChatImplementsTurnLock`, with `Host = "legacy"`: `Spec => ImplementsTurnLock`. `Keeps` maps to a stutter,
  `Takes` to `Acquire`, `Frees` (a terminal frame, a failed or a dropped set-up) to `Release`.
- `ChatStopReachesTurn`, `ChatNoStaleToken`, with `Host = "legacy"`. `MessagesInv` is what makes them hold: by the time another
  turn resumes a message, the turn that created it is over (the resumer holds their conversation), so that no
  `create_token` and no clean-up under the same key can hit it.
- `ChatCompletedIsSaved`: finalize, the terminal chunk, the terminal frame, in this order (`SavedInv`).
- `ChatCaughtUp`, with `Host = "legacy"`. `JoinInv` says what a subscriber's frames and a buffer's have in common: both are the turn's
  content, consecutive and up to the last frame published, and the subscriber's begin no later (`Joined`, `Holds`). That started is the first frame of its turn
  at every subscriber needs that nobody saw anything of a turn before it runs (`FreshInv`); that a replay is of the right turn, that a buffer that holds anything
  is the running turn's (`BufferInv`, with `LockInv`); that a delivery reaches every subscriber of the conversation although it goes to its owner's connections,
  that a subscriber is the owner (`OwnInv`). Eviction only shortens the buffer from its old end, and a full queue ends the connection's entry.
- `ChatScopeIsOwn`, on both hosts: the last of these, `OwnInv`, by itself. It includes the PUTs in flight, because `set_subscription` checks nothing again.
- `ChatListedAreOpen`, `ChatRefusedOnlyWhenFull`, on both hosts. `CapsInv` adds that finitely many streams are open, without which
  cardinalities mean nothing; `NotOpenIsCalm` says that nothing but `register` lists, opens or refuses.

The lock, token and catch-up theorems need `Host = "legacy"`: the agent-core host releases the slot a second time after the terminal
frame (see "Further disagreements"). With two turns that leaves a live turn unmarked and without its buffer there, with three it lets two turns live in one conversation.

`LocalRuntimeProofs.tla` proves, for every number of tasks and engines, every set of `Kinds` and of hang-ups,
every `FlapMax` (`KindsAssumption`, `NamesAssumption`, `BoundsAssumption`):

- `RuntimeType`: `Spec => []TypeOK`; most steps only move their own task (`Moves`), and the others have a lemma each.
- `RuntimeEnginesAreTracked`: an engine comes to life only in the hands of its task and is stored or killed by whatever ends that task;
  an entry that is overwritten or removed takes its process with it.
- `RuntimeOneHolderPerCell`: `HoldInv` adds that a driver's cell is `busy` (only a `new` one is taken), and that nobody uses the name of a
  cell whose creator has not claimed it (`Fresh`), so that a new cell hits no driver of an old one.
- `RuntimeDrainSparesRequests`: the reaper comes to its stop through `Drained` alone, when no request is in flight, and while the flag
  stands a new one stops at it (`NobodyFlies`); that nobody else drains meanwhile needs `OneReaper`.

`WorkflowRunProofs.tla` proves, for every number of threads, handles and questions, all plans over `Kinds` and any number of
mishaps (`PlansAssumption`, `BoundsAssumption`):

- `WorkflowType`. `TypeInv` adds what the types rest on: a thread that works on a step has one within the plan, one that
  ends has an outcome (`Sane`).
- `WorkflowTerminalIsFinal`: each statement respects a terminal status (`Respects`): guarded updates leave it, the others keep the status column.
- `WorkflowCancelIsSeen`: a late thread of a cancelled run reaches the loop's head again only through `Check`, whose read must have failed;
  `LateInv` adds that the row of a late thread stays cancelled or is deleted.
- `WorkflowNotAbandoned`: `OwnedInv` strengthens "somebody answers for the run" with which owners may still lose it: whoever leaves has
  written a terminal or waiting status first, or used up a fault.
- `WorkflowOneRunner`, `WorkflowSavedStepIsNotRedone`, `WorkflowSlotBeforeRecord`: none is inductive alone. `RaceInv` is their common
  strengthening while `raced` is false: at most one thread is active, from the row or the resume's check to the runner's end (`Alone`; `Beginning` is about the row's creation);
  its handle is the run's, marked as having a runner, its `done` covers the saved outputs, and its open question is in the slot or answered (`Seat`).
- `WorkflowWaitingHasQuestion`: a row may lose its question only to a runner that has marked it running again, which is a matter of which steps that runner has behind it. `WaitInv` adds
  to `RaceInv` that a waiting row waits at a gate whose step is the first that is not saved and whose question is in the row (`Question`), and that what a thread takes for done
  is what is saved, none of it past the question (`Calm`, `Standing`): the only step a resumed runner can reach first is the one asked about.

`BackgroundRunsProofs.tla` proves, for every number of runs and conversations, all specs and caps, and any number of
mishaps (`NamesAssumption`, `SizesAssumption`):

- `BackgroundType`: `TypeInv` adds to the types that a call that has begun has a conversation, that a task about to
  record its end has an outcome, and that only such a call's result is on its way; its named parts are what each action's lemma cites.
- `BackgroundDriverAgreesWithRow`: `AgreeInv` strengthens it with the row of a run before its task starts, and with `Heard`: whoever is about
  to signal, and whatever flag is set, has a cancelled row behind it. That no sweep ends a driven run rests on `old` rows having no task.
- `BackgroundNoRespawn`, `BackgroundCapHolds`: what `Guard` has found, no twin and room below the cap, still holds at `Insert`
  (`RoomInv`), because the advisory lock has one holder per conversation (`LockInv`) and every other step is calm: no run of the conversation becomes
  active or recent by it. Counting needs finitely many active runs (`FewInv`), since `Runs` may be infinite.
- `BackgroundDeletedIsStopped`: while a deletion is under way, each active run of its conversation is still to be cancelled or was missed
  (`SeenInv`); the row goes when none is left to be cancelled.

Only model-checked: the liveness properties (`DueIsServed`, `FiringEnds`, `StopEndsTurn`, `GeneratorEndsTurn`, `RemovedStreamEnds`, `TaskEnds`, `RunnerEnds`, both
`RunSettles`), since fairness and ENABLED are out of the prover's reach. Every safety invariant and action property that a passing run
checks is also proved; the chat ones that need it with `Host = "legacy"`.

## 5. Plan

In order of importance; each module with `MC` module, runs, mutants, then proofs.

1. `Scheduler` and `SchedulerOrder` with their four modules of proofs: done. Left: the continue-chat endpoint; change detection of results (`change.rs`).
2. `TurnLock`, `ChatStream`: done, with `ChatStreamProofs`. Left: the generator's tool iterations (item 6).
3. `LocalRuntime`: done, with its proofs. Left: several models under one quota; ports; the remote deployment.
4. `ScheduledTurns`, composing `Scheduler` with `ChatStream` over the shared slot: a firing's view of "its turn is over".
5. `WorkflowRun`: done, with its proofs. Left: an abstract specification "each step's effect at most once" of `raced`-free runs;
   artifacts, nested workflows, the dry run and the test runner.
6. `AgentTurn`: the loop of `agent-core` with tool calls, approvals and compaction; abstract specification "every call
   is answered once".
7. `BackgroundRuns`: done, with its proofs. Left: run notes, notifications of ended runs, spawns without a
   conversation, the shared slot (`busy`) as `TurnLock` has it.
8. `Approvals` and elicitation: waits with answer, timeout and cancel.
9. `FileQueue`: the embedding queue against deletion and new versions.
10. `Downloads`: progress, cancel, restart.

## 6. Not modelled

Content of messages, prompts and tool results; wire formats; authentication and permission
checks beyond ownership; the web client except as the source of subscribe, send and
stop; several server processes on one database (ziee runs as one). Of the local runtime: versions and downloads of engines,
logs, remote deployments, the quota across models. Of the workflow engine: validation and compilation of
workflow files, import, sharing, the content of steps. Of background runs: notes, notifications, the heartbeat, the polling of
status by a turn, what a sub-agent's tools do. The
components that have no module are listed with the reason in `PROJECT.json`.
