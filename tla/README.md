# Verification of the dynamic-workflow engine

TLA+ models of `hermes_dynamic_workflows`, a plugin that runs a Python-like
workflow script whose `agent()` calls are carried out by child agents. The
models are written from the code; file and line references are to `src/`.

    tlc -workers 2 -config AgentExecutionSafety.cfg MCAgentExecution.tla
    tlapm AgentExecution_proofs.tla

## 1. The system

A workflow tool call launches a **run**. Its script executes in a thread of its
own; each `agent()` call it awaits is a thread again (`asyncio.to_thread`), and
each child agent is one more. A daemon thread (the control listener) carries out
what the dashboard, another process, asks for through files; the host's own
threads call `task_stop`.

    host tool call ── launch ──▶ run/manager ──▶ engine/runtime ──▶ engine/api  (agent, gate, parallel, ...)
    dashboard ─ storage/control ─▶    │                                │  ▲ on_child_update (frame lock)
    host task_stop ──────────────▶    │ stop event, pause gate         ▼  │
                                      ├──────────────▶ engine/context (admission, budget, slots, deadline)
                                      ▼                                ▼
                                storage/store ◀── saves          child/runner ── child threads, worktrees
                                      ▲                                │
    dashboard reads files ────────────┘                                └─ structured_output, hooks

| Component | State it keeps | Operations | What must be right |
|---|---|---|---|
| Run context `engine/context.py` | agent count, tokens spent, semaphore, pause gate, stop event, deadline, loop ticks | `reserve_agent`, `record_tokens`, `agent_slot`, `check_runtime`, pause/resume, `tick_loop` | cap and slots exact under concurrency; a stop or a deadline reaches every waiting thread |
| `agent()` calls `engine/api.py` | AgentRecords, frame lock, phases | `agent`, `gate`, `parallel`, `map`, `pipeline`, `workflow`, `phase`, `log` | a record resolves once; cached exactly when it is done; a halt releases what was held |
| Child runner `child/runner.py` | active children, skip marks, leases, approval lock | `run`, register, timeout, grace, `interrupt_all`, `skip_child`, close | a skip that was acknowledged wins unless a later one takes it back; resources go back |
| Resume cache `engine/cache.py` | results of the resumed run, results of this run | `get`, `put`, `from_run`, `to_run` | each result is handed out once; the next resume finds exactly the done calls |
| Run manager `run/manager.py` | `_runs`, record and lock of each run | launch, run thread, `stop`, `stop_task`, `pause`, `resume`, `restart`, `skip_agent`, resume-from | records tell the truth; final statuses stay; no run beside its successor |
| Run store `storage/store.py` | record files, version file | `save_run`, `load_run`, `list_runs`, `_bump_version` | atomic replace; the version moves when a record does |
| Workflow runtime `engine/runtime.py` | frames | `run_workflow`, nested `workflow()` | a halt ends the run; errors of a script become its result |
| Control queue `storage/control.py` | request and response files | `request`, `process_once`, expiry | a request is answered; what was done twice did no harm |
| Structured output `child/structured_output.py` | expectations, attempts, captures; the registered tool's use count | `expect`, `submit`, `clear`, scopes | attempts bounded; the tool lives as long as one scope does |
| Worktrees `child/worktree.py` | git worktrees, leases | create, cleanup | never removes a tree with work that git shows |
| Transcript exporter `run/transcripts.py` | read positions, transcript files | snapshot, incremental read, rebuild, final flush | no message lost or doubled |
| Replay `run/replay.py`, gate checks `engine/gate_logic.py` | none | pure functions | |
| Cache store `storage/cache_store.py` | cached entries with an age | `get`, `put`, `_cleanup` | an entry that was just written is not removed |
| Command gate `adapters/hooks.py` | child observers, approval policy | `pre_tool_call_handler`, `evaluate_command_gate` | decision follows the policy |
| Fingerprints, sandbox, core types, config, schema, agent types | none that lives | parsing, hashing, checking | |
| Host adapters, entry point, views, dashboard | the dashboard's cached list | rendering, key handling | |

The behaviours that are hard to test, each with its line, are the `hazards` of
`PROJECT.json`. The central ones:

* **Stop, pause and what was checked before.** `check_runtime()` is a look at
  the stop event; between the last look and the child's registration, or between
  the run thread's look and its publication of a status, a control can come in.
* **Waiting with a lock.** `_agent_sync` holds the frame lock across
  `reserve_agent()`, which waits at the pause gate. The child threads of the
  same frame need that lock for every report.
* **Exits.** A call ends by an answer, an error, a timeout, a skip, a limit or a
  halt; each has to give back its slot, its registration and its skip mark.
* **Look, wait, look again.** `restart()` and resume-from act on a status they
  saw before a wait of seconds or an approval of minutes.
* **Saves that raise.** The record in memory changes before the file does; what
  happens next depends on which save of the thread it was.

## 2. Modules

| Module | Models | Lines |
|---|---|---|
| `AgentPool` | abstract: what a run promises about its agents | spec of `AgentExecution` |
| `AgentExecution` | `agent()` calls of one run, their children, the run's controls | `engine/context.py`, `_agent_sync` of `engine/api.py`, `_run_child_with_timeout`, `skip_child` of `child/runner.py`, `engine/cache.py` |
| `RunLifecycle` | abstract: what the manager promises of a run's record, file and notification | spec of `RunManager` |
| `RunManager` | runs from launch to notification, controls, restart, resume-from, saves, crash | `run/manager.py`, `save_run` / `load_run` of `storage/store.py`, exits of `engine/runtime.py` |
| `GateVerdict` | `gate()` and its judge over the resume cache, in a run and the runs that resume it | `gate`, `_gate_judge` of `engine/api.py`, `engine/cache.py`, `engine/gate_logic.py` |
| `ChildRun` | what one child holds: worktree, tool scope, broker entries, worker | `run`, `_run_child_with_timeout` of `child/runner.py`, `child/structured_output.py`, `child/worktree.py` |
| `RunStatus` | the moves of a run's status, for who sees nothing else of it | the controls, `_update` and `_run_thread` of `run/manager.py` |
| `ControlQueue` | request and response files between the dashboard's client and the owner's listener | `storage/control.py`, `_handle_control_request` and the controls of `run/manager.py` |
| `RecordStore` | record files, version counter, the dashboard's two caches | `storage/store.py`, `tui/model.py` |
| `Dashboard` | the dashboard's loop, panes and keys over `RecordStore` | `tui/app.py`, grouping of `tui/render.py` |
| `TranscriptExport` | reader positions, transcript and meta files, the last flush | `run/transcripts.py` and its callers in `run/manager.py` |
| `ScriptRun` | a script and its nested scripts: awaits, `parallel`, `pipeline`, halts, pause clock, deadline | `engine/runtime.py`, combinators of `engine/api.py`, `check_runtime` and the gate of `engine/context.py` |
| `Approvals` | what the user is asked and what the answers allow | `adapters/hooks.py`, the approval callback of `child/runner.py`, `_approve_launch` of `run/manager.py` |
| `MC...`, one for each module with a run | small instances | |
| `AgentExecution_proofs`, `RunManager_proofs`, `GateVerdict_proofs`, `ChildRun_proofs`, `Dashboard_proofs`, `ScriptRun_proofs`, `TranscriptExport_proofs` | theorems about these modules | |
| `UserRequests_proofs` | theorems about `Approvals` and `ControlQueue` | |

### AgentExecution

One action is a region of code between two points where another thread can be
seen: a lock, the semaphore, the gate, a future. `pc` says where a call is.

| `pc` | The call's thread | Leaves by |
|---|---|---|
| idle, entered | before and after `check_runtime` in `agent()` (api.py:104) | `Enter`, `AcquireFrameLock` |
| reserving, admitting | holds the frame lock, before and after the check of `reserve_agent()` | `PassReserveCheck`; `Admit`, `Refuse` |
| lookup | record "queued", about to look into the resume cache | `ServeFromCache`, `StartRecord` |
| queued, acquiring, slotted | record "running", in `agent_slot()` before its first check, at the semaphore, before its second check | `PassFirstSlotCheck`, `AcquireSlot`, `PassSecondSlotCheck` |
| launching, registered | in `runner.run()`, no child yet; the child is registered and not submitted | `LaunchFails`, `Register`; `Submit`, `SubmitFails` |
| active, grace | waits for the child's future; waits on after the interrupt | `Collect`, `Timeout`, `TimeoutRaises`; `LeaveGrace` |
| leaving | out of the registry, a skip not yet consumed | `ConsumeSkip` |
| settling | slot given back, result not yet recorded | `Settle` |
| returned, halted | resolved; ended by a `WorkflowHalt` | |

`Halt` is the exception of any `check_runtime()`: it releases the frame lock or
the slot the call holds (`with`, `finally`), and the record keeps its status.
`child` is the child's own thread: it may report (`ChildReports` asks for the
frame lock, `ChildReported` had it), and it may exit or never. An interrupt is a
request that a child may obey at any time or never, so who was asked is not kept.
`SkipChild` is the first half of `skip_child()`, `SkipInterrupts` and `SkipFails` the
second, for several requests about one child at a time; `acknowledged` and
`withdrawn` are history variables that no guard reads. `previous` and `current` count
results per fingerprint: the code keeps them in FIFO lists, and which of two
equal fingerprints' results a call gets is not a question any property asks.
`Leave` puts the pop of the registry, `close()` and the cleanup in one step, and
`ConsumeSkip` the look at the mark and the release of the slot: nothing but mark and
slot is visible to others in between. `Pause` and `Stop`
do not ask whether the run was stopped before: the manager goes by the record, which
the thread's first status may have rewritten since.

### RunManager

`mem` and `disk` are the status of a run's record in `_runs` and in its file.
An update under `ManagedRun.lock` with the save that follows is one action; what
is read before the lock is another: `ReadGate` before `PublishStart`
(manager.py:551), `DecideReturned` before `PublishReturned` (574, 578),
`DecideRaised` before `PublishRaised` (587-598), `RestartLooks`, `RestartStops`,
`RestartWaited`, `RestartLaunches` for `restart()` (396-425), `LaunchResumed`
before `Insert` for resume-from (132, 234). A save may raise with or without
having replaced the file, because `save_run` writes the record and then bumps the
version. Where the exception takes the thread is in the action that saves:
a failed start or "completed" update goes to the `except` branch, a failed one
in that branch to `finally`, and a failed last save loses the notification.
`notify()` swallows failures, so `Progress` goes on. `Crash` empties `_runs`;
files stay, and a "running" file without an owner stays "running". Such a file can be
restarted at once, without a stop (402), and can be resumed. The record that a resume
starts from may be unreadable when `Insert` loads it (store.py:194-199): the cache is
then empty.

`launch = "failed"` is the run whose first save raised: it remains in `_runs` as
"queued" and has no thread (manager.py:233-235). `stop()` of a run that is only
a file, `StopUnmanaged`, is reached through the manager's public method.

`RunLifecycle` leaves out the threads, the stop event, the gate, the locks and
the restart request. A run is launched after the run it follows, is controlled,
begins once (its thread publishes its first status over whatever a control said,
or fails), ends, and is announced. Two things in it are easy to get wrong in the
code: a stop is not taken back once the run has begun, and an outcome changes only
if the save of it raised, and then once (`unsure`). `RunManager!LifecycleSpec` is
the refinement: `Begun` and `Unsure` are read off the thread's place and the
record, `Predecessor` off the launch.

### GateVerdict

The gates of one script, in a chain of runs each of which resumes the one before
it. A gate's `pc` goes from `idle` through `gated` (in the agent it governs),
`checking` (api.py:455), `asking` (in the judge's agent), `judged` (551) to
`over`; the code between two awaits is one action. `previous` and `current` are
the two halves of the resume cache, counts of each value per fingerprint. There
are three kinds of fingerprint: the governed agent's, the judge's (the same
prompt with the verdict schema) and the gate's own, the only one that knows the
check. Each is made from options of its own (`AgentOptions`, `JudgeOptions`,
`GateOptions`: the resolved model, type and toolsets with a schema for the first two,
`model`, `agentType` and `isolation` as written for the third, api.py:459-468), so gates
may share one and not another; the theorems hold for every choice. An inner `agent()` call is served, answers, is skipped, fails or is
halted (`AgentCached`, `AgentAnswers`, `AgentSkipped`, `AgentFails`, `Halt`, and
their `Judge` twins); how it gets there is `AgentExecution`'s subject. `Resume`
ends the run, whatever way its gates ended, and starts the next with the cache
the record holds: which record a resume finds is `RunManager`'s subject
(`ResumeInheritsWork`). `judges` is chosen at first among `Scripts` and never
changes: the gates of a script are what they are. `given`, `asked` and `before`
are history, no code reads them.

A skipped judge's `None` is kept under the gate's key like a verdict (api.py:552)
and blocks the gate again in the first resume; `FirstResumeReusesVerdicts` holds
with it, and `FailClosed` is why it can do no worse. The docstring of
`_gate_judge` (api.py:536) also says that identical gate calls share one judge
run: within a run they do not, since a lookup sees inherited results only, and
the repository's own test counts two judges (tests/test_gate.py:393).

### ChildRun

`AgentExecution` says when a child is registered, interrupted and resolved;
`ChildRun` says what it holds meanwhile. `pc` is the caller in `run()`:

| `pc` | The caller | Leaves by |
|---|---|---|
| idle, leased | before and after `create_workspace_lease` (runner.py:168) | `Lease`, `LeaseFails`; `EnterScope`, `ScopeRefused`, `PrepareFails` |
| scoped | in the tool's scope, builds the agent | `Launch`, `BuildFails` |
| running, grace | waits for the worker's future; waits on after the interrupt | `Collect`, `Timeout`; `LeaveGrace` |
| leaving, removing | in the `finally`, before the look at the worktree; between the look and the forced removal (worktree.py:33-35) | `CloseChild`; `RemoveTree`, `RemovalFails` |
| settling, unscoping, over | reads and clears the broker (219-233); leaves the scope | `Settle`; `ExitScope` |

`worker` is the thread in `_run` (445): in a turn of the conversation, between
turns (`Peek`, 470-490), or ended. It goes on when its call does not wait for
it any longer (`abandoned`), and then still edits its tree and submits, if
another child's scope keeps the tool registered. `ticket` holds the tool calls
that are between the two critical sections of `submit()`: each has counted its
attempt and is validating. `validated` and `accepted` are history.

The host's agent and its tool registry are external. A turn ends after its tool
calls, and may raise; whether an interrupt makes it end is the host's matter, so
an interrupt changes nothing here, and the loop's own limits are what stops a
child that is interrupted or skipped and never submits (`TypeOK`). A tree whose
`keep` is set is a child outside `Isolated`. The look is `git status` and a count of
the commits on top of the base (worktree.py:211-234), so an edit may be one that it
does not see (`hidden`): an ignored file, or commits that HEAD has left. `ShownWorkSurvives` is
about the others. `RemoveTree` and `RemovalFails` may
turn any outcome into an error, because a `git` command that times out raises in
the `finally`.

### ControlQueue

A request is one number in the order of the random file names, which is the
order a pass of the listener goes by (control.py:108); it may be made before or
after any other. `Submit` is the client; giving up after its timeout changes no
file, so it is no action, and the user's second attempt is another request.
`at` is the listener: `asleep`, `passing` (before a file is read), then for one
request `acting` (the status was compared, the run's lock is not yet taken),
`waiting` and `launching` in a restart, `answering`, `removing`. `Look` compares
owner and status without the lock (manager.py:436), the `Act...` actions look
again under it, `RunMoves` may fall between. A failed read skips the file
(`Skip`), a failed write of the answer ends the pass, a failed removal leaves a
request that is handled again: these are `faults`. `Crash` is a new process with
another control owner, which never sees the old one's directory. `carried` and
`botched` are history.

What a run does is `RunManager`'s subject; here it has a status that moves as
`RunStatus` says, and that it does so is a theorem of the other module
(`RunsMoveAsTheQueueAssumes`). The move that matters is `Begins`: the thread
publishes its first status over whatever a control said before (manager.py:549), a
stop included, so that the record of a stopped run may say "running" or "paused"
for a while. A stop whose answer or removal failed is then accepted, and carried
out, a second time; `CarriedOutOnce` says when, and that there is no third. Both
are harmless to the run, whose stop event stays. `QueueInit`, `QueueNext`, `QueueSpec` and `QueueTypeOK` have their
prefix because one module proves theorems about `ControlQueue` and `Approvals`.

### RecordStore and Dashboard

`RecordStore` has two parts. The savers, in any number of processes, do what
`save_run` does in the order of its file operations: `ReplaceRecord`,
`ReadCounter`, `ReplaceCounter`, with anything in between, since the counter is
read and replaced without a lock (store.py:180-189); `SaveFails` is the exception or
the death that leaves the record replaced and the counter as it was. The reader, `load()` and
`detail()` of `WorkflowRepository`, keeps ended runs under the pair of counter
and size. Two processes never read the same nanosecond unless the clock is set back in
between, which `ReadCounter` may find. A record's `shape` is what `_phase_views` makes of it: the
announced phases in their order, then those that only agents name, so that an announcement moves
the latter (`Grows`).

`Dashboard` is the one thread of `tui/app.py`: `pc` is `load`, `loading`,
`counter` (`last_version` is read after the refresh, app.py:355-356), `wait`
(poll, draw, or a key), `gone`. Each key is an action (`MoveList`,
`ExpandGroup`, `OpenRun`, `EnterAgent`, `Back`, `Control`, ...) on `nav`, the
`NavState`; `DetailRead` in it is the call of `detail()` that the key makes, with
what it does to the cache. `chosen` remembers of which phase the selected agent is.
`Anchored`, `Normalized`, `OpenNew` are the steps of
`refresh()`. Places count from one. The list a place is looked up in is written by
rank: the nth row is the run that n - 1 others come before, which is what the
sort of the code makes it.

### TranscriptExport

`rows` and `sessions` are the host's message table, external: messages are added,
deactivated, deleted, and a compaction continues the lineage in a new session.
`states`, `last`, `lineage`, `mode`, `tsig` are a `LiveTranscriptTarget`. A
thread's `pc` goes from `waiting` (for `_flush_lock`) through `reading` (under
`_lock`) and `writing` to the next target. `ReadIncremental` moves the position;
the files change later, in `Write`, or do not, in `WriteFails`. `IsAppendOnly` is
the comparison of counts, bounds and sums of ids that decides between append and
rebuild. `Stop`, `StartLastFlush`, `LastFlushTimesOut`, `Close`, `ExportMissing`
are the run's thread at the end. `seen` and `clean` are history: what the
last read found, and which files missed no write since. `source` is what the reader
found at its start: without a database of its own it opens one for each reading
(704-719), which neither `close()` nor an exception prevents. A message is its id and
whether it is active; how it is rendered is left out. The rows of a reading are
written by rank, like the dashboard's list: the nth is the message with n - 1
smaller ids (`Nth`), which is `ORDER BY` on the id.

### ScriptRun

`at` is where a frame's script is, `task` where each item of the call it awaits
is; thread 0 of a frame is its event loop, and each item that has left the loop
for `asyncio.to_thread` is another. `check` splits `check_runtime()` where it can
be interleaved: the gate passed, the clock read, the paused time read
(context.py:169-178). A closed gate blocks the whole loop (`TakeTurn`). Scripts
are arbitrary: they return, raise, loop too often, catch what is not a halt, or
`return` from a `finally` that a halt passes through (`Leave`), which the sandbox
lets through. `End` is what `asyncio.run()` does to the rest. `RunEnds` and `NestedEnds`
may come while threads are still at work: since Python 3.12, which `pyproject.toml` allows,
`asyncio.run()` waits 300 seconds for them and gives up. `left`, `halted`,
`expired`, `worked` are history.

### Approvals

`place` is a child's flagged command: in the plugin's hook (`hook`), in the
host's own check (`host`), before or under the coordinator's lock on a command
line (`queued`, `asking`), in the gateway's queue (`entry`), answered. `setup` is
one whole configuration: surface, policy, approvals mode, fallback, allowlist,
and whether the two captures at launch succeeded. `launch` is
`_approve_launch`, which shares the queue of entries with the children. The
host's approval engine (`HostRuns`, `HostPends`, `HostQueues`, `HostHears`,
`Tap`) is external and modelled from how the plugin calls it. `LaunchRaises` is an
exception between the append of a launch's entry and its removal: the entry stays. `ran`
and `said` are history; among what was said, a "reading" is what the hook said to the
gateway on behalf of a command that only reads.

### What is left out of these modules

* A budget of `None` is a `Budget` that is never reached; the `cache_store`
  branch of `_agent_sync` runs only when a run is given a store, which nothing
  under `src/hermes_dynamic_workflows` does.
* Results are not told apart, prompts only by fingerprint; the text of records,
  displays and journals does not appear.
* In `AgentExecution`, everything before the registration of a child is one
  nondeterministic failure (`LaunchFails`); its steps are in `ChildRun`.
* The budget is compared when a call reserves its agent (context.py:121), so
  calls that already wait for a slot start children after it is spent. No
  property is stated of it.
* In `RunManager`, the script works, halts, fails or returns; the transcripts'
  snapshot may raise, its content is not there. `restart()` may also raise for a
  missing script file: the model covers it because nobody owes a launch.
* In `Dashboard`: the layout, scrolling and the folding of prompts; in
  `RecordStore` the text of a record, of which the status, the titles of its phases,
  the numbers of agents in them and its size are kept.
* In `Approvals` a pattern stands for one description, the configuration does not
  change during a run, and which command only reads is an attribute of it.
* In `ScriptRun` a call of `agent()` is admitted and ends; slots, caching and
  skips are `AgentExecution`'s. Clocks do not go backwards.

## 3. Runs

| Run | Instance | Shows |
|---|---|---|
| `AgentExecutionSafety` | 3 calls, 1 prompt, 1 slot, cap 2, budget 1, 0 or 1 inherited result, 2 skips of a child at once; symmetric calls; 1 299 416 states | type and cap, skips, the cache's counts, and that the run implements `AgentPool` |
| `AgentExecutionLiveness` | 2 calls, 2 prompts, fair threads; 228 946 states | a stopped run launches nothing more; no call is stranded in a run that is stopped or not left paused |
| `RunManagerSafety` | 2 symmetric runs, 1 result, 1 failed save or load, 1 crash; 1 163 347 states | successors, resumes, and that the manager implements `RunLifecycle` |
| `RunManagerFaults` | 1 run, 2 failed saves, 1 crash, fair thread; 5 098 states | what was announced is on disk; a stop ends the run's thread |
| `RunStopAcknowledged` | 1 run | a disagreement, section 5 |
| `GateVerdictSafety` | 3 gates of one prompt, any two of them with a judge, one with a schema and behind a check; 2 runs; 2 513 191 states | gates are fail-closed; the first resume asks no judge again |
| `ChildRunSafety` | 2 schema children, one in a worktree with 2 tool calls at once, 2 attempts allowed and 3 made; 959 854 states | accepted results, tool scope, worktree, broker |
| `TranscriptExportSafety` | 2 children's sessions, one with 2 messages, a compaction and an edit; a database read incrementally, by its public API, or none; 1 reporter, 1 failed read or write; 3 451 735 states | a file is what was read; the last flush repairs; `stop()` is stuck behind a reading only |
| `ControlQueueSafety` | 2 requests for 1 run, 1 failed file operation, 1 crash, fair listener; 1 368 605 states | answers are true; once only, but for failed answers, and a stop again only if the startup hid the first; every request is consumed |
| `DashboardSafety` | 2 runs of one session, 2 symmetric savers, 2 saves, 1 failed save or clock set back, records of one size; a phase of agents and one announced later; 2 567 356 states | caches are current; the open run stays; what is selected exists |
| `ScriptRunSafety` | a script with 2 symmetric items and a nested one with 1, 2 stages, cap 2, budget 1, 1 pause; 3 225 793 states | halts end the run; scripts end after their parts and a completed run leaves none; the deadline counts work |
| `ApprovalsSafety` | 2 symmetric children, 1 launch, 2 commands of 3, 9 configurations; 1 813 266 states | no flagged command without a leave, or a reading of its pattern passed by the hook; the user is asked once; a tap reaches a waiter, or the entry of a launch that raised |

**Bounds.** One slot and two calls give every contention of slot and frame lock;
the third call is the one the cap refuses or that is halted while two others
wait. One inherited result for two calls of the same prompt is the case where one
call consumes it and the other launches. A budget of one token is spent by the
first child that reports one. Two skips of one child are the least of which one
can take back what the other was answered. Two runs are the least for restart and resume;
a predecessor of a predecessor only repeats the relation. One failed save hits
each save of a thread in turn, the two of the one-run instance let the terminal save and
the last one fail together, which alone would lose a status. In `GateVerdictSafety`
two gates share every fingerprint, the third shares only the judge's, so each can
be handed a result another one left; one answer,
which the check accepts, and a skipped agent's `None`, which it does not, are the
two outcomes of a check. Two runs are a run and its resume; the second resume,
`MaxRuns` 3, is where the disagreement is. In `ChildRunSafety` two
attempts are the least with one that may be repeated, a third submission is the
one the limit refuses, and two tool calls race for the last attempt. The second
child submits nothing: it is there to open and close its scope around the
first one's, and to keep the tool registered for an abandoned worker. Five is the
code's limit; the theorems hold for every limit. In `ControlQueueSafety` two
requests are the least for an order, a retry and one that is kept behind another;
one fault hits each file operation in turn, and is enough to have a stop carried
out twice; that no number of faults makes it three times is the theorem's to say. In
`DashboardSafety` two savers are
the least that can write their counters in the wrong order; a record of one size
leaves the counter alone to tell records apart; one fault is a bump that never comes or a clock
that makes the counter plus one the larger of the two. In `TranscriptExportSafety` the
second child has no messages: it is the target a failing first one might keep
from its flush. `Limit` 0 in `ScriptRunSafety` makes one unit of work too much
and one unit of pause no matter. The nine configurations of `ApprovalsSafety`
have each surface, each policy and each way a capture can be missing; two
commands are a grant and its reuse. `MaxSubmits`, `MaxRuns`, `MaxWork`, `MaxTokens`, `MaxCached`, `MaxFailures`, `MaxCrashes` are bounds
of the models, not of the code, and so are the others named `Max...`; the theorems hold for every value of them.

**Faulty forms.** A definition whose comment calls it a faulty form is what a
plausible bug would make of the one that follows it. No action uses it; put in
that definition's place it makes TLC find the property violated that
`PROJECT.json` lists with it, which shows that the run reaches the case.

**Deadlock.** All runs set `CHECK_DEADLOCK FALSE`: a run whose calls are over and
whose controls are used up stops, and so does a call whose child never answers
and never times out.

**Fairness.** `AgentExecution!FairSpec` asks weak fairness of each started call's
thread and of a report that can get its lock: a runnable thread is scheduled, and `Lock` and `Condition` wake their
waiters. Weak fairness of a call at the semaphore says that it gets a slot that
stays free, not that it wins every race. `Timeout` belongs to the call's step:
`child_timeout_seconds` does pass. Nothing is asked of the script, of a child's
answer, of the user's pauses, resumes, stops or skips. `DutifulSpec`, which no run
uses, adds that a child that can answer again and again does, for whoever wants
to see `RunningChildrenFinish` of section 5 fail.
`EveryCallEnds` assumes that the run is stopped or not paused for ever. `RunManager!FairSpec` asks
weak fairness of the run's thread; `ScriptHalts` belongs to it and is justified
by `EveryCallEnds` of the other module. `ControlQueue!QueueSpec` asks weak fairness of
the listener: a daemon thread that polls as long as its process lives, whose
`except` clauses keep it alive (control.py:143-149), and whose one long wait, a
restart's, has a limit. Nothing is asked of the client, of a run, or of a file
that fails.

## 4. Theorems

TLAPS proves these for every finite set of calls or any set of runs or gates,
every number of slots, cap, budget and bound, from the assumptions named in the
modules only. Those say that a constant is what the code takes it for: calls,
children and gates are finite sets (each is a thread or a coroutine of one
process), limits are numbers, a pipeline has a stage (api.py:642), file names and
ids are in an order. `Nothing` is Python's `None`, and assumed not to be one of
the values it stands beside.

| Theorem | States |
|---|---|
| `AgentExecution_proofs!TypeCorrect`, `SlotsConserved`, `SkipsAreHonoured`, `CacheIsSound` | the safety invariants of `AgentExecution` |
| `AgentExecution_proofs!ImplementsPool` | `Spec => PoolSpec`: the refinement |
| `AgentExecution_proofs!StopIsFinal` | `Spec => StopPreventsLaunch` |
| `AgentExecution_proofs!CallsOnlyGoForward`, `NobodyWaitsInACircle` | what `EveryCallEnds` needs of the code besides fairness |
| `RunManager_proofs!TypeCorrect`, `AnnouncementsArePersisted`, `SuccessorsWait` | the safety invariants of `RunManager` |
| `RunManager_proofs!ResumesInherit`, `VerdictsAreFinal` | what a step of `RunManager` may never do to a resume's results and to a final status |
| `RunManager_proofs!ImplementsLifecycle` | `Spec => LifecycleSpec`: the refinement |
| `RunManager_proofs!RunsMoveAsTheQueueAssumes` | the runs of `RunManager` make the moves of `RunStatus` |
| `RunManager_proofs!ThreadsOnlyGoForward` | what `StopEndsRun` needs of the code besides fairness |
| `ChildRun_proofs!TypeCorrect`, `ToolFollowsScopes`, `SubmissionsAreBounded`, `AcceptedResultsAreReturned`, `ShownWorkIsSafe`, `BrokerIsClean` | all safety invariants of `ChildRun`, for any finite set of children and any limit |
| `GateVerdict_proofs!TypeCorrect`, `GatesFailClosed`, `VerdictsAreReused` | type, `FailClosed` and `FirstResumeReusesVerdicts`, for any prompts, checks, scripts, finite set of gates and length of the chain |
| `UserRequests_proofs!QueueTypeCorrect`, `ClientsHearTheTruth`, `RequestsAreCarriedOutOnce` | all safety invariants of `ControlQueue`, for any requests, runs, failures and crashes |
| `Dashboard_proofs!TypeCorrect`, `CachesStayCurrent`, `SelectionIsThere`, `TheOpenRunStays` | type, `CachesAreCurrent`, `SelectionExists` and `OpenRunSurvives`, for any savers, runs, records and sizes |
| `ScriptRun_proofs!TypeCorrect`, `HaltsEndRuns`, `PartsEnd`, `PausesDoNotCount` | type, `HaltEndsTheRun`, `PartsEndFirst`, `DeadlineCountsWork`, for any frames, items, stages, limits and pauses |
| `UserRequests_proofs!TypeCorrect`, `RunsWereAllowed`, `TapsAreHeard`, `NobodyAsksTwice` | all properties of `Approvals`, for any children, launches, commands and configurations |
| `TranscriptExport_proofs!TypeCorrect`, `TranscriptsAreWhatWasRead`, `TheLastFlushRepairs` | type, `TranscriptIsWhatWasRead` and `LastFlushRepairs`, for any children, reporting threads, messages, edits, compactions and failures |
| `TranscriptExport_proofs!TheRunnerCanGoOn` | `StopIsNeverStuck` with the guards of the thread's steps in the place of `ENABLED` |

**AgentExecution.** The inductive invariant is the conjunction of the invariants
with what ties a call's place to the rest: `PlaceInv` (what `record` and `child`
are at each place), `ActiveInv` (the registry holds the children of the calls that
wait for one and those that could not be submitted), `CountInv` (`_agent_count` is the number of records; without it the
cap says nothing about records), `SkipInv` (a mark that was not taken back is
still there until it is consumed, then in the outcome, then in the record, and one
that was is not; `SkipHonoured` alone speaks of the end only). The refinement maps a
record to the pool's status, the calls between registration and departure to
`running`, and every call that ever had a child to `launched`; each step is a
pool step or a stutter under the invariant, where `SlotConservation` gives the
pool's guard on `Slots`. `StopIsFinal` is an
invariant per call: once the run is stopped no check passes, so a call before
its last check stays there or ends.

`EveryCallEnds` is a liveness property; what it needs of the code besides fair
threads is proved. `CallsOnlyGoForward`: each step of a call raises the rank of its
place, so that a call makes at most fourteen moves. `NobodyWaitsInACircle`: unless the
run is held at its gate, a call that waits for its frame's lock or for a slot waits
for a call that is under way and waits for nothing, and so does a child that
reports. It follows from `SlotConservation` (no slot left means that somebody has
one) and from `Owned`, the lock of a frame being with the call of that frame that
reserves or admits; the order is gate and lock before slot, and nobody with a slot
takes a lock.

**RunManager.** `PhaseInv` ties the phase of launch and thread to the record's
status: a terminal status belongs to a thread that has published, which is why
controls and restarts cannot touch it. `FileInv` says the file is the record
once the last save succeeded. `RestartInv` and `SuccessorInv` carry the status
that was looked at over the wait: a run that is over never becomes active
again, and its file stays. The refinement has a case for each action: a launch is
seen when the run enters `_runs` (`InsertIsLaunch`, where `SuccessorInv` gives that
what it follows is over), an update of the thread is a begin or an end
(`PublishIsSeen`, by `PhaseInv`), an accepted control is a control, a save that
leaves the record is a report; reading the gate, the stop event or the status is
not seen. `RunsMoveAsTheQueueAssumes` is derived from the refinement and not from the
steps: a step of `RunLifecycle` moves the status, with the three outcomes taken for
one, as `RunStatus` allows, or the process ends. It is the assumption under which the
theorems about `ControlQueue` hold. `ThreadsOnlyGoForward` ranks the places of a
run's thread; the rest of `StopEndsRun` is that the thread runs.

**GateVerdict.** `FailClosed` speaks of gates that returned; `VerdictInv` makes it
inductive by following a PASS everywhere it can be: left in `previous`, kept in
`current` under a judge's or a gate's key, or just returned by a judge. Each was
given by a judge of the chain for that prompt. `PlaceInv` adds that a gate past
its check was let past it. `FirstResumeReusesVerdicts` is a count: gates with the
same prompt and no check share a bucket of the cache, and whichever of them comes
first takes the verdict another one left. `FirstInv` says that in the first run a
bucket holds one verdict for each such gate that has decided, `SecondInv` that in
the resume of a complete run it still holds at least as many as there are gates
that have not: a gate that finds none would be one too many. The counting is with
the library's theorems on cardinality, so gates are assumed finite.

**ChildRun.** The invariants speak of calls that are over, so `WorkerInv` carries
them there: a worker lives past its call only if abandoned, a tool call is in
flight only in a turn. `BrokerInv` says what the broker has of a child at each
place, `CountInv` that a live task's validated submissions are among the
attempts it counted (the reset at registration is why it needs `BrokerInv`),
`ResultInv` that an accepted result stays until the call is settled, so the loop
sees it whatever the attempts are. `ScopeInv` counts the scopes with the
library's cardinality theorems.

`SlotConservation`, `AttemptsBounded` and `VerdictIsFinal`
are properties of these modules that the proofs establish and no run repeats; the
last one is also part of what the run of `LifecycleSpec` checks.

**ControlQueue.** `AnswersAreTrue` compares an answer with what was carried out,
which is not inductive: `FreshInv` adds that a request in the listener's reach
that met no failure is carried out only between its taking and its answer,
`RequestInv` where its files are at each step of the listener, `AnswerInv` that
an answer was written by the step that decided it. `StopInv` is why a stop is carried
out twice at most: after the first the run refuses the next one until its thread
has begun, which it does once, and after the second for ever. That a pass takes the least file name there
is needs a least element of a set of numbers (`MinIsIn`), from the library's
well-foundedness of the natural numbers.

**Dashboard.** A cache is trusted when counter and size are those it was filled
under. The invariant says that a stamp about to be written is new, so no cache
has an entry under it, although the counter is read and replaced without a lock;
what is on disk under an old stamp has not changed since, but by a save that is under way
or failed before its bump (`unbumped`). The stamp is new for one of two reasons. Its time is
(`TimesDiffer`), as long as the clock is not set back; or it is larger than all before it
(`CounterRises`), as long as no two bumps overlap. A clock set back and an overlap together leave
neither, and `CachesAreCurrent` says nothing of them.

`SelectionExists` relates a place to records that other processes replace. A
record only grows: it has ever more phases, and each title keeps its agents (`Within`),
though not its place. What the cache of details keeps is of a run that has ended
(`DetailsLag`); so the kept detail, or else the file, is a least record that every
later reading contains (`Floors`). `Selected` says that the place of the phase lies within
it, and the agent under the title it was chosen from, and keys and refreshes clamp to more than that. `OpenRunSurvives` and the types
need what a row of the list is: the rows are a finite set in a strict order, and a
finite set of n members has one with i before it for every i below n, which is a
descent that the well-foundedness of the natural numbers ends.

**ScriptRun.** A halt is followed from the item that met it (`HaltInv`): to the
call that awaits the item, to the frame, out of a nested frame into the item of
the root that runs it, unless a `finally` dropped it on the way; a stop that was
dropped is found by the check at the end (`StopInv`, `CheckInv`). `NestInv`
and `FrameInv` say that a frame lives while its thread or item does, and that a thread
nobody awaits any more has a halt before it: that halt keeps the run from completing
(`HaltEndsTheRun`), which is why a completed run leaves no thread behind although no wait
for threads is relied upon. Worked and
paused time make up the clock (`ClockInv`), and the reading of a check lies in
the past, so what it finds exceeded was exceeded by work whatever falls between
its readings. The types need counting as well: agents stay within the cap and
spending within what calls may overspend because the items whose child runs and
the calls that have paid are together no more than the admissions (`Spending`).

**Approvals.** A command runs with an answer or an approval that may be older
than the command. `ReplyInv` says that who has an answer asked for it and that a
yes is a leave for this command; it needs `QueueInv`, that who has an entry in
the queue waits there with this command and has one entry, or a tap would answer
an earlier one; the only other entries are those of launches that raised. `GrantInv` says where each approval that is kept comes from:
the coordinator's grants, the host's list and its session from an answer for good, the
policy, or a command that only reads, whose pattern is then open to any other (the one
exception that `FlaggedRunsWereAllowed` names); and that on a command line the grants are
all the answers for good, which is why nobody is asked twice. Leaves only grow
(`LeavesStay`).

**TranscriptExport.** The exporter appends when counts, bounds and sums of the
sessions tell it that what it has read before is unchanged. That this is enough is
not a matter of arithmetic on the sums: the host deactivates and deletes messages
that were read, and never brings one back. `ReadAs` therefore keeps what the last
reading found - a set of ids, the session of each and its flag - and says that
the table holds no more of them than then, and each with its flag or inactive. A
session with the same number of rows and of active rows has then the same rows
and flags (`NothingChanged`), so that the counts alone suffice; and the rows now,
in the order of ids, are those of the last reading followed by the new ones
(`NewRowsFollow`), which is what an append writes. `JobInv` carries this to the
file, since the position moves before the write: what a thread is about to write
makes the file what was read, if the file had missed no write before. It needs
`LockInv` (one thread at a time is in the flush lock) for the write to come before
the next reading, and `FallbackInv`, that a transcript read through the public
API stays with it. The last flush rebuilds whatever it reads incrementally, which
is why no failure before it matters; that its write comes before another reading is the
lock again.

`TheRunnerCanGoOn` has an invariant of its own, `RunnerInv`: who waits for the flush
lock or holds it between two targets has targets left, and the run's thread is not
idle after the stop. On the instance of `TranscriptExportSafety` the guards it
speaks of hold in exactly the states in which `RunnerStep` is enabled.

**Model-checked only.** The liveness properties (`EveryCallEnds`, `StopEndsRun`,
`RequestsAreConsumed`), since fairness is beyond the prover; `StopIsNeverStuck` in
the form that speaks of `ENABLED`; and the violation. All other properties that a run
checks are stated by a theorem. An argument over a finite set takes the least
counterexample among the natural numbers, or a cardinality; what a recursive
definition or a fold computes from data is proved nowhere, and no proof depends on
it: rows and listings are defined by rank for that reason.

## 5. Disagreements and observations

`RunStopAcknowledged` is the run of a disagreement with what the repository says
of itself: **an acknowledged stop can end "completed"**, when it falls between
the thread's look at the stop event (manager.py:574) and the terminal update (578). The
branch for exceptions has the same window (587-598): such a run ends "failed", which
`StoppedRunsDoNotComplete` does not count.

The modules show more, without a run of their own:

1. **A pause can hold running children** (`AgentExecution!RunningChildrenFinish`).
   TECHNICAL.md says children already running can finish. A call that is inside
   `reserve_agent()` when the gate closes waits there with the frame lock
   (api.py:135-136), and a child of that frame waits for the lock at its next
   report until the resume.
2. **A stop can miss a child** (`AgentExecution!Register`). A call past its last check registers its child after `interrupt_all()` has taken its
   snapshot; the child then runs to its answer or timeout.
3. **A pause at startup is overwritten** (`RunManager!PausedRunsArePaused`): the
   record says "running", the gate is closed, and `resume()` refuses the run as
   not paused. A stop at startup is overwritten too, and a second stop is then
   answered "ok" like the first (`ControlQueue!CarriedOutOnce`); the script halts
   at its first check all the same.
4. **A verdict survives one resume only** (`GateVerdict!ResumesReuseVerdicts`). A
   verdict served from the cache is not put back (api.py:554), unlike an agent's
   result (api.py:211), so a resume of the resume runs the judge again.
5. **A worktree can leak** (`ChildRun!WorktreesAreDeleted`). Whatever raises
   between the lease and the launch (a runtime, a toolset, the tool's name, the
   agent) leaves a clean worktree and its branch, since only
   `_run_child_with_timeout` cleans up.
6. **A `finally` can swallow a limit** (`ScriptRun!Leave`). errors.py:8-15 says a
   run stays bounded whatever the script catches; the sandbox forbids catching a
   halt but not `return` in a `finally` (sandbox.py:313-320), which drops it. A
   stop and an exceeded deadline are found again when the script returns
   (runtime.py:177); an agent, token or loop limit is not, and the run completes.
7. **The last flush does not repair a fallback transcript** (`TranscriptExport!
   ReadFallback`). Read through the public API, a transcript is compared with
   the signature of the last reading, and `force_rebuild` is not looked at: a
   write that failed after that reading is not made up for. `LastFlushRepairs` is
   therefore a statement about the incremental mode. The fallback reads the root
   session only.
   A flush of a late reporter or of the loop that waits for the lock behind the last
   one writes after it: it can tear the file (473), or fall back and
   rewrite it with the root session only (425).
   The docstring of `stop()` says that the caller never blocks forever (412-414). The
   wait for `_flush_lock` has a limit, but `flush()` takes `_lock` before it without one
   (441), and a thread holds that while it reads: a reading that never returns blocks
   the caller. `StopIsNeverStuck` excludes it.
8. **A save can be missed by an idle dashboard** (`Dashboard!ReadLastVersion`): the
   counter is read after the refresh (app.py:355-356), so a save in between is
   shown with the next one. The cursor of the list is a place, not a run: a
   reordering moves it to another row. So is the selected phase: one that is announced later takes
   the place of one that only agents name (model.py:377-392), and the selected agent need not
   exist under it until the next key or load looks.
9. **A command that only reads passes its pattern** (`Approvals!PassedByReading`).
   On a gateway the hook approves the pattern for the session when a read-only
   command of it passes (hooks.py:322-328), where the command line's fast path
   allows that one command. The docstring of the check (hooks.py:117-124) speaks of "keeping
   mutations, installs, writes, and arbitrary scripts on the normal approval path": on a
   gateway, with the policy ask, a command that writes runs with nobody asked once another
   command of its pattern was seen to read. `FlaggedRunsWereAllowed` names this as its one
   exception. A prompt that raises leaves "requested" as the last
   event of its child in the journal.
10. **A skip can be taken back by another** (`AgentExecution!SkipFails`). The
   docstring of `skip_child` (runner.py:572) says that the call resolves to `None`.
   All requests about a child share one mark; a request whose `interrupt()` raises
   removes it (586-589), also for one that was answered True before. Conversely a
   request that is answered False may have skipped the call, when its mark was
   consumed before the removal.
11. **A child that cannot be submitted stays registered**
   (`AgentExecution!SubmitFails`). `executor.submit` (runner.py:511) comes after the
   registration and before the `try` whose `finally` undoes it; lease, worktree and
   agent are not cleaned up either, and a later skip of it is answered True.
12. **A resume can silently start from nothing** (`RunManager!Insert`). `load_run` makes
   an unreadable record `None` (store.py:194-199), and a resume of it runs every agent
   again; `ResumeInheritsWork` excludes this read and no other.
13. **A worktree with work in it can be removed** (`ChildRun!NothingIsPurged`). A look
   that shows no change is followed by `worktree remove --force` and `branch -D`
   (worktree.py:35-51): ignored files, and commits that HEAD is not on any more, go with the
   tree. `ShownWorkSurvives` is about what the look can show.
14. **The version counter can go down** (`RecordStore!VersionsIncrease`). The docstring of
   `_bump_version` (store.py:181-186) has consecutive saves strictly increasing even when two
   processes bump concurrently or the clock jumps backwards. The maximum is taken without a
   lock, so the later of two overlapping writes can be the smaller one; that alone harms
   nobody, since a reader only compares for equality. Both at once can write the same version
   twice, and a cache then serves the older record. A save that fails before its bump
   (148-152) leaves an ended run's old record in the caches until any run is saved.
15. **A run can end before its threads** (`ScriptRun!RunEnds`). Since Python 3.12
   `asyncio.run()` (runtime.py:101-102) waits 300 seconds for the threads of `asyncio.to_thread`
   and goes on. A run that was stopped or met a limit can leave calls of `agent()`
   behind, queued for a slot or within a child's own 300 seconds and grace, which go on
   after its last record. `PartsEndFirst` says that a run that completes leaves none.
16. **A launch that raises leaves its entry** (`Approvals!LaunchRaises`). Only an
   exception of `notify_cb` takes the entry out of the gateway's queue (manager.py:1000-1009);
   one of the hook (988-998), of the configuration other than a bad number (1011-1017) or of
   `touch_activity_if_due` (1038-1039) leaves it, and the next tap of the
   user in that session goes to it. `TapsReachWaiters` names the exception.

## 6. Plan

In order of what matters most:

1. `CacheStore`: what a store keeps across runs. Nothing under
   `src/hermes_dynamic_workflows` gives a run a store (`cache_store` is `None` at
   engine/runtime.py:48 and context.py:82), so that this waits for a caller.
2. `Replay`, `GateLogic`: pure functions against reference definitions on bounded
   inputs.
3. `ControlQueue` composed with `RunManager`, for saves that raise while a request
   is carried out: the statuses are covered by `RunsMoveAsTheQueueAssumes`.

Not planned: the sandbox's syntax checks, the parser of shell commands, prompt
and display text, the rendering of the dashboard, agent-type files, toolsets and
the host's adapters. They compute text from text or pass calls on; nothing in
them is shared between threads.
