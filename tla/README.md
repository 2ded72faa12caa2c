# TLA+ models of VLLM-SM75

VLLM-SM75 is an overlay on vLLM 0.30 for Turing GPUs (SM75). It replaces or adds
the engine process and its clients, a sleep subsystem that gives GPU memory back
while nobody uses the engine, the GPU worker and model runner with DFlash
speculative decoding, attention metadata builders for FlashInfer and gated
delta nets, and an all-reduce for cards without NVLink. This directory holds TLA+
models of those parts, TLC configurations that check them on small instances, an
abstract specification with the refinement that shows it implemented, and proofs
checked by TLAPS.

    tlc -workers 2 -config DiskSleep.cfg MCDiskSleep      # one run
    tlapm DiskSleepProofs.tla                             # the proofs of a component

Paths below are relative to the repository; `gpu/` stands for
`docker/speculative/vllm/v1/worker/gpu/`, `engine/` for `vllm/v1/engine/`.

## 1. Inventory

| Part | Source | State | Operations | What is hard | Module |
|---|---|---|---|---|---|
| Auto-sleep controller | `engine/auto_sleep.py` | `_state`, `_timer`, `_keeper`, `_last_activity` | `on_idle`, `on_request_arrival`, `on_wakeup_poke`, `_sleep`, `_wake`, `_deep_sleep_exit`, `_poke` | timer threads share the handle with the main loop; stale and early pokes; a sleep that fails on some ranks | `AutoSleep` |
| Engine core main loop | `engine/core.py` | input, aborts and batch queues, idle callbacks, pause and shutdown state | `run_busy_loop`, dispatch, `step`, `step_with_batch_queue`, `pause_scheduler`, `sleep`, `wake_up`, `_handle_shutdown` | pauses and sleeps that complete later, in an idle callback; aborts; shutdown | `AutoSleep`, `RequestPath` |
| Disk-backed sleep | `vllm/device_allocator/disk_sleep.py`, `disk_snapshot.py`, `gpu_worker.py` | per rank: snapshot, backend state, mapped allocations | `prepare`, `cancel_preparation`, `suspend`, `resume`, `save`, `restore_region` | one rank of several failing, at any allocation; partial wake-ups; damaged files | `DiskSleep`, `WeightStore` |
| Deep sleep and respawn | `engine/async_llm.py`, `core_client.py`, `core.py` | `engine_sleeping`, `engine_dead`, shared respawn task, engine manager, monitor threads | `_await_deep_sleep_respawn`, `_respawn_engine_with_retries`, `respawn_engine`, `monitor_engine_cores`, `request_deep_sleep_exit` | requests racing the exit; disconnecting clients; failing respawns; monitors of old processes | `DeepSleep` |
| Data-parallel engine core | `engine/core.py` (`DPEngineCoreProc`) | wave, `engines_running`, step counter, `pending_pause`, `ignore_start_dp_wave` | lockstep steps, dummy batches, two-phase pause, resume | wake-ups and wave ends that cross; one rank pausing while another steps | `DPWaves` |
| Multi-engine clients | `engine/core_client.py` | `core_engines`, `lb_engines`, `reqs_in_flight`, `engine_inflight`, scaling cache | routing, aborts, statistics, elastic scaling | stale statistics during a scaling; engines that leave | `DPClient` |
| Front-end request path | `engine/async_llm.py`, `core_client.py`, `core.py` | request states, collectors, output handler, sockets, send buffers | `add_request`, `generate`, `abort`, streamed input, output handler, input and output threads | client, stop string and error ending one request at the same time; buffer reuse; a crash | `RequestPath` |
| Start-up | `engine/core.py`, `core_client.py`, `gpu_worker.py`, `gpu/model_runner.py` | fitted length, layouts, profiled memory, workspace, graphs | handshake, load, profile, size, allocate, warm up, capture, READY | order of steps; the weakest worker; one engine of several dying | `Startup` |
| GPU model runner, DFlash, scheduler switch | `gpu/model_runner.py`, `gpu/spec_decode/dflash/speculator.py`, `scheduler_sm75.py` | slots, block tables, counts on CPU and GPU, two KV caches | `update_requests`, `execute_model`, `sample`, `postprocess_sampled`, `propose`, the speculation switch | steps scheduled before the last one's result; rejected drafts; slots and blocks reused | `ModelRunner` |
| GDN linear attention | `gdn_attn.py`, `sm75_gdn_metadata.py`, `qwen_gdn_linear_attn.py` | recurrent state per block, graph buffers | `build`, fast path, kernel dispatch, graph replay | mixed batches; padded rows; accepted counts as offsets | `GdnMetadata` |
| FlashInfer metadata | `flashinfer.py`, `sm75_fa2_graph.py` | page buffers, wrappers, graphs | `build`, plans, `forward`, the SM75 adapter | buffers reused in place; wrappers of fixed size | `FlashInferMeta` |
| Firefly / custom all-reduce | `vllm/distributed/device_communicators/` | flags and slots in shared or peer memory | set-up, choice of communicator, exchange, butterfly, tear-down | ranks that decide alone; waiting for an exact flag | `AllReduce` |
| Ultra console | `ultra/source/console/*.mjs` | sessions, supervised processes, configuration | HTTP handlers | supervision and configuration races | none |
| P-state supervisor, LMCache installer, image helpers | `ultra/`, `docker/helpers/` | | | shell and installation scripts | none |
| Kernels, quantisation, models, configuration, metrics | the rest | | | numerical or straight-line code | none |

How the parts meet. A call enters `AsyncLLM`, passes the deep-sleep gate, is
registered with the output processor and sent over a socket by the client, which
picks an engine when there are several. The engine's input thread decodes it into
the input queue of the main loop, which hands it to the scheduler; batches go
through the executor to a worker per GPU, whose model runner builds attention
metadata, runs the kernels, samples, and lets the drafter propose. Outputs return
through an output thread. The auto-sleep controller is a set of hooks in the main
loop; a sleep goes through `EngineCore.sleep` and a collective call to every
worker. With target `exit` the engine leaves altogether and the gate respawns it.

What makes them correct:

* *sleep*: a batch only runs with all memory of all ranks mapped; disk sleep never
  loses weights; the controller sleeps only after a whole idle window, never aborts
  a request, never strands an idle engine awake; one respawn at a time, shared;
* *lockstep*: ranks in one collective are at the same step, and no rank waits for
  one that nothing will wake;
* *requests*: tokens arrive once and in order, nothing is forgotten or left
  running, every call ends, counters used for routing and admission are exact;
* *memory and indices*: each request reads its own cache and its own recurrent
  state up to the right position, whichever kernel, graph or buffer is involved;
* *start-up*: scheduler, workers and drafter agree on lengths and layouts, what was
  profiled fits, and a start-up ends one way or the other.

The hazards behind these are listed one by one, with the line where each bites, in
`PROJECT.json`.

## 2. Modules

| Module | Models |
|---|---|
| `AutoSleep` | the controller inside the main loop |
| `WeightStore` | what disk sleep promises about weights (abstract) |
| `DiskSleep` | two-phase disk sleep across ranks; implements `WeightStore` |
| `DeepSleep` | exit, gate and respawn |
| `DPWaves` | data-parallel engines, their coordinator and client in waves |
| `DPClient` | the load-balancing client, its engines and elastic scaling |
| `RequestPath` | calls through front end, client and engine process |
| `Startup` | engines, workers and client from spawn to serving |
| `ModelRunner` | scheduler, model runner and drafter |
| `GdnMetadata` | metadata, kernels and state of gated delta nets |
| `FlashInferMeta` | metadata, plans and wrappers of FlashInfer |
| `AllReduce` | communicators of a tensor-parallel group |
| `MC...` | constants of the instances TLC checks |
| `AutoSleepProofs`, `DiskSleepProofs`, `DeepSleepProofs`, `DPWavesProofs`, `DPClientProofs`, `StartupProofs`, `RequestPathProofs` | theorems about the module of that name |
| `DPWakeProofs` | the theorem that no rank of `DPWaves` is stranded; uses the invariant of `DPWavesProofs` |

A definition called *Mutant* in a comment is a plausible bug that the
specification does not use; substituting it for the definition below it breaks the
property named in `PROJECT.json`. Code outside the repository (the upstream
scheduler, executor, coordinator, kernels, libraries) is modelled from how the
repository uses it and marked external in the map.

### AutoSleep

Actors: the main loop (`pc`), timer threads (`timers`), and the frontend, which
appends to `inq`. What the loop does between two accesses to state another thread
writes is one step. The only such state is the handle `self._timer`, so each
statement that dereferences it is a step: `cancel`, `daemon` and `start`.
Dereferencing `None` there ends the loop (`Die`). A handler is one action with
everything it calls; a pause includes `_finish_pause`, whose device synchronisation
may fail, at once or when a deferred pause completes. `idleAge` is `now - _last_activity`; `quiet`, a history
variable, counts ticks since the engine last had work. A tick passes only while the
loop is blocked; both counters saturate at `Timeout`. A *setup* is what one server
was started with: target, batch queue, which operator calls and failures happen.

### DiskSleep and WeightStore

Every rank executes the calls of its queue in order, one allocation per step,
concurrently with the other ranks and the engine. A collective call that raises
does so on the first failed reply while other ranks are still at work, so a
rollback can be queued behind a suspend that is still going on. `good` are the
allocations that hold the bytes the model was loaded with, `copy` the regions of
the snapshot that do, `rotten` the regions damaged on disk afterwards (found by the
digest). With `inFlight` the engine uses a batch queue and a sleep may have to wait
for a batch: the executor's sleep happens in an idle callback (`DeferredSleep`).

`WeightStore` says, per rank and weight, only where the bytes are: saved all at
once, unloaded one by one with a copy on disk, loaded from the copy, copies
discarded when all is back. The refinement mapping is `Place`: a weight is on the
device when it is mapped and intact, on disk when its region of a *committed*
snapshot holds its bytes. Saving regions, cancelling, rolling back and failing are
stuttering steps or one of the four moves.

### DeepSleep

The coroutines of the API server are interleaved at their awaits with the engine
processes and one monitor thread per process. `req` follows a request through the
gate; `slot` is `_deep_sleep_respawn_task`, `task` the life of each respawn task
(`launch`, `backoff`, `reap`, ...); `eng` the life of each process (`orphan`: alive
but unreachable, after an attempt that timed out); `out` the output socket.

### DPWaves

One record per rank with the fields of `DPEngineCoreProc`. `forward`, `sync` and
`resume` are collectives that a rank enters and leaves when all have entered.
Messages of the client and of the coordinator travel on separate channels that may
overtake each other. `Discipline` names what callers respect: *paused* (resume and
wake only follow a completed pause, and calls do not overlap), *settled* (requests
are not sent while a call is under way) and *admitted* (a request is aborted only
after its engine has begun it). The callers in the repository do not enforce all
three; section 6 says what happens without. A resume
of a running rank changes nothing, whether the code refuses it (a pause is pending,
`core.py:2198`) or ignores it; the model has one case for both.

### DPClient

The client's state, the engines' queues and pause states, the coordinator's last
snapshot, and the scaling protocol: prepare, pause, switch, markers,
notifications, resume, with requests arriving and being aborted throughout. Requests
in `Named` name their engine (`data_parallel_rank`), the others go to the least
loaded. A scaling may fail in its preparation (`PrepareFails`), while it waits for
the new engines (`CommitFails`), and at every utility call it makes of an engine -
pause, prepare, commit, reinitialise, resume - (`CallFails`): the client's
`gather` raises and nothing follows, while the other engines do as they were told. A
failed commit leaves engines paused. `MaxFailures` bounds the failures of a
behaviour; a preparation or commit that failed is not tried again. The group switch
itself is a collective of the workers (external), one step for all engines. A
scaling begins only when the marker of the last one has been read and the engines it
removed are gone.

### RequestPath

`task` follows the coroutine of a call, `feeder` the task that reads a streamed
input, `queue` the collector that merges outputs, `handler` the output handler
with its slices, `wire` the send buffers that are reused when zmq is done with
them. A call may be plain, raw, cut by a stop string, fanned out to two requests,
or streamed. Preprocessing may fail, the input may raise, callers may leave, the
engine may die before or after it says so. The client's reader
(`process_outputs_socket`) and the output handler may also fail by themselves while
the engine lives (`ReaderFails`, `HandlerFails`): the handler tells every call that
has registered and ends, and nobody starts it again. `handler.missed` are the calls
that were past the `errored` check and had registered nothing then. *Split* is a streamed session of which
the engine refused a later input: front end and engine then disagree about its end,
and the properties except it.

### Startup

One path of steps per engine and, within the steps, one record per worker: length,
layouts of target and drafter, profiled and cached memory, workspace, graphs,
tuned kernels. Sizes are small numbers of units; `FreeMemory`, `Usages` and
`GraphSizes` are chosen per worker, so each may be the weakest. The client counts
HELLO and READY messages, times out, and watches processes with its monitor. The
assertions of profiling and the check for unexpected draft layers are failures
like any other. One front end; text models; tensor parallelism only; the opt-in
start-up plan (`maybe_apply_startup_plan`), a file of an earlier run, is not applied.

### ModelRunner

The scheduler plans steps up to `MaxAhead` before their results return; the runner
executes, samples and rejects; results travel in `outs`. A cache entry is the
(request, position) written last, so holding a prefix is a statement about block
tables, slot mappings and counts. Drafts are `Steps` tokens, kept up to any count.
The switch of `scheduler_sm75.py` changes the scheduler only; the worker goes on
proposing.

### GdnMetadata

The state of a block is (request, tokens it has seen). A step prepares rows, builds
metadata by the ordinary or the fast path into the graph buffers, and runs the
pieces each kernel computes (`ForwardCore`, packed, fused, replayed), which read a
state, write states and produce outputs at places of `core_attn_out`. Mamba cache
mode `none` only; the convolution state moves with the same indices and is left
out. A step without drafts begins only when the last accepted count is 1.

### FlashInferMeta

Two consecutive steps over the same buffers, wrappers and captured graphs, in ten
configurations of architecture, head size, drafts, graphs and the SM75 adapter.
`Attends` is what a token really reads: the pages and the length its kernel finds
in the buffers at run time. A batch is replayed from a graph when all its queries
have the graph's width and none is a prefill; otherwise it runs eagerly beside the
captured graphs. Context parallelism, cascade, sinks, NVFP4 and
trtllm-gen prefill are left out.

### AllReduce

Each rank builds its communicators alone, picks one per call from what it knows,
and runs its program of calls. A value is the set of inputs summed in it and whether
the arithmetic was sound (one scale, no saturation, nothing twice). Collectives of
libraries match by order. Uncleared memory holds flags that match a sequence
number; a leftover segment of a killed process may carry the shared-memory name.

## 3. Runs

All runs pass.

| Run | Instance | States | Checks |
|---|---|---|---|
| `AutoSleep` | 4 setups: disk target with 2 failing calls; cpu target, batch queue of 2, manual sleep and partial wakes; exit target with full sleeps, pauses, resume, SIGTERM, 1 failure; reload target. 2 requests, 2 ranks, 3 timers | 1.7 M | `BatchResident`, `SettledIdle`, `OnlyClientsAbort`, `IdleWindowHonoured` |
| `AutoSleepLive` | reload target, 2 requests, 1 failure, fairness | 183 k | `EventuallySleeps`, `RequestAnswered` |
| `DiskSleep` | 2 ranks, 2 weights, 1 cache allocation, 2 faults, 1 damaged region, with and without a batch in flight, fairness | 569 k | `TypeOK`, `NothingLost`, `ServesIntact`, `KeepsStore`, `AllCommittedBeforeUnmap`, `SleepWakeEnds` |
| `DeepSleep` | 2 requests, 2 attempts, 2 failing, 1 crash, fairness | 18 k | `TypeOK`, `OneRespawn`, `OpenGateMeansEngine`, `DeadOnlyByCrash`, `FreshRespawn`, `GateAnswers`, `OrphansReaped` |
| `DPWaves` | 2 engines, 2 requests, synchronising every 2 steps, 3 inputs among requests, aborts and calls | 3.4 M | `RanksTogether`, `InLockstep`, `NeverStranded` |
| `DPClient` | 2 engines growing to 3 or shrinking to 1, 2 requests, one naming its engine, 1 scaling, 1 failure, fairness | 572 k | `InflightExact`, `ScalesTogether`, `EveryRequestEnds` |
| `ModelRunner` | 2 requests with prompts of one token, 2 slots, 3 blocks of 2, 1 draft, 2 steps ahead, 1 switch | 460 k | `CachesHoldPrefixes`, `CountsAgree` |
| `GdnMetadata` | 10 configurations, 2 or 3 requests | 252 k | `StateKept`, `TokensInPlace`, `FastAgrees` |
| `FlashInferMeta` | 10 configurations, 2 requests, 2 steps | 131 k | `AttendsOwn`, `GraphsPlanned` |
| `Startup` | 4 configurations (2 of them MoE, with a coordinator), 2 engines of 2 workers, 1 fault, fairness | 212 k | `BuiltSoundly`, `OnlyFaultsKill`, `StartupEnds` |
| `AllReduce` | 5 groups of 2 and 4 ranks, leftover segment or none, 1 fault, fairness | 270 k | `ExchangeExact`, `EveryCallReturns` |
| `RequestPath` | 8 setups of one or two calls, crashes or faults in five, fairness | 691 k | `YieldedInOrder`, `NoneLost`, `EveryCallEnds` |

Some of these are conjunctions of named parts, each stated and explained in its
module:

| Property | Parts |
|---|---|
| `SettledIdle` (`AutoSleep`) | `TypeOK`, `PokeOnItsWay`, `SettledAtRest` |
| `RanksTogether` (`DPWaves`) | `TypeOK`, `ResumedTogether`, `AwakeTogether`, `PauseHolds` |
| `ScalesTogether` (`DPClient`) | `TypeOK`, `RoutesToServing`, `ExpertsPerEngineFixed`, `ResumedAfterSwitch` |
| `CachesHoldPrefixes` (`ModelRunner`) | `CacheHoldsPrefix`, `DraftHoldsPrefix` |
| `CountsAgree` (`ModelRunner`) | `TypeOK`, `PlannedLongEnough`, `TokensAgree` |
| `TokensInPlace` (`GdnMetadata`) | `TypeOK`, `EveryTokenOnce`, `StatesApart`, `OutputsInPlace` |
| `GraphsPlanned` (`FlashInferMeta`) | `TypeOK`, `FixedSizePlans`, `AdapterGates` |
| `BuiltSoundly` (`Startup`) | `TypeOK`, `LengthsAgree`, `LayoutsAgree`, `ClientKnows`, `WithinRequested`, `GraphsPointAtWorkspace` |
| `ExchangeExact` (`AllReduce`) | `TypeOK`, `SumExact`, `NotOvertaken`, `NameFreed` |
| `NoneLost` (`RequestPath`) | `TypeOK`, `NoOrphans`, `NothingForgotten`, `CapHeld` |

Deadlock is checked except where the system may stop by itself: a start-up that
ended, a request path, step sequence or group whose calls are over, and a deep
sleep whose requests have all been served.

### Bounds

* `Timers` bounds the timer objects alive at the same time: one live, one being
  cancelled, one a thread of a past idle period. `Timeout = 2`, `Early = 1` tell a
  whole window, a partial one, an early timer and a re-armed one apart.
* Two failures or faults where the second can hit the handling of the first (a
  rollback, a cancellation); one where a failure is final. `MaxCalls = 2`: a
  rollback queued behind a suspend is the deepest queue the engine builds.
* `MaxEngines`, `MaxTasks` of `DeepSleep` are exact: a request starts at most one
  task, and a failure at most one more process.
* `DPWaves`: `SyncInterval = 2` separates steps that synchronise from steps that do
  not; three inputs are a request, a pause and a resume in every order.
* `DPClient`: sizes 1 to 3 let a scaling add and remove an engine that is not the
  only one. The run has one scaling, up or down; the theorems hold for any number,
  and the inductive invariant was checked through three.
* `ModelRunner`: blocks of 2 and sequences of 4 make a request cross a block; three
  blocks for two requests force preemption and reuse, and a preempted request comes
  back with a prompt of several chunks; `MaxAhead = 2` is the batch queue of
  asynchronous scheduling.
* `Startup`: what a worker has free and what its graphs take differ per worker, so
  each may be the weakest; what profiling measures is one value. All four
configurations reach serving, the coordinated ones among them; in the first of those
the estimate of the graphs decides whether a sequence still fits.
* `GdnMetadata`: capture sizes at and below the largest batch, so that padded,
  exact and uncaptured batches occur; three requests mix all three kinds of row.
* `FlashInferMeta`: the second step finds every state the first can leave in the
  buffers; longer histories only repeat it.
* `AllReduce`: messages of 1 to 5 elements against chunks of 2 are below, at and
  above one chunk with a short last one; four ranks give two butterfly rounds.
* `RequestPath`: four send buffers, slices of 1 and 2, at most two tokens. The faults
  of a setup fail the preprocessing, the input, the reader or the handler; each kind
  of call meets one, alone or beside a call that competes for its place.

### Fairness

Event loops, main loops, threads and processes that can go on do (weak fairness per
task, rank, process or thread); nothing is assumed of clients, operators, crashes
or faults. In addition: `AutoSleep` assumes that a batch returns and, strongly
fair, that each request ends after finitely many batches (`max_tokens`), and
`AutoSleepLive` sets `Early = 0`, since timers that are always early could restart
the window without end. `DeepSleep` assumes that a launch returns or fails, which
`wait_for` in `_respawn_engine_with_retries` enforces. `Startup` assumes that the
client's handshake timeout and its monitor act. In `RequestPath` every action uses
something up, so one fairness condition on the whole suffices.

## 4. Proofs

The theorems hold for every value of the constants that satisfies the named
assumption of the module (`ConstantsAssumption` and `SetupAssumption` of `AutoSleep`, `DiskAssumption`,
`DeepSleepAssumption`, `DPAssumption`, `DPClientAssumption`, `StartupAssumption`, `BuffersAssumption` and
`SetupsAssumption` of `RequestPath`):
bounds are natural numbers, positive where nothing could happen otherwise, there is
a rank (at least two data-parallel ones), and sets that must not overlap do not.
They need no fairness.

| Module | Theorem | Property |
|---|---|---|
| `AutoSleepProofs` | `AlwaysSettledIdle` | `SettledIdle` |
| | `WindowAlwaysHonoured` | `IdleWindowHonoured` |
| | `AlwaysOnlyClientsAbort` | `OnlyClientsAbort` |
| | `AlwaysBatchResident` | `BatchResident`, for the setups of `Careful` |
| `DiskSleepProofs` | `TypeCorrect` | `TypeOK` |
| | `NoWeightsLost` | `NothingLost` |
| | `ImplementsStore` | `KeepsStore` |
| | `ServedIntact` | `ServesIntact` |
| | `TwoPhases` | `AllCommittedBeforeUnmap` |
| `DeepSleepProofs` | `TypeCorrect` | `TypeOK` |
| | `RespawnShared` | `OneRespawn` |
| | `RespawnFresh` | `FreshRespawn` |
| | `GateOpenOnEngine` | `OpenGateMeansEngine` |
| | `OnlyCrashKills` | `DeadOnlyByCrash` |
| | `RetriesReap` | `OrphansReaped` |
| `DPWavesProofs` | `AlwaysRanksTogether` | `RanksTogether`, for the callers of `Careful` |
| | `AlwaysInLockstep` | `InLockstep`, for the callers of `Careful` |
| `DPWakeProofs` | `AlwaysNeverStranded` | `NeverStranded`, for the callers of `Disciplined` |
| `DPClientProofs` | `InflightAlwaysExact` | `InflightExact` |
| | `AlwaysScalesTogether` | `ScalesTogether` |
| `StartupProofs` | `AlwaysBuiltSoundly` | `BuiltSoundly` |
| | `AlwaysOnlyFaultsKill` | `OnlyFaultsKill` |
| `RequestPathProofs` | `AlwaysNoneLost` | `NoneLost` |

The inductive invariants were model-checked before they were proved, where possible
on larger instances than the runs'.

### Auto-sleep

`AInv` follows the loop between two looks at the handle. `SettledIdle` says that an
awake idle engine has a poke on its way, which is not inductive: a timer may have
been set by an idle period that a request has ended since. `HandleInv` says that the
handle is a timer being created or one that has not posted; `RestInv` that a loop
about to block is asleep or poked; `LoopInv` that a loop settling down has no work.
`WindowInv`, for a batch queue of one, relates the controller's clock `idleAge` to
the engine's rest `quiet`: no timer is set while requests are known, and the clock
of a set timer is never ahead; so a stale or early poke is ignored or re-armed.
`ExitInv` says that the controller's own exit finds the scheduler empty.

`BatchResident` does not hold for every setup, and `AlwaysBatchResident` states for
which it does (`Careful`): without failing calls, unless the operator resumes, uses
mode *wait*, sleeps at level 2 without the reload target, or wakes a reload engine
by hand; with failing calls, without an operator or a batch queue and not for the
reload target. TLC finds a counterexample when any one of these is dropped; section 6
lists them. The strengthening `ResidentInv` says that ranks and executor agree about
what is unmapped, and that an engine asleep has nothing it could schedule.

### Disk sleep

`NothingLost` alone is not inductive: a cancel deletes the snapshot, which is safe
only if everything is still mapped. `RankInv` says what a rank maintains by itself,
whatever the engine asks: without a snapshot all is mapped and intact; with one it
is complete, and what is mapped is intact; and only a suspend under way leaves
something unmapped while the backend calls itself RUNNING, so `cancel`, which
checks for RUNNING, never drops the last copy. Since no conjunct mentions the
engine's control, `NoWeightsLost` also covers faults, damage and batches in flight.

`ImplementsStore` rests on the same invariant. By `PlaceOf` the abstract place of a
weight depends only on whether its rank has a snapshot and whether it is unmapped;
`WorkerMoves` shows that a step of a rank leaves both alone or saves, discards,
unloads or loads; `StoreStep` turns that into a step of `WeightStore`.

`ServedIntact` and `TwoPhases` do depend on control. `ControlInv` adds, for every
phase of the engine, the calls a rank may still have queued (`Asked`) and what its
reply stands for: in `suspend` every rank has a snapshot; in `rollback` an `ok`
stands for a rank that is mapped again, even if a suspend was still queued in front
of the resume. The properties except a batch in flight, and have to (section 6).

### Deep sleep

* `TaskInv`: a task that runs is the one in the slot, and a task in its back-off has
  an attempt left. `OneRespawn` and the bound on attempts follow.
* `WatchInv`: an engine that serves is watched, one that never served is not, and
  neither is the process that the next attempt reaps; while the gate is open, the
  monitor of the routed engine has not returned.
* `ExitInv`: without a crash, an engine that ended under a watching monitor has said
  so: the client sleeps or the sentinel is still in the socket. The proof uses the
  assumption `ExitsAreOver` where `Ready` clears `engine_sleeping`.
* `OrphanInv`: until a respawn gives up, a process left behind is the manager's, and
  the task that left it is backing off or about to reap; so the next launch finds
  none, which is `OrphansReaped`.

### Data-parallel waves

Neither `RanksTogether` nor `InLockstep` is inductive: ranks drift apart not in a
collective but on the way
to it, through a message that only one of them obeys. `WInv` has two parts besides
the types. `WaveInv`: all ranks are always in one wave, and no request, broadcast or
report on its way, nor the coordinator's or the client's view, is of a later one; so
`add_request` and START_DP_WAVE never move a rank's wave, and only the all-reduce
does, on all ranks. `Phased`: an operator's call goes through phases that all ranks
are in at once - nothing called, a pause on its way to ranks that are awake or asleep
(each rank either has not read it and its queue holds it once, or has registered it),
agreed, stopped, a resume on its way. `Soft` names what requests, aborts, START
messages and steps before the collective do to a rank in any phase; `PhaseKeeps`
shows once that such steps keep every phase, and the rest of the proof is what a
call, an answer, the forward pass, the all-reduce and the barrier do.

`Careful` asks for discipline *paused* only (a resume undoes a pause, calls do not
overlap), and that no pause in mode *wait* is used beside a sleep in mode *keep*:
TLC shows that otherwise the second pause makes a sleeping rank run the requests it
kept. `NeverStranded` needs *settled* and *admitted* too (`Disciplined`): section 6
has what happens without them.

`NeverStranded` (`DPWakeProofs`) is about messages: one rank is in a forward pass, another idle, and
something still under way has to wake it. Its invariant `SInv` adds `NInv` to
`WInv`. While nobody has called anything, the current wave is in one of two states
(`GatherInv`). In `Gathering` no collective has happened; as soon as anybody counts
on the wave (`Wanted`: a rank that runs or holds a request, a START under way, a view
of it as running), every rank either will step by itself (`On`) or will be told
(`Woken`), by a START that does not exclude it or by a report or first request of
another rank that makes the coordinator tell all. The all-reduce leads to `Running`,
where every rank knows, or to the next wave, on which nobody counts yet. While the
ranks stop and until they resume, a wave may be wanted only because of a request that
a rank keeps (`HaltInv`), since the resume finds it on that rank and runs all;
`SettledInv` says that a resume finds no news of the wave behind it in any queue,
which is what *settled* is for. An abort is the other way in which a reason to step
could vanish; *admitted* confines it to requests that some rank has begun, and
`PlaceInv` follows each request (in one queue, waiting at one rank, begun there) to
show that such an abort finds it neither queued nor waiting. `ViewInv` keeps the
coordinator from being behind the client. TLC checked `NInv` on the instance of the
run, 3.4 million states, before it was proved.

### Multi-engine client

`DInv` says for every phase of a scaling which control message each engine still has
in its queue, exactly once (`QueueInv`), which engines have prepared, paused,
switched and resumed (`EngineInv`, `PauseInv`), what the client's tables hold
meanwhile (`TableInv`), that the count of an engine is the number of requests the
client believes there (`InflightExact` itself, with `RequestInv`: a request is at one
engine and ends once), and that the experts follow the size (`ExpertInv`). Proving it
found two places where the model said less than the code: the slice of `lb_engines`
in `Commit` truncates at the list's end (`core_client.py:2053`), and the set of
requests has to be finite for counts to be counts.

### Start-up

`SInv` follows a worker's record from the stage that writes a field to the last one
that reads it (`WorkerInv`): the layout is resolved before anything is allocated with
it, length and blocks are fitted before tables are made for them, and a workspace
that graphs point into or that is locked is as large as any run asks for.
`ClientInv`: the engines the client has heard do not change any more, and its length
and blocks are the least and the total of theirs. `OnlyFaultsKill` is inductive
together with these: each of the code's own reasons to die contradicts a settled
fact, so only an injected fault remains.

### Request path

`NoneLost` speaks of one moment: a request the front end waits for has its input on
the way, runs, or has its answer on the way. To keep that, `RInv` follows the whole
way. `FeederInv`: a task that feeds a stream belongs to a call that is being read.
`WireInv`: a buffer is free, pending or being sent once at most, so it is only written
when zmq is done with it and what is in flight still says what the engine said.
`HandlerInv`: nobody is told of a death while the reader and the handler run. `PathInv`
holds while front end and engine are connected (`Connected`: the engine is up, the
client does not take it for dead, reader and handler run; afterwards nothing gets
through any more, and `NoneLost` says nothing about requests): on the way to the engine no input of
a request follows what ends it (`OrderInv`), which is what both abort queues rely on;
nothing that ends a request is anywhere while the front end may still send inputs of
it (`OpenInv`); what the front end waits for nobody has aborted (`ServedInv`); an
answer that ends a request is the last word (`AnswerInv`); and what the engine has to
do somebody waits for or has aborted (`OrphanInv`). `CapInv` counts the requests that
are not children of a fan-out; only those of a fan-out, admitted at once before the
first is registered, can exceed the cap.

## 5. What is only model-checked, and what is not modelled

Model-checked only: all liveness (`EventuallySleeps`, `RequestAnswered`,
`SleepWakeEnds`, `GateAnswers`, `EveryRequestEnds`, `StartupEnds`,
`EveryCallReturns`, `EveryCallEnds`), because the prover has no support for fairness
and ENABLED; the properties of `ModelRunner`, `GdnMetadata`,
`FlashInferMeta` and `AllReduce`; and `YieldedInOrder` of `RequestPath`. The model
runner and the metadata rest on what recursive definitions over rows and blocks
compute, and `YieldedInOrder` on what `SelectSeq` makes of sequences of tokens, which
needs induction over data; `AllReduce` sums over sets of ranks.

Assumptions of the models beyond those in section 2: collective calls match replies
to calls; a failing map or unmap has no effect of its own; the deep-sleep sentinel
is flushed before the process exits and read within the monitor's grace of 0.5 s; an
exit is over when the next engine is ready; a process left behind by an attempt that
timed out does not become ready later; a second automatic sleep is not begun while a
deferred one is pending; `shutdown_timeout` is 0 (abort), the default.

Not modelled, besides the components marked so in `PROJECT.json`:

* engine: drain shutdown, structured output, KV connectors, LoRA, profiling;
* clients: `SyncMPClient`, multimodal cache misses, admission counters shared by
  several API servers, launch of elastic and externally managed engines;
* workers: pipeline and context parallelism, encoder inputs, pooling, adaptive
  verification, and the numbers that kernels compute;
* collectives: MNNVL, AITER, QuickReduce, symmetric memory, FlashInfer's own;
* configuration (`arg_utils.py`, `config/`, `envs.py`) is validation without state
  that changes; the console, the P-state supervisor and the installers are not
  Python services of the engine and have no run yet.

## 6. Known behaviours outside the properties

Behaviours the models have that a property excepts or an assumption excludes.

Sleep:

* `_poke` clears `self._timer` on the timer thread between the main loop's test of
  the handle and its use (`auto_sleep.py:413`, `356-360`): the loop ends with an
  AttributeError. `AutoSleep` follows it to the death of the engine.
* A failed level-2 sleep (reload target) is rolled back by waking the ranks, but the
  weights they discarded are not reloaded (`auto_sleep.py:488`); `BatchResident` is
  therefore checked for that target without failures.
* A *deferred* sleep that fails fails only its future (`core.py:952`); nothing rolls
  the ranks back, though `disk_sleep.py:108` expects it, and the next request is
  scheduled on unmapped ranks. `ServesIntact` excepts a batch in flight.
* `resume_scheduler` on an engine that sleeps resumes it (`BatchResident` excepts
  operators who call it); `on_request_arrival` takes an operator's pause for a sleep
  and resumes.
* Other calls after which a batch runs without its memory: a sleep in mode *keep*
  followed by a pause in mode *wait*, which schedules the requests kept; a manual
  wake-up of a reload engine, which maps weights and does not load them; a level-2
  sleep by hand of an engine that does not reload; an operator's sleep that fails
  half way, followed by a wake-up that finds nothing to do (`AutoSleepProofs!Careful`
  excludes them).
* With a batch queue a stale poke may be taken while a batch whose requests were all
  aborted is in flight (`IdleWindowHonoured` is for queues of one).
* An ADD that races a deep-sleep exit is rejected into an output thread that has
  already stopped (`core.py:1633`): the client waits for ever.
* The first attempt of a respawn launches beside the process that an earlier respawn
  that gave up has left behind (`async_llm.py:1399`).
* If an exit outlasts the respawn of the next engine, its monitor finds
  `engine_sleeping` cleared and declares the engine dead (excluded by
  `ExitsAreOver`).

Data parallelism:

* A request sent while ranks are being resumed starts a wave whose START_DP_WAVE a
  rank not yet resumed discards; a stale START across a pause and a resume wakes one
  rank alone; two pauses at once, or a resume without a pause that meets a first
  request, desynchronise the ranks (discipline *paused*, *settled*).
* An abort that empties a rank before its first step makes it idle ("All engines are
  idle.", `core.py:2304`) while the others wait for it (discipline *admitted*).
* Resuming engines that sleep runs a forward pass on unmapped memory, and so does a
  pause in mode *wait* of engines put to sleep in mode *keep*.
* A failed commit of a scaling (`EveryRequestEnds` excepts it) leaves the engines paused, `_prepared_elastic_ep` set
  and the scaling flag of the HTTP layer on (`async_llm.py:1274-1280`).

Requests:

* Utility calls of an engine that died or sleeps are never failed
  (`core_client.py:1301`), nor are those under way when the client's reader fails
  (`core_client.py:1257`), which nobody starts again.
* When the output handler fails on an exception of its own (`async_llm.py:908`), the
  engine lives and nobody starts the handler again (`async_llm.py:833`). New calls are
  refused, but a call that is already past the `errored` check and registers later
  (`async_llm.py:541-556`) waits for ever. `EveryCallEnds` excepts it
  (`handler.missed`). If a slice raises, the requests that stop strings ended in
  it are not aborted and go on in the engine.
* A preprocessing error on a later chunk of a streamed session ends the front end's
  part and leaves the session in the engine; a late chunk can revive it. A chunk fed
  between an abort and the end of `generate()` opens a session nobody ends.
* `max_num_queued_reqs` may be exceeded by fan-outs (`CapHeld` says by how much).

Worker:

* `update_max_model_len` does not reach the drafter's own `max_model_len`
  (`speculator.py:333`, `406`); its base class is outside the repository.
* Switching speculation off while the last accepted count of a request is more than
  one leaves its recurrent state at an offset the plain decode does not read.
* Near `max_model_len` the drafter's queries are clamped to the end of the block
  table and overwrite its last entry (`DraftHoldsPrefix` excepts them).

All-reduce:

* With four ranks or more a butterfly's barrier can be overtaken: the next round has
  another partner, a fast rank moves its flag on, and its slow partner waits for a
  value that is gone (`firefly_allreduce.py:59-66` claims any power of two).
* A rank that attaches before rank 0 has unlinked a leftover segment maps that one
  (`firefly_allreduce.py:303` relies on retries); its old flags may match.
* A rank that fails a set-up step alone falls back to NCCL alone, and its peers wait;
  rank 0's failing registration leaves the name behind; `_init_p2p` clears peers'
  flags without a barrier, which the group's later set-up collectives make harmless;
  registered graph inputs with piecewise graphs fail at capture.

## 7. Plan

1. (done) `AutoSleep`, `DiskSleep`, `DeepSleep`, first proofs.
2. (done) Data parallelism, clients, request path, start-up, model runner, attention
   metadata, all-reduce; `WeightStore` and the refinement.
3. (done) Proofs about `AutoSleep`, `DPWaves`, `DPClient` and `Startup`.
4. (done) Proofs about `RequestPath`, and that no rank of `DPWaves` is stranded.
5. Proofs: `ExchangeExact` of `AllReduce` for groups of two.
6. An abstract respawn gate (closed, opening, open) that `DeepSleep` implements.
7. Late launch threads in `DeepSleep`; the console's process supervision.
