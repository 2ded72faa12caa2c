----------------------------- MODULE AutoSleep -----------------------------
(***************************************************************************)
(* The idle auto-sleep controller (vllm/v1/engine/auto_sleep.py) together  *)
(* with the part of EngineCoreProc it hooks into (vllm/v1/engine/core.py): *)
(* the busy loop, the input queue, the batch queue, pause / sleep /        *)
(* wake_up and the timer threads that poke the loop.                       *)
(*                                                                         *)
(* Three kinds of actors run concurrently: the engine's main loop (pc),    *)
(* any number of threading.Timer threads (timers), and the frontend, which *)
(* puts messages on input_queue.  Everything the main loop does between    *)
(* two accesses to state another thread writes is one step; the handle     *)
(* self._timer is the only such state, so the statements that dereference  *)
(* it are steps of their own.                                              *)
(*                                                                         *)
(* The scheduler (waiting / running requests, its pause state) and the     *)
(* executor (collective RPCs, is_sleeping, sleeping_tags) are external to  *)
(* the repository and modelled from how core.py uses them.                 *)
(***************************************************************************)
EXTENDS Integers, Sequences, FiniteSets

CONSTANTS
  Requests,        \* request ids; each is sent at most once
  Ranks,           \* tensor-parallel workers behind the executor
  Timers,          \* bound: Timer objects that can exist at the same time
  NoTimer,         \* self._timer is None
  Timeout,         \* VLLM idle timeout, in clock ticks
  Early,           \* a Timer may fire this many ticks early
  Setups           \* the engines considered, see SetupAssumption

Tags == {"weights", "kv_cache"}

\* The operator's calls.  "wake" carries the tags argument ({} is None).
UserOp ==
       [op : {"sleep"}, level : 0..2, mode : {"abort", "wait", "keep"}]
  \cup [op : {"pause"}, mode : {"abort", "wait", "keep"}]
  \cup [op : {"wake"}, tags : SUBSET (Tags \cup {"scheduling"})]
  \cup [op : {"resume", "sigterm"}]

\* from_env turns auto-sleep off without a timeout and raises for any other
\* target, so a controller has one of these
OFFLOAD_TARGETS == {"cpu", "reload", "exit", "disk"}

ASSUME ConstantsAssumption ==
  /\ NoTimer \notin Timers
  /\ Timeout \in Nat \ {0}
  /\ Early \in 0..1

\* A setup gives the offload target, the batch queue (1: step(), >= 2:
\* step_with_batch_queue()), the requests clients may send, the calls and
\* signals the operator may issue, and bounds on how many of these calls and
\* how many failing worker RPCs there are in a behaviour.
ASSUME SetupAssumption ==
  \A s \in Setups :
    /\ s.target \in OFFLOAD_TARGETS
    /\ s.queue \in Nat \ {0} /\ s.requests \subseteq Requests
    /\ s.ops \subseteq UserOp /\ s.maxOps \in Nat /\ s.maxFailures \in Nat

VARIABLES
  setup,     \* the engine at hand, fixed from the start
  pc,        \* where the main loop is
  ret,       \* where it continues after arming a timer
  cur,       \* the message being handled while the handle is dereferenced
  inq,       \* EngineCoreProc.input_queue
  abq,       \* EngineCoreProc.aborts_queue
  waiting, running, finished,  \* scheduler queues; finished_req_ids # {}
  pause,     \* scheduler.pause_state
  batch,     \* batch_queue, oldest first: the requests of each batch
  execTags,  \* executor.sleeping_tags; executor.is_sleeping iff # {}
  mem,       \* per rank, the tags whose memory is offloaded
  weights,   \* FALSE: the weights were discarded and not reloaded
  pend,      \* idle callbacks: pauses under way, and the sleeps behind them
  shutdown,  \* shutdown_state
  state,     \* AutoSleepController._state
  handle,    \* AutoSleepController._timer
  timers,    \* the Timer threads
  keeper,    \* a PageCacheKeeper is running
  idleAge,   \* now - _last_activity, saturating at Timeout
  quiet,     \* history: ticks since the engine last had work
  outcome,   \* per request, what its client has seen
  nUser, nFail \* operator calls and RPC failures so far

sched  == <<waiting, running, finished, pause>>
worker == <<execTags, mem, weights>>
ctl    == <<state, keeper, idleAge>>
clock  == <<timers, handle>>
loop   == <<pc, ret, cur>>
vars   == <<pc, ret, cur, inq, abq, waiting, running, finished, pause, batch,
            execTags, mem, weights, pend, shutdown, state, handle, timers,
            keeper, idleAge, quiet, outcome, nUser, nFail, setup>>

Target == setup.target
BatchQueueSize == setup.queue
UserOps == setup.ops
MaxUserOps == setup.maxOps
MaxFailures == setup.maxFailures

NoMsg == [type |-> "NONE"]
WAKEUP == [type |-> "WAKEUP"]
\* A pause to be finished: the level of the sleep it is for (0: no memory is
\* touched) and whether the caches are cleared
Pending == [level : 0..2, clear : BOOLEAN]

Message ==
       {WAKEUP}
  \cup [type : {"ADD", "ABORT"}, req : Requests]
  \cup [type : {"UTILITY"}, call : UserOps]

\* AutoSleepConfig.sleep_level: level 1 keeps a copy of the weights.
SleepLevel == IF Target \in {"cpu", "disk"} THEN 1 ELSE 2

\* Type invariant: the state of the loop, the controller, its timers and the requests.
TypeOK ==
  /\ pc \in {"top", "loop", "callbacks", "get", "drain", "step", "wait",
             "cancel", "cancelled", "daemon", "start", "dead", "exited"}
  /\ ret \in {"callbacks", "loop", "drain"}
  /\ cur \in Message \cup {NoMsg} \cup [type : {"REARM"}, left : 0..(Timeout + 1)]
  /\ inq \in Seq(Message)
  /\ abq \subseteq Requests
  /\ waiting \subseteq Requests /\ running \subseteq Requests
  /\ finished \in BOOLEAN
  /\ pause \in {"UNPAUSED", "PAUSED_NEW", "PAUSED_ALL"}
  /\ batch \in Seq(SUBSET Requests)
  /\ execTags \subseteq Tags
  /\ mem \in [Ranks -> SUBSET Tags]
  /\ weights \in BOOLEAN
  /\ pend \in Seq(Pending)
  /\ shutdown \in {"RUNNING", "REQUESTED", "SHUTTING_DOWN"}
  /\ state \in {"ACTIVE", "SLEEPING", "WAKING", "EXITED"}
  /\ handle \in Timers \cup {NoTimer}
  /\ timers \in [Timers -> [st : {"off", "created", "armed", "fired", "cleared"},
                            left : 0..(Timeout + 1)]]
  /\ keeper \in BOOLEAN
  /\ idleAge \in 0..Timeout /\ quiet \in 0..Timeout
  /\ outcome \in [Requests -> {"new", "sent", "done", "aborted", "rejected"}]
  /\ nUser \in 0..MaxUserOps /\ nFail \in 0..MaxFailures

-----------------------------------------------------------------------------
(* The scheduler and the engine's own predicates.                          *)

\* scheduler.has_requests(): unfinished requests the pause state lets it see,
\* or finished ones not yet removed from the worker's batch.
HasRequestsIn(p, w, r, f) ==
  f \/ (p = "UNPAUSED" /\ w # {}) \/ (p # "PAUSED_ALL" /\ r # {})

HasRequests == HasRequestsIn(pause, waiting, running, finished)

HasWork == HasRequests \/ batch # <<>>

IsSleeping == pause # "UNPAUSED" \/ execTags # {}

IsRunning == shutdown = "RUNNING"

Alive == pc \notin {"dead", "exited"}

\* finish_requests(R, FINISHED_ABORTED) on requests the scheduler knows.
Abort(R) ==
  LET gone == R \cap (waiting \cup running)
  IN  /\ waiting' = waiting \ gone
      /\ running' = running \ gone
      /\ finished' = (finished \/ gone # {})
      /\ outcome' = [r \in Requests |->
                       IF r \in gone THEN "aborted" ELSE outcome[r]]

-----------------------------------------------------------------------------
(* The executor: one collective RPC to every rank.                         *)

\* Executor.sleep(level); a second sleep is a warning and a no-op.
ExecutorSleep(level) ==
  IF execTags # {} THEN UNCHANGED worker
  ELSE /\ execTags' = Tags
       /\ mem' = [r \in Ranks |-> Tags]
       /\ weights' = (weights /\ level = 1)

\* Some rank raises: any set of ranks may already be asleep, is_sleeping is
\* not set.
ExecutorSleepFails(level) ==
  /\ execTags = {} /\ nFail < MaxFailures
  /\ nFail' = nFail + 1
  /\ \E S \in SUBSET Ranks :
       /\ mem' = [r \in Ranks |-> IF r \in S THEN Tags ELSE mem[r]]
       /\ weights' = (weights /\ (level = 1 \/ S = {}))
  /\ UNCHANGED execTags

\* Executor.wake_up(tags); {} stands for None, everything.  A tag that is not
\* asleep, or an executor that is not, is a warning and a no-op.
ExecutorWakeUp(tags) ==
  LET woken == IF tags = {} THEN Tags ELSE tags
  IN  IF execTags = {} \/ ~ tags \subseteq execTags
      THEN UNCHANGED <<execTags, mem>>
      ELSE /\ execTags' = execTags \ woken
           /\ mem' = [r \in Ranks |-> mem[r] \ woken]

-----------------------------------------------------------------------------
(* EngineCore.pause_scheduler, sleep and wake_up.                          *)

PauseStateOf(mode) == IF mode = "keep" THEN "PAUSED_ALL" ELSE "PAUSED_NEW"

\* Whether the pause completes at once: nothing left to step afterwards.
PauseRequestsDone(mode) ==
  LET w == IF mode = "abort" THEN {} ELSE waiting
      r == IF mode = "abort" THEN {} ELSE running
      f == finished \/ (mode = "abort" /\ waiting \cup running # {})
  IN  ~ HasRequestsIn(PauseStateOf(mode), w, r, f)

PauseComplete(mode) == PauseRequestsDone(mode) /\ batch = <<>>

\* _finish_pause synchronises the devices; _reset_caches then preempts the
\* requests that were running, since their KV cache goes
FinishPause(clear) ==
  /\ waiting' = IF clear THEN waiting \cup running ELSE waiting
  /\ running' = IF clear THEN {} ELSE running

\* pause_scheduler; a pause that is not complete yet is left to a callback
PauseScheduler(mode, clear) ==
  /\ pause' = PauseStateOf(mode)
  /\ IF mode = "abort" THEN Abort(Requests)
     ELSE /\ FinishPause(clear /\ PauseComplete(mode))
          /\ UNCHANGED <<finished, outcome>>

\* _finish_pause raises in one of its RPCs, before or after the preemption
FinishPauseFails(mode) ==
  /\ PauseComplete(mode)
  /\ nFail < MaxFailures /\ nFail' = nFail + 1
  /\ \E clear \in BOOLEAN : PauseScheduler(mode, clear)

\* The pause is still pending: an idle callback will finish it, and the
\* executor is put to sleep behind it (EngineCore.sleep)
Defer(level, clear) ==
  /\ pend' = Append(pend, [level |-> level, clear |-> clear])
  /\ UNCHANGED worker

\* Mutant: the scheduler is not resumed.
WakeUpStaysPaused(tags) ==
  LET memTags == tags \ {"scheduling"}
  IN  /\ IF tags # {} /\ memTags = {} THEN UNCHANGED <<execTags, mem>>
         ELSE ExecutorWakeUp(memTags)
      /\ UNCHANGED pause

\* EngineCore.wake_up(tags)
WakeUp(tags) ==
  LET memTags == tags \ {"scheduling"}
      skip    == tags # {} /\ memTags = {}
  IN  /\ IF skip THEN UNCHANGED <<execTags, mem>> ELSE ExecutorWakeUp(memTags)
      /\ pause' = IF execTags' = {} THEN "UNPAUSED" ELSE pause

-----------------------------------------------------------------------------
(* AutoSleepController: what the main loop runs.                           *)

\* threading.Timer(left, self._poke), assigned to self._timer but not started.
\* The loop dereferences the handle twice more, to set .daemon and to .start().
Arm(left, back) ==
  \E t \in Timers :
    /\ timers[t].st = "off"
    /\ timers' = [timers EXCEPT ![t] = [st |-> "created", left |-> left]]
    /\ handle' = t
    /\ pc' = "daemon" /\ ret' = back /\ cur' = NoMsg

\* An AttributeError, or any other exception, in a handler: the busy loop is
\* left and the process dies.
Die == pc' = "dead" /\ cur' = NoMsg /\ ret' = "loop"

Continue(back) == pc' = back /\ cur' = NoMsg /\ ret' = "loop"

\* _start_keeper, with a checkpoint path and an interval that is not 0, and
\* _stop_keeper, which joins the thread
KeeperStarts == keeper' = (keeper \/ Target = "reload")
KeeperStops(stop) == keeper' = (keeper /\ ~ stop)

\* The engine was woken through the development endpoint.
WokenManually == state = "SLEEPING" /\ ~ IsSleeping

ArmsOnIdle ==
  /\ state = "ACTIVE" \/ WokenManually
  /\ handle = NoTimer
  /\ ~ IsSleeping

\* Mutant: the window still counts from the request's arrival.
OnIdleKeepsClock ==
  /\ state' = IF WokenManually THEN "ACTIVE" ELSE state
  /\ KeeperStops(WokenManually)
  /\ UNCHANGED idleAge
  /\ IF ArmsOnIdle THEN Arm(Timeout, "callbacks")
     ELSE Continue("callbacks") /\ UNCHANGED clock

\* on_idle, the idle-state callback: it only runs while the engine is running
OnIdle ==
  /\ state' = IF WokenManually THEN "ACTIVE" ELSE state
  /\ KeeperStops(WokenManually)
  /\ idleAge' = IF ArmsOnIdle THEN 0 ELSE idleAge
  /\ IF ArmsOnIdle THEN Arm(Timeout, "callbacks")
     ELSE Continue("callbacks") /\ UNCHANGED clock

\* _wake: the request waits while every rank is restored.
Wake ==
  \/ /\ WakeUp({})
     /\ weights' = (weights \/ Target = "reload")
     /\ KeeperStops(Target = "reload")
     /\ state' = "ACTIVE"
     /\ UNCHANGED nFail
  \/ /\ execTags # {} \/ Target = "reload"
     /\ nFail < MaxFailures
     /\ nFail' = nFail + 1
     /\ KeeperStops(Target = "reload")
     /\ state' = "SLEEPING"
     /\ UNCHANGED <<worker, pause>>

\* add_request: on_request_arrival once the timer is cancelled, and then
\* scheduler.add_request.  A failed wake leaves the loop with the exception.
AddRequest(r, back) ==
  /\ idleAge' = 0
  /\ IF IsSleeping THEN Wake
     ELSE /\ KeeperStops(TRUE) /\ state' = "ACTIVE"
          /\ UNCHANGED <<worker, pause, nFail>>
  /\ IF state' = "SLEEPING"
     THEN Die /\ UNCHANGED <<waiting, quiet>>
     ELSE /\ waiting' = waiting \cup {r}
          /\ quiet' = 0
          /\ Continue(back)
  /\ UNCHANGED <<abq, running, finished, batch, pend, shutdown, outcome, nUser>>

\* _sleep: the disk target first saves a snapshot on every rank and gives up,
\* with all models resident, when one of them fails.
DiskPrepareFails ==
  /\ Target = "disk" /\ nFail < MaxFailures
  /\ nFail' = nFail + 1
  /\ UNCHANGED <<sched, outcome, worker, pend, state, keeper>>

SleepNow(level) ==
  /\ PauseScheduler("abort", TRUE)
  /\ IF PauseComplete("abort")
     THEN ExecutorSleep(level) /\ UNCHANGED pend
     ELSE Defer(level, TRUE)
  /\ state' = "SLEEPING"
  /\ KeeperStarts
  /\ UNCHANGED nFail

\* Mutant: the rollback calls executor.wake_up, which returns early because
\* is_sleeping was never set.
SleepRolledBackByExecutor ==
  /\ PauseComplete("abort")
  /\ execTags = {} /\ nFail < MaxFailures
  /\ nFail' = nFail + 1
  /\ \E S \in SUBSET Ranks : mem' = [r \in Ranks |-> IF r \in S THEN Tags ELSE mem[r]]
  /\ state' = "ACTIVE"
  /\ UNCHANGED <<execTags, weights, sched, outcome, pend, keeper>>

\* Executor.sleep or the end of the pause raised: every rank is woken explicitly
\* and the scheduler is resumed; if that fails too, the exception leaves the loop.
SleepRolledBack ==
  /\ PauseComplete("abort")
  /\ execTags = {} /\ nFail < MaxFailures
  /\ \/ /\ nFail' = nFail + 1
        /\ mem' = [r \in Ranks |-> {}]
        /\ \E lost \in BOOLEAN : weights' = (weights /\ ~ (lost /\ SleepLevel = 2))
        /\ state' = "ACTIVE"
        /\ UNCHANGED <<execTags, sched>>
     \/ /\ nFail + 2 <= MaxFailures
        /\ nFail' = nFail + 2
        /\ \E S \in SUBSET Ranks :
             mem' = [r \in Ranks |-> IF r \in S THEN Tags ELSE mem[r]]
        /\ pause' = "PAUSED_NEW"
        /\ state' = "SLEEPING"
        /\ UNCHANGED <<execTags, weights, waiting, running, finished>>
  /\ UNCHANGED <<outcome, pend, keeper>>

AutoSleepStep(back) ==
  /\ \/ DiskPrepareFails /\ Continue(back)
     \/ SleepNow(SleepLevel) /\ Continue(back)
     \/ /\ SleepRolledBack
        /\ IF state' = "SLEEPING" THEN Die ELSE Continue(back)
  /\ UNCHANGED shutdown

\* _deep_sleep_exit and request_deep_sleep_exit
DeepSleepExit(back) ==
  /\ state' = "EXITED"
  /\ shutdown' = "REQUESTED"
  /\ Continue(back)
  /\ UNCHANGED <<sched, outcome, worker, pend, keeper, nFail>>

Rearm(left, back) ==
  /\ IF handle # NoTimer
     THEN /\ pc' = "cancel" /\ ret' = back
          /\ cur' = [type |-> "REARM", left |-> left]
          /\ UNCHANGED clock
     ELSE Arm(left, back)
  /\ UNCHANGED <<sched, outcome, worker, pend, state, keeper, shutdown, nFail>>

\* Mutant: requests that arrived after the timer fired are not looked for.
PokeIgnoredBlindly == state # "ACTIVE" \/ IsSleeping \/ ~ IsRunning

\* The early returns of on_wakeup_poke.
PokeIgnored == state # "ACTIVE" \/ IsSleeping \/ ~ IsRunning \/ HasRequests

IdleRemaining == Timeout - idleAge

\* on_wakeup_poke: the WAKEUP branch of _handle_client_request.  A tick is the
\* 0.001 s that a timer re-armed after an early poke adds to what remains.
OnWakeupPoke(back) ==
  /\ \/ /\ PokeIgnored
        /\ Continue(back)
        /\ UNCHANGED <<sched, outcome, worker, pend, state, keeper, shutdown,
                       nFail, clock>>
     \/ /\ ~ PokeIgnored /\ IdleRemaining > 0
        /\ Rearm(IdleRemaining + 1, back)
     \/ /\ ~ PokeIgnored /\ IdleRemaining = 0
        /\ IF Target = "exit" THEN DeepSleepExit(back) ELSE AutoSleepStep(back)
        /\ UNCHANGED clock
  /\ UNCHANGED <<abq, batch, idleAge, quiet, nUser>>

-----------------------------------------------------------------------------
(* Dispatch: one message of the input queue, on the main loop.             *)

\* on_request_arrival refreshes the idle clock and cancels the timer, which
\* takes a second look at the handle.
AcceptAdd(r, back) ==
  IF handle # NoTimer
  THEN /\ idleAge' = 0
       /\ pc' = "cancel" /\ ret' = back
       /\ cur' = [type |-> "ADD", req |-> r]
       /\ UNCHANGED <<abq, sched, batch, worker, pend, shutdown, state, keeper,
                      clock, quiet, outcome, nUser, nFail>>
  ELSE AddRequest(r, back) /\ UNCHANGED clock

\* ADD; in shutdown it is rejected.  (abort_immediately is an ADD directly
\* followed by an ABORT.)
HandleAdd(r, back) ==
  \/ IsRunning /\ AcceptAdd(r, back)
  \/ /\ ~ IsRunning
     /\ outcome' = [outcome EXCEPT ![r] = "rejected"]
     /\ Continue(back)
     /\ UNCHANGED <<abq, sched, batch, worker, pend, shutdown, ctl, clock,
                    quiet, nUser, nFail>>

HandleAbort(r, back) ==
  /\ Abort({r})
  /\ Continue(back)
  /\ UNCHANGED <<abq, pause, batch, worker, pend, shutdown, ctl, clock, quiet,
                 nUser, nFail>>

\* UTILITY: an exception is returned to the caller, the loop goes on.
UtilitySleep(level, mode) ==
  /\ PauseScheduler(mode, level > 0)
  /\ \/ /\ level = 0 /\ PauseComplete(mode)
        /\ UNCHANGED <<worker, pend, nFail>>
     \/ /\ level > 0 /\ PauseComplete(mode)
        /\ \/ ExecutorSleep(level) /\ UNCHANGED nFail
           \/ ExecutorSleepFails(level)
        /\ UNCHANGED pend
     \/ /\ ~ PauseComplete(mode)
        /\ Defer(level, level > 0) /\ UNCHANGED nFail

\* pause_scheduler as a call of its own clears the caches by default
UtilityPause(mode) ==
  /\ PauseScheduler(mode, TRUE)
  /\ \/ PauseComplete(mode) /\ UNCHANGED <<worker, pend>>
     \/ ~ PauseComplete(mode) /\ Defer(0, TRUE)
  /\ UNCHANGED nFail

HandleUtility(u, back) ==
  /\ \/ /\ ~ IsRunning
        /\ UNCHANGED <<sched, outcome, worker, pend, nFail>>
     \/ /\ IsRunning /\ u.op = "sleep"
        /\ UtilitySleep(u.level, u.mode)
     \/ /\ IsRunning /\ u.op = "pause"
        /\ UtilityPause(u.mode)
     \/ /\ IsRunning /\ u.op \in {"sleep", "pause"}
        /\ FinishPauseFails(u.mode)
        /\ UNCHANGED <<worker, pend>>
     \/ /\ IsRunning /\ u.op = "wake"
        /\ WakeUp(u.tags)
        /\ UNCHANGED <<weights, waiting, running, finished, outcome, pend, nFail>>
     \/ /\ IsRunning /\ u.op = "resume"
        /\ pause' = "UNPAUSED"
        /\ UNCHANGED <<waiting, running, finished, outcome, worker, pend, nFail>>
  /\ Continue(back)
  /\ UNCHANGED <<abq, batch, shutdown, ctl, clock, quiet, nUser>>

\* _handle_client_request
Handle(back) ==
  /\ inq # <<>>
  /\ inq' = Tail(inq)
  /\ LET m == Head(inq) IN
       \/ m.type = "WAKEUP" /\ OnWakeupPoke(back)
       \/ m.type = "ADD" /\ HandleAdd(m.req, back)
       \/ m.type = "ABORT" /\ HandleAbort(m.req, back)
       \/ m.type = "UTILITY" /\ HandleUtility(m.call, back)

\* _cancel_timer after its test: self._timer.cancel(); self._timer = None.
\* The timer thread may have cleared the handle in between.
CancelTimer ==
  /\ pc = "cancel"
  /\ IF handle = NoTimer
     THEN Die /\ UNCHANGED clock
     ELSE /\ timers' = [timers EXCEPT ![handle] =
                       IF @.st = "armed" THEN [st |-> "off", left |-> 0] ELSE @]
          /\ handle' = NoTimer
          /\ pc' = "cancelled"
          /\ UNCHANGED <<ret, cur>>
  /\ UNCHANGED <<inq, abq, sched, batch, worker, pend, shutdown, ctl, quiet,
                 outcome, nUser, nFail>>

\* The rest of the handler that cancelled the timer.
AfterCancel ==
  /\ pc = "cancelled"
  /\ UNCHANGED inq
  /\ \/ cur.type = "ADD" /\ AddRequest(cur.req, ret) /\ UNCHANGED clock
     \/ /\ cur.type = "REARM" /\ Arm(cur.left, ret)
        /\ UNCHANGED <<abq, sched, batch, worker, pend, shutdown, ctl, quiet,
                       outcome, nUser, nFail>>

\* self._timer.daemon = True
ArmDaemon ==
  /\ pc = "daemon"
  /\ IF handle = NoTimer THEN Die ELSE pc' = "start" /\ UNCHANGED <<ret, cur>>
  /\ UNCHANGED <<inq, abq, sched, batch, worker, pend, shutdown, ctl, clock,
                 quiet, outcome, nUser, nFail>>

\* self._timer.start()
ArmStart ==
  /\ pc = "start"
  /\ IF handle = NoTimer
     THEN Die /\ UNCHANGED timers
     ELSE timers' = [timers EXCEPT ![handle].st = "armed"] /\ Continue(ret)
  /\ UNCHANGED <<inq, abq, sched, batch, worker, pend, shutdown, ctl, handle,
                 quiet, outcome, nUser, nFail>>

-----------------------------------------------------------------------------
(* run_busy_loop                                                           *)

\* _handle_shutdown, with the default shutdown_timeout = 0 (abort)
HandleShutdown ==
  /\ pc = "top"
  /\ \/ IsRunning /\ pc' = "loop" /\ UNCHANGED <<sched, outcome, shutdown>>
     \/ /\ shutdown = "REQUESTED"
        /\ Abort(Requests)
        /\ shutdown' = "SHUTTING_DOWN"
        /\ pc' = IF HasWork \/ waiting \cup running # {} THEN "loop" ELSE "exited"
        /\ UNCHANGED pause
     \/ /\ shutdown = "SHUTTING_DOWN"
        /\ pc' = IF HasWork THEN "loop" ELSE "exited"
        /\ UNCHANGED <<sched, outcome, shutdown>>
  /\ UNCHANGED <<ret, cur, inq, abq, batch, worker, pend, ctl, clock, quiet,
                 nUser, nFail>>

\* _process_input_queue: with work to do, or in shutdown, skip the idle loop
SkipIdle ==
  /\ pc = "loop"
  /\ HasWork \/ ~ IsRunning
  /\ pc' = "drain"
  /\ UNCHANGED <<ret, cur, inq, abq, sched, batch, worker, pend, shutdown, ctl,
                 clock, quiet, outcome, nUser, nFail>>

\* _notify_idle_state_callbacks: the controller is always the first callback,
\* it re-registers before any pause can append to the list
NotifyIdle ==
  /\ pc = "loop"
  /\ ~ HasWork /\ IsRunning
  /\ OnIdle
  /\ UNCHANGED <<inq, abq, sched, batch, worker, pend, shutdown, quiet, outcome,
                 nUser, nFail>>

\* ... then the pauses that waited for the engine to become idle.  A failing
\* sleep only fails its future; a pause that cannot be finished raises in the
\* callback, and the loop is left.
RunDeferred(p) ==
  \/ /\ FinishPause(p.clear)
     /\ \/ p.level = 0 /\ UNCHANGED <<worker, nFail>>
        \/ p.level > 0 /\ ExecutorSleep(p.level) /\ UNCHANGED nFail
        \/ p.level > 0 /\ ExecutorSleepFails(p.level)
     /\ UNCHANGED loop
  \/ /\ nFail < MaxFailures /\ nFail' = nFail + 1
     /\ \E clear \in {FALSE, p.clear} : FinishPause(clear)
     /\ Die
     /\ UNCHANGED worker

RunDeferredSleep ==
  /\ pc = "callbacks" /\ pend # <<>>
  /\ pend' = Tail(pend)
  /\ RunDeferred(Head(pend))
  /\ UNCHANGED <<inq, abq, finished, pause, batch, shutdown, ctl, clock, quiet,
                 outcome, nUser>>

\* ... and the loop blocks in input_queue.get()
BeginGet ==
  /\ pc = "callbacks" /\ pend = <<>>
  /\ pc' = "get"
  /\ abq' = IF inq = <<>> THEN {} ELSE abq
  /\ UNCHANGED <<ret, cur, inq, sched, batch, worker, pend, shutdown, ctl, clock,
                 quiet, outcome, nUser, nFail>>

Get == pc = "get" /\ Handle("loop")

Drain == pc = "drain" /\ Handle("drain")

DrainDone ==
  /\ pc = "drain" /\ inq = <<>>
  /\ pc' = "step"
  /\ UNCHANGED <<ret, cur, inq, abq, sched, batch, worker, pend, shutdown, ctl,
                 clock, quiet, outcome, nUser, nFail>>

\* step (BatchQueueSize = 1) and step_with_batch_queue: schedule a batch, and
\* block for the oldest one when the queue is full or nothing was scheduled.
Scheduled ==
  IF pause = "PAUSED_ALL" THEN {}
  ELSE running \cup (IF pause = "UNPAUSED" THEN waiting ELSE {})

StepSchedule ==
  /\ pc = "step" /\ HasRequests
  /\ waiting' = waiting \ Scheduled
  /\ running' = running \cup Scheduled
  /\ finished' = FALSE
  /\ batch' = Append(batch, Scheduled)
  /\ pc' = IF Len(batch) + 1 < BatchQueueSize /\ Scheduled # {}
           THEN "top" ELSE "wait"
  /\ quiet' = 0
  /\ UNCHANGED <<ret, cur, inq, abq, pause, worker, pend, shutdown, ctl, clock,
                 outcome, nUser, nFail>>

StepNothing ==
  /\ pc = "step" /\ ~ HasRequests
  /\ pc' = IF batch = <<>> THEN "top" ELSE "wait"
  /\ UNCHANGED <<ret, cur, inq, abq, sched, batch, worker, pend, shutdown, ctl,
                 clock, quiet, outcome, nUser, nFail>>

\* The batch's result arrived: apply the aborts received meanwhile, then let
\* the requests in F, out of the batch, finish.
StepOutput(F) ==
  /\ pc = "wait"
  /\ LET aborted == abq \cap (waiting \cup running)
     IN  /\ F \subseteq (Head(batch) \cap running) \ aborted
         /\ waiting' = waiting \ aborted
         /\ running' = (running \ aborted) \ F
         /\ finished' = (finished \/ aborted \cup F # {})
         /\ outcome' = [r \in Requests |-> IF r \in aborted THEN "aborted"
                                           ELSE IF r \in F THEN "done"
                                           ELSE outcome[r]]
  /\ abq' = {}
  /\ batch' = Tail(batch)
  /\ pc' = "top"
  /\ quiet' = 0
  /\ UNCHANGED <<ret, cur, inq, pause, worker, pend, shutdown, ctl, clock, nUser,
                 nFail>>

-----------------------------------------------------------------------------
(* Timer threads, the clock and the frontend.                              *)

others == <<loop, abq, sched, batch, worker, pend, shutdown, state, keeper, nFail>>

\* The wait of a Timer that was not cancelled ends, possibly early.
TimerFires(t) ==
  /\ Alive
  /\ timers[t].st = "armed" /\ timers[t].left <= Early
  /\ timers' = [timers EXCEPT ![t] = [st |-> "fired", left |-> 0]]
  /\ UNCHANGED <<others, inq, handle, idleAge, quiet, outcome, nUser>>

\* Mutant: _poke leaves the handle of the timer that fired.
PokeKeepsHandle(t) ==
  /\ Alive
  /\ timers[t].st = "fired"
  /\ timers' = [timers EXCEPT ![t].st = "cleared"]
  /\ UNCHANGED <<others, inq, handle, idleAge, quiet, outcome, nUser>>

\* _poke, on the timer thread: self._timer = None ...
PokeClear(t) ==
  /\ Alive
  /\ timers[t].st = "fired"
  /\ timers' = [timers EXCEPT ![t].st = "cleared"]
  /\ handle' = NoTimer
  /\ UNCHANGED <<others, inq, idleAge, quiet, outcome, nUser>>

\* ... and input_queue.put_nowait((WAKEUP, None))
PokePut(t) ==
  /\ Alive
  /\ timers[t].st = "cleared"
  /\ timers' = [timers EXCEPT ![t] = [st |-> "off", left |-> 0]]
  /\ inq' = Append(inq, WAKEUP)
  /\ UNCHANGED <<others, handle, idleAge, quiet, outcome, nUser>>

Later(n) == IF n < Timeout THEN n + 1 ELSE n
Sooner(n) == IF n > 0 THEN n - 1 ELSE n

\* Time passes while the loop is blocked: for input or for a batch's result.
\* Between them it runs for microseconds; a tick is a millisecond or more.
Tick ==
  /\ pc = "wait" \/ (pc = "get" /\ inq = <<>>)
  /\ idleAge' = Later(idleAge)
  /\ quiet' = IF HasWork THEN 0 ELSE Later(quiet)
  /\ timers' = [t \in Timers |-> IF timers[t].st = "armed"
                                 THEN [timers[t] EXCEPT !.left = Sooner(@)]
                                 ELSE timers[t]]
  /\ UNCHANGED <<others, inq, handle, outcome, nUser>>

ClientAdd(r) ==
  /\ Alive
  /\ outcome[r] = "new"
  /\ outcome' = [outcome EXCEPT ![r] = "sent"]
  /\ inq' = Append(inq, [type |-> "ADD", req |-> r])
  /\ UNCHANGED <<others, clock, idleAge, quiet, nUser>>

\* process_input_sockets puts an abort on both queues
ClientAbort(r) ==
  /\ Alive
  /\ outcome[r] = "sent"
  /\ \A i \in 1..Len(inq) : inq[i] # [type |-> "ABORT", req |-> r]
  /\ abq' = abq \cup {r}
  /\ inq' = Append(inq, [type |-> "ABORT", req |-> r])
  /\ UNCHANGED <<loop, sched, batch, worker, pend, shutdown, ctl, clock, quiet,
                 outcome, nUser, nFail>>

UserCall(u) ==
  /\ Alive
  /\ nUser < MaxUserOps
  /\ nUser' = nUser + 1
  /\ inq' = Append(inq, IF u.op = "sigterm" THEN WAKEUP
                        ELSE [type |-> "UTILITY", call |-> u])
  /\ shutdown' = IF u.op = "sigterm" THEN "REQUESTED" ELSE shutdown
  /\ UNCHANGED <<loop, abq, sched, batch, worker, pend, ctl, clock, quiet,
                 outcome, nFail>>

-----------------------------------------------------------------------------
Init ==
  /\ setup \in Setups
  /\ pc = "top" /\ ret = "loop" /\ cur = NoMsg
  /\ inq = <<>> /\ abq = {}
  /\ waiting = {} /\ running = {} /\ finished = FALSE /\ pause = "UNPAUSED"
  /\ batch = <<>>
  /\ execTags = {} /\ mem = [r \in Ranks |-> {}] /\ weights = TRUE
  /\ pend = <<>> /\ shutdown = "RUNNING"
  /\ state = "ACTIVE" /\ keeper = FALSE /\ idleAge = 0
  /\ handle = NoTimer
  /\ timers = [t \in Timers |-> [st |-> "off", left |-> 0]]
  /\ quiet = 0
  /\ outcome = [r \in Requests |-> "new"]
  /\ nUser = 0 /\ nFail = 0

MainLoop ==
  \/ HandleShutdown \/ SkipIdle \/ NotifyIdle \/ RunDeferredSleep \/ BeginGet
  \/ Get \/ Drain \/ DrainDone
  \/ CancelTimer \/ AfterCancel \/ ArmDaemon \/ ArmStart
  \/ StepSchedule \/ StepNothing

\* The process is gone, which is not a deadlock.
Gone == ~ Alive /\ UNCHANGED vars

TimerThread(t) == TimerFires(t) \/ PokeClear(t) \/ PokePut(t)

Step ==
  \/ MainLoop
  \/ \E F \in SUBSET Requests : StepOutput(F)
  \/ \E t \in Timers : TimerThread(t)
  \/ Tick
  \/ \E r \in setup.requests : ClientAdd(r) \/ ClientAbort(r)
  \/ \E u \in UserOps : UserCall(u)
  \/ Gone

SameSetup == UNCHANGED setup
Next == Step /\ SameSetup

\* Every batch eventually returns, and every request finishes after finitely
\* many of them (max_tokens).
FinishBatch == pc = "wait" /\ StepOutput((Head(batch) \cap running) \ abq)
SomeOutput == \E F \in SUBSET Requests : StepOutput(F)

Fairness ==
  /\ WF_vars(MainLoop /\ SameSetup)
  /\ WF_vars(SomeOutput /\ SameSetup) /\ SF_vars(FinishBatch /\ SameSetup)
  /\ \A t \in Timers : WF_vars(TimerThread(t) /\ SameSetup)
  /\ WF_vars(Tick /\ SameSetup)

Spec == Init /\ [][Next]_vars
FairSpec == Spec /\ Fairness

-----------------------------------------------------------------------------
(* Properties.                                                             *)

\* A batch with requests in it only ever runs on workers whose memory is all
\* mapped and whose weights are loaded: no sleep (immediate, deferred behind a
\* pause, partially failed or rolled back) unmaps memory under a running batch,
\* and no wake resumes scheduling too early.  (Operators that may also call
\* resume_scheduler are excepted: it resumes an engine that is asleep.  For which
\* other setups it holds, AutoSleepProofs!Careful says.)
BatchResident ==
  [op |-> "resume"] \notin UserOps => \A i \in 1..Len(batch) :
    batch[i] # {} => weights /\ \A r \in Ranks : mem[r] = {}

\* The controller puts the engine to sleep only after the engine has had no
\* work for the whole idle timeout, whatever stale timers have poked it.  (With
\* a batch queue a stale poke may be taken while a batch whose requests were all
\* aborted is still in flight: the poke only asks the scheduler.)
IdleWindowHonoured ==
  [][ (BatchQueueSize = 1 /\ state = "ACTIVE" /\ state' \in {"SLEEPING", "EXITED"} /\ pc' # "dead")
        => quiet = Timeout ]_vars

\* An automatic sleep pauses in mode "abort", which aborts every request the
\* scheduler holds, and so does a deep-sleep exit: until a signal shuts the
\* engine down, a request ends aborted only when its client or an operator
\* asked for it.  (Without operator calls, only the controller's own exit
\* shuts the engine down.)
OnlyClientsAbort ==
  [][ \A r \in Requests :
        (/\ IsRunning \/ (Target = "exit" /\ nUser = 0)
         /\ outcome[r] # "aborted" /\ outcome[r]' = "aborted") =>
          \/ r \in abq
          \/ /\ pc \in {"get", "drain"}
             /\ \/ Head(inq) = [type |-> "ABORT", req |-> r]
                \/ Head(inq).type = "UTILITY" ]_vars

\* When the loop blocks for input, the controller agrees with the engine: it
\* believes the engine asleep only when it is, and the page-cache keeper runs
\* only while the engine sleeps.
SettledAtRest ==
  pc = "get" =>
    /\ state = "SLEEPING" => IsSleeping
    /\ keeper => state = "SLEEPING"

\* An idle engine that is awake always has a poke on its way: a live timer, a
\* timer thread between firing and posting, or a WAKEUP in the queue.  Without
\* one nothing would ever put it to sleep.
PokeOnItsWay ==
  (pc = "get" /\ state = "ACTIVE" /\ ~ IsSleeping /\ IsRunning) =>
     \/ \E t \in Timers : timers[t].st \in {"armed", "fired", "cleared"}
     \/ \E i \in 1..Len(inq) : inq[i] = WAKEUP

\* At rest the engine and its controller agree and something will act: every
\* variable has its type (TypeOK), an awake idle engine has a poke on its way
\* (PokeOnItsWay: on_idle, _poke), and what the controller and the page-cache
\* keeper believe of the engine is true (SettledAtRest: _sleep, _wake).
SettledIdle == TypeOK /\ PokeOnItsWay /\ SettledAtRest

\* Once requests and operator calls cease, the engine ends up asleep or gone.
EventuallySleeps == <>[](IsSleeping \/ ~ Alive)

\* Every request sent is eventually answered, waking the engine if it sleeps or
\* is about to, unless the process ends.
RequestAnswered ==
  \A r \in Requests :
    outcome[r] = "sent" ~> (outcome[r] # "sent" \/ ~ Alive)
=============================================================================
