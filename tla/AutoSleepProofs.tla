--------------------------- MODULE AutoSleepProofs ---------------------------
(***************************************************************************)
(* What the auto-sleep controller keeps true for every number of requests, *)
(* ranks and timers, every timeout, every setup and every operator call.   *)
(*                                                                         *)
(* AInv is inductive.  Its parts follow the loop from on_idle to the next  *)
(* message (Settling), the handle of the timer through the statements that *)
(* dereference it, and the two clocks an idle engine is put to sleep by.   *)
(***************************************************************************)
EXTENDS AutoSleep, TLAPS

-----------------------------------------------------------------------------
(* The inductive invariant.                                                *)

Settling ==
  \/ pc \in {"callbacks", "get"}
  \/ pc \in {"daemon", "start"} /\ ret = "callbacks"

\* Where the loop is between two looks at the handle.
LoopInv ==
  /\ pc \in {"cancel", "cancelled"} => cur.type \in {"ADD", "REARM"} /\ ret # "callbacks"
  /\ pc = "cancelled" => handle = NoTimer
  /\ Settling => ~ HasWork
  /\ pc = "wait" => batch # <<>>

\* The page-cache keeper runs only while the engine sleeps.
KeeperInv == keeper => state = "SLEEPING" /\ Target = "reload"

\* The handle is that of a timer being started, or of one that has not posted.
HandleInv ==
  handle # NoTimer =>
    timers[handle].st \in IF pc \in {"daemon", "start"} THEN {"created"} ELSE {"armed", "fired"}

\* A poke is on its way: a timer will fire, or its thread will post, or has posted.
Poked ==
  \/ \E t \in Timers : timers[t].st \in {"armed", "fired", "cleared"}
  \/ \E i \in 1..Len(inq) : inq[i] = WAKEUP

RestInv ==
  /\ Settling /\ state = "SLEEPING" => IsSleeping
  /\ pc \in {"callbacks", "get"} /\ state = "ACTIVE" /\ ~ IsSleeping /\ IsRunning => Poked

\* The controller's own exit finds the scheduler empty, and it stays empty.
ExitInv ==
  nUser = 0 /\ ~ IsRunning =>
    waiting = {} /\ running = {} /\ pc \notin {"cancel", "cancelled"}

\* The scheduler knows requests, or a batch is in flight.
Loaded == waiting # {} \/ running # {} \/ finished \/ batch # <<>>

Setting == pc \in {"cancel", "cancelled", "daemon", "start"}

\* Without a batch queue: no timer is set while the engine has requests, a poke
\* read between two steps is ignored, and the clock of a timer that is set, or
\* that an idle engine will act on, is not ahead of the engine's rest.
WindowInv ==
  BatchQueueSize = 1 =>
    /\ IF pc = "wait" THEN Len(batch) = 1 ELSE batch = <<>>
    /\ Loaded => handle = NoTimer /\ ~ Setting
    /\ pc = "drain" => Loaded \/ ~ IsRunning
    /\ Setting => ret # "drain"
    /\ handle # NoTimer => idleAge <= quiet
    /\ pc \in {"cancel", "cancelled"} /\ cur.type = "REARM" => idleAge <= quiet
    /\ Settling /\ state = "ACTIVE" /\ ~ IsSleeping => idleAge <= quiet

(* The type invariant, in groups.                                          *)
LoopType ==
  /\ pc \in {"top", "loop", "callbacks", "get", "drain", "step", "wait",
             "cancel", "cancelled", "daemon", "start", "dead", "exited"}
  /\ ret \in {"callbacks", "loop", "drain"}
  /\ cur \in Message \cup {NoMsg} \cup [type : {"REARM"}, left : 0..(Timeout + 1)]
  /\ inq \in Seq(Message) /\ abq \subseteq Requests

SchedType ==
  /\ waiting \subseteq Requests /\ running \subseteq Requests /\ finished \in BOOLEAN
  /\ pause \in {"UNPAUSED", "PAUSED_NEW", "PAUSED_ALL"}
  /\ batch \in Seq(SUBSET Requests)
  /\ outcome \in [Requests -> {"new", "sent", "done", "aborted", "rejected"}]

WorkerType ==
  /\ execTags \subseteq Tags /\ mem \in [Ranks -> SUBSET Tags] /\ weights \in BOOLEAN
  /\ pend \in Seq(Pending) /\ nFail \in 0..MaxFailures

ControlType ==
  /\ shutdown \in {"RUNNING", "REQUESTED", "SHUTTING_DOWN"}
  /\ state \in {"ACTIVE", "SLEEPING", "WAKING", "EXITED"}
  /\ keeper \in BOOLEAN /\ idleAge \in 0..Timeout /\ quiet \in 0..Timeout
  /\ nUser \in 0..MaxUserOps

TimerType ==
  /\ handle \in Timers \cup {NoTimer}
  /\ timers \in [Timers -> [st : {"off", "created", "armed", "fired", "cleared"},
                            left : 0..(Timeout + 1)]]

AInv ==
  /\ setup \in Setups /\ TypeOK
  /\ LoopInv /\ KeeperInv /\ HandleInv /\ RestInv /\ ExitInv /\ WindowInv

-----------------------------------------------------------------------------
(* Facts on setups, queues and timers.                                     *)

\* What a setup may be, and what does not change with it.
LEMMA SetupFacts ==
  ASSUME setup \in Setups, SameSetup
  PROVE  /\ setup' \in Setups /\ Message' = Message /\ Target' = Target
         /\ BatchQueueSize' = BatchQueueSize /\ UserOps' = UserOps
         /\ MaxUserOps' = MaxUserOps /\ MaxFailures' = MaxFailures
         /\ UserOps \subseteq UserOp /\ setup.requests \subseteq Requests
         /\ BatchQueueSize \in Nat \ {0} /\ MaxUserOps \in Nat /\ MaxFailures \in Nat
         /\ Target \in OFFLOAD_TARGETS
BY SetupAssumption
   DEF SameSetup, Message, Target, BatchQueueSize, UserOps, MaxUserOps, MaxFailures

\* The messages and what they carry.
LEMMA MessageFacts ==
  /\ WAKEUP \in Message
  /\ \A r \in Requests : [type |-> "ADD", req |-> r] \in Message
  /\ \A r \in Requests : [type |-> "ABORT", req |-> r] \in Message
  /\ \A u \in UserOps : [type |-> "UTILITY", call |-> u] \in Message
  /\ \A m \in Message : /\ m.type \in {"WAKEUP", "ADD", "ABORT", "UTILITY"}
                        /\ m.type \in {"ADD", "ABORT"} => m.req \in Requests
                        /\ m.type = "UTILITY" => m.call \in UserOps
                        /\ m.type = "WAKEUP" => m = WAKEUP
BY DEF Message, WAKEUP

\* A message put on the input queue leaves the pokes there.
LEMMA PutMessage ==
  ASSUME inq \in Seq(Message), NEW m \in Message, inq' = Append(inq, m)
  PROVE  /\ inq' \in Seq(Message)
         /\ (\E i \in 1..Len(inq) : inq[i] = WAKEUP) => \E i \in 1..Len(inq') : inq'[i] = WAKEUP
         /\ m = WAKEUP => \E i \in 1..Len(inq') : inq'[i] = WAKEUP
<1>1. inq' \in Seq(Message) /\ Len(inq') = Len(inq) + 1 /\ Len(inq) \in Nat
  OBVIOUS
<1>2. \A i \in 1..Len(inq) : i \in 1..Len(inq') /\ inq'[i] = inq[i]
  BY <1>1
<1>3. Len(inq') \in 1..Len(inq') /\ inq'[Len(inq')] = m
  BY <1>1
<1>. QED BY <1>1, <1>2, <1>3

\* What a step of the loop that touches neither timers nor queue keeps of a poke.
LEMMA SamePoke ==
  ASSUME UNCHANGED <<timers, inq>> PROVE Poked' = Poked
BY DEF Poked

\* The type invariant is its groups.
LEMMA TypeGroups ==
  /\ TypeOK <=> LoopType /\ SchedType /\ WorkerType /\ ControlType /\ TimerType
  /\ TypeOK' <=> LoopType' /\ SchedType' /\ WorkerType' /\ ControlType' /\ TimerType'
BY DEF TypeOK, LoopType, SchedType, WorkerType, ControlType, TimerType

\* Groups whose variables a step leaves alone.
LEMMA SameTypes ==
  ASSUME setup \in Setups, SameSetup, TypeOK
  PROVE  /\ UNCHANGED <<pc, ret, cur, inq, abq>> => LoopType'
         /\ UNCHANGED <<ret, cur, inq, abq>> /\ pc' \in {"top", "loop", "callbacks", "get", "drain",
              "step", "wait", "start", "cancelled", "exited"} => LoopType'
         /\ UNCHANGED <<waiting, running, finished, pause, batch, outcome>> => SchedType'
         /\ UNCHANGED <<execTags, mem, weights, pend, nFail>> => WorkerType'
         /\ UNCHANGED <<shutdown, state, keeper, idleAge, quiet, nUser>> => ControlType'
         /\ UNCHANGED <<handle, timers>> => TimerType'
<1>1. LoopType /\ SchedType /\ WorkerType /\ ControlType /\ TimerType
  BY TypeGroups
<1>. QED BY <1>1, SetupFacts DEF LoopType, SchedType, WorkerType, ControlType, TimerType

\* finish_requests: what it aborts leaves the queues, and then the scheduler has
\* finished requests to report.
LEMMA AbortFacts ==
  ASSUME NEW R, Abort(R), SchedType
  PROVE  /\ waiting' \subseteq waiting /\ running' \subseteq running /\ finished' \in BOOLEAN
         /\ outcome' \in [Requests -> {"new", "sent", "done", "aborted", "rejected"}]
         /\ finished => finished'
         /\ ~ finished' => waiting' = waiting /\ running' = running
         /\ Requests \subseteq R => waiting' = {} /\ running' = {}
         /\ \A r \in Requests : outcome'[r] = outcome[r] \/ r \in R \cap (waiting \cup running)
         /\ waiting \cup running = {} => UNCHANGED <<waiting, running, outcome>> /\ finished' = finished
<1>. DEFINE gone == R \cap (waiting \cup running)
<1>1. /\ waiting' = waiting \ gone /\ running' = running \ gone
      /\ finished' = (finished \/ gone # {})
      /\ outcome' = [r \in Requests |-> IF r \in gone THEN "aborted" ELSE outcome[r]]
  BY DEF Abort
<1>2. waiting \subseteq Requests /\ running \subseteq Requests /\ finished \in BOOLEAN
      /\ outcome \in [Requests -> {"new", "sent", "done", "aborted", "rejected"}]
  BY DEF SchedType
<1>3. finished' \in BOOLEAN /\ (finished => finished') /\ (~ finished' => gone = {})
      /\ (gone = {} => finished' = finished)
  BY <1>1, <1>2 DEF SchedType
<1>4. gone = {} => outcome' = outcome
  BY <1>1, <1>2
<1>. QED BY <1>1, <1>2, <1>3, <1>4

-----------------------------------------------------------------------------
(* The loop.                                                               *)

\* The start of the engine.
LEMMA InitAInv == Init => AInv
<1>. SUFFICES ASSUME Init PROVE AInv
  OBVIOUS
<1>1. MaxUserOps \in Nat /\ MaxFailures \in Nat
  BY SetupAssumption DEF Init, MaxUserOps, MaxFailures
<1>2. finished \in BOOLEAN /\ weights \in BOOLEAN /\ keeper \in BOOLEAN
  BY Zenon DEF Init
<1>3. LoopType /\ SchedType /\ WorkerType /\ ControlType /\ TimerType
  <2>1. LoopType /\ SchedType
    BY <1>2 DEF Init, LoopType, SchedType
  <2>2. WorkerType
    BY <1>1, <1>2 DEF Init, WorkerType
  <2>3. ControlType
    BY <1>1, <1>2, ConstantsAssumption DEF Init, ControlType
  <2>4. TimerType
    BY ConstantsAssumption DEF Init, TimerType
  <2>. QED BY <2>1, <2>2, <2>3, <2>4
<1>4. LoopInv /\ KeeperInv /\ HandleInv /\ RestInv /\ ExitInv /\ WindowInv
  BY DEF Init, LoopInv, KeeperInv, HandleInv, RestInv, ExitInv, WindowInv, Settling, Setting,
         Loaded, IsRunning
<1>. QED BY <1>3, <1>4, TypeGroups DEF AInv, Init

\* SkipIdle: _process_input_queue with work to do, or in shutdown.
LEMMA SkipIdleStep == ASSUME AInv, SkipIdle, SameSetup PROVE AInv'
<1>1. setup' \in Setups /\ TypeOK'
  BY SetupFacts DEF AInv, TypeOK, SkipIdle, sched, worker, ctl, clock
<1>2. LoopInv' /\ KeeperInv' /\ HandleInv' /\ RestInv' /\ ExitInv' /\ WindowInv'
  BY SetupFacts DEF AInv, SkipIdle, sched, worker, ctl, clock, LoopInv, KeeperInv, HandleInv,
     RestInv, ExitInv, WindowInv, Settling, Setting, Loaded, IsRunning, HasWork, HasRequests,
     HasRequestsIn
<1>. QED BY <1>1, <1>2 DEF AInv

\* HandleShutdown: the head of the busy loop.
LEMMA HandleShutdownStep == ASSUME AInv, HandleShutdown, SameSetup PROVE AInv'
<1>1. TypeOK /\ SchedType /\ ControlType
  BY TypeGroups DEF AInv
<1>2. /\ pc = "top" /\ pc' \in {"loop", "exited"} /\ pause' = pause
      /\ UNCHANGED <<ret, cur, inq, abq, batch, execTags, mem, weights, pend, state, keeper, idleAge,
                     timers, handle, quiet, nUser, nFail>>
  BY DEF HandleShutdown, sched, worker, ctl, clock
<1>3. \/ UNCHANGED <<waiting, running, finished, outcome, shutdown>>
      \/ Abort(Requests) /\ shutdown = "REQUESTED" /\ shutdown' = "SHUTTING_DOWN"
      \/ UNCHANGED <<waiting, running, finished, outcome, shutdown>>
  BY DEF HandleShutdown, sched
<1>4. /\ waiting' \subseteq waiting /\ running' \subseteq running /\ finished' \in BOOLEAN
      /\ outcome' \in [Requests -> {"new", "sent", "done", "aborted", "rejected"}]
      /\ Loaded' => Loaded
  <2>1. CASE UNCHANGED <<waiting, running, finished, outcome, shutdown>>
    BY <2>1, <1>1, <1>2 DEF SchedType, Loaded
  <2>2. CASE Abort(Requests)
    BY <2>2, <1>1, <1>2, AbortFacts DEF Loaded
  <2>. QED BY <1>3, <2>1, <2>2
<1>5. shutdown' \in {"RUNNING", "REQUESTED", "SHUTTING_DOWN"} /\ (IsRunning' <=> IsRunning)
  BY <1>1, <1>3 DEF ControlType, IsRunning
<1>6. setup' \in Setups /\ TypeOK'
  <2>1. SchedType' /\ ControlType'
    BY <1>1, <1>2, <1>4, <1>5, SetupFacts DEF SchedType, ControlType, AInv
  <2>. QED BY <1>1, <1>2, <2>1, SameTypes, TypeGroups, SetupFacts DEF AInv
<1>7. LoopInv' /\ KeeperInv' /\ HandleInv' /\ RestInv' /\ ExitInv' /\ WindowInv'
  BY <1>2, <1>4, <1>5, SetupFacts DEF AInv, LoopInv, KeeperInv, HandleInv, RestInv, ExitInv,
     WindowInv, Settling, Setting
<1>. QED BY <1>6, <1>7 DEF AInv

\* BeginGet: the loop blocks for input.
LEMMA BeginGetStep == ASSUME AInv, BeginGet, SameSetup PROVE AInv'
<1>1. setup' \in Setups /\ TypeOK'
  BY SetupFacts DEF AInv, TypeOK, BeginGet, sched, worker, ctl, clock
<1>2. Poked' = Poked
  BY SamePoke DEF BeginGet, clock
<1>3. LoopInv' /\ KeeperInv' /\ HandleInv' /\ RestInv' /\ ExitInv' /\ WindowInv'
  BY <1>2, SetupFacts DEF AInv, BeginGet, sched, worker, ctl, clock, LoopInv, KeeperInv, HandleInv, RestInv, ExitInv,
     WindowInv, Settling, Setting, Loaded, IsRunning, IsSleeping, HasWork, HasRequests, HasRequestsIn
<1>. QED BY <1>1, <1>3 DEF AInv

\* DrainDone, StepNothing: the queue is empty, the scheduler has nothing to step.
LEMMA DrainDoneStep == ASSUME AInv, DrainDone \/ StepNothing, SameSetup PROVE AInv'
<1>1. setup' \in Setups /\ TypeOK'
  BY SetupFacts, SMTT(40) DEF AInv, TypeOK, DrainDone, StepNothing, sched, worker, ctl, clock
<1>2. LoopInv' /\ KeeperInv' /\ HandleInv' /\ RestInv' /\ ExitInv' /\ WindowInv'
  BY SetupFacts DEF AInv, DrainDone, StepNothing, sched, worker, ctl, clock, LoopInv, KeeperInv, HandleInv, RestInv, ExitInv,
     WindowInv, Settling, Setting, Loaded, IsRunning, HasWork, HasRequests, HasRequestsIn
<1>. QED BY <1>1, <1>2 DEF AInv

\* What the end of a pause keeps: it may preempt requests, and drops none.
LEMMA FinishFacts ==
  ASSUME NEW clear \in BOOLEAN, FinishPause(clear), waiting \subseteq Requests, running \subseteq Requests
  PROVE  /\ waiting' \subseteq Requests /\ running' \subseteq running
         /\ waiting' \cup running' = waiting \cup running
         /\ ~ clear => UNCHANGED <<waiting, running>>
BY DEF FinishPause

\* RunDeferredSleep: a pause is finished, and the executor sleeps behind it or
\* fails to; or the pause cannot be finished and the loop is left.
LEMMA RunDeferredSleepStep == ASSUME AInv, RunDeferredSleep, SameSetup PROVE AInv'
<1>. DEFINE p == Head(pend)
<1>1. /\ p \in Pending /\ pend' \in Seq(Pending) /\ pc = "callbacks" /\ RunDeferred(p)
      /\ UNCHANGED <<inq, abq, finished, pause, batch, shutdown, state, keeper, idleAge, timers, handle, quiet,
                     outcome, nUser>>
  BY DEF AInv, TypeOK, RunDeferredSleep, ctl, clock
<1>. HIDE DEF p
<1>2. LoopType /\ SchedType /\ WorkerType /\ ControlType /\ TimerType /\ TypeOK /\ setup \in Setups
  BY TypeGroups DEF AInv
<1>3. p.clear \in BOOLEAN /\ p.level \in 0..2
  BY <1>1 DEF Pending
<1>4. PICK clear \in BOOLEAN : FinishPause(clear)
  BY <1>1, <1>3 DEF RunDeferred
<1>5. waiting' \subseteq Requests /\ running' \subseteq running /\ waiting' \cup running' = waiting \cup running
  BY <1>2, <1>4, FinishFacts DEF SchedType
<1>6. (UNCHANGED <<pc, ret, cur>>) \/ (pc' = "dead" /\ cur' = NoMsg /\ ret' = "loop")
  BY <1>1 DEF RunDeferred, loop, Die
<1>7. /\ execTags' \in {Tags, execTags} /\ mem' \in [Ranks -> SUBSET Tags] /\ weights' \in BOOLEAN
      /\ nFail' \in 0..MaxFailures
  <2>1. CASE UNCHANGED <<execTags, mem, weights>> /\ (nFail' = nFail \/ (nFail < MaxFailures /\ nFail' = nFail + 1))
    BY <1>2, <2>1, SetupFacts DEF WorkerType
  <2>2. CASE ExecutorSleep(p.level) /\ UNCHANGED nFail
    BY <1>2, <2>2 DEF WorkerType, ExecutorSleep, worker
  <2>3. CASE ExecutorSleepFails(p.level)
    BY <1>2, <2>3, SetupFacts DEF WorkerType, ExecutorSleepFails
  <2>. QED BY <1>1, <2>1, <2>2, <2>3 DEF RunDeferred, worker
<1>8. setup' \in Setups /\ TypeOK'
  <2>1. LoopType'
    BY <1>1, <1>2, <1>6, SetupFacts DEF LoopType
  <2>2. SchedType'
    BY <1>1, <1>2, <1>5 DEF SchedType
  <2>3. WorkerType'
    BY <1>1, <1>2, <1>7, SetupFacts DEF WorkerType
  <2>. QED BY <1>1, <1>2, <2>1, <2>2, <2>3, SameTypes, SetupFacts, TypeGroups
<1>9. Poked' = Poked /\ (IsSleeping => IsSleeping')
  BY <1>1, <1>2, <1>7, SamePoke DEF IsSleeping, WorkerType
<1>10. Loaded' <=> Loaded
  BY <1>1, <1>5 DEF Loaded
<1>11. HasWork' => HasWork
  BY <1>1, <1>2, <1>5, SetupFacts DEF AInv, LoopInv, Settling, HasWork, HasRequests, HasRequestsIn, SchedType
<1>12. LoopInv' /\ KeeperInv' /\ HandleInv' /\ ExitInv'
  BY <1>1, <1>2, <1>5, <1>6, <1>11, SetupFacts
  DEF AInv, LoopInv, KeeperInv, HandleInv, ExitInv, Settling, IsRunning
<1>13. RestInv'
  BY <1>1, <1>2, <1>6, <1>7, <1>9 DEF AInv, RestInv, Settling, IsRunning, IsSleeping
<1>14. WindowInv'
  BY <1>1, <1>2, <1>6, <1>7, <1>9, <1>10, SetupFacts
  DEF AInv, WindowInv, Settling, Setting, IsRunning, IsSleeping
<1>. QED BY <1>8, <1>12, <1>13, <1>14 DEF AInv

\* StepSchedule: a batch is scheduled.
LEMMA StepScheduleStep == ASSUME AInv, StepSchedule, SameSetup PROVE AInv'
<1>1. Scheduled \subseteq waiting \cup running /\ waiting \cup running \subseteq Requests
  BY DEF AInv, TypeOK, Scheduled
<1>2. batch' \in Seq(SUBSET Requests) /\ batch' # <<>> /\ (batch = <<>> => Len(batch) = 0)
  BY <1>1 DEF AInv, TypeOK, StepSchedule
<1>3. setup' \in Setups /\ TypeOK'
  <2>1. SchedType'
    BY <1>1, <1>2, TypeGroups DEF AInv, SchedType, StepSchedule
  <2>2. ControlType'
    BY SetupFacts, TypeGroups, ConstantsAssumption DEF AInv, ControlType, StepSchedule, ctl
  <2>3. LoopType' /\ WorkerType' /\ TimerType'
    BY SameTypes DEF AInv, StepSchedule, worker, clock
  <2>. QED BY <2>1, <2>2, <2>3, SetupFacts, TypeGroups DEF AInv
<1>4. BatchQueueSize = 1 => pc' = "wait" /\ handle = NoTimer
  BY <1>2 DEF AInv, WindowInv, StepSchedule, HasRequests, HasRequestsIn, Loaded, TypeOK
<1>5. LoopInv' /\ KeeperInv' /\ HandleInv' /\ RestInv' /\ ExitInv' /\ WindowInv'
  BY <1>1, <1>2, <1>4, SetupFacts DEF AInv, StepSchedule, worker, ctl, clock, LoopInv, KeeperInv, HandleInv, RestInv, ExitInv,
     WindowInv, Settling, Setting, Loaded, IsRunning
<1>. QED BY <1>3, <1>5 DEF AInv

\* StepOutput: a batch returns.
LEMMA StepOutputStep == ASSUME AInv, NEW F \in SUBSET Requests, StepOutput(F), SameSetup PROVE AInv'
<1>. DEFINE aborted == abq \cap (waiting \cup running)
<1>1. /\ pc = "wait" /\ pc' = "top" /\ abq' = {} /\ batch' = Tail(batch) /\ quiet' = 0
      /\ waiting' = waiting \ aborted /\ running' = (running \ aborted) \ F
      /\ finished' = (finished \/ aborted \cup F # {})
      /\ outcome' = [r \in Requests |-> IF r \in aborted THEN "aborted"
                                        ELSE IF r \in F THEN "done" ELSE outcome[r]]
      /\ UNCHANGED <<ret, cur, inq, pause, execTags, mem, weights, pend, shutdown, state, keeper,
                     idleAge, timers, handle, nUser, nFail>>
  BY DEF StepOutput, worker, ctl, clock
<1>2. LoopType /\ SchedType /\ ControlType
  BY TypeGroups DEF AInv
<1>3. finished' \in BOOLEAN
  BY <1>1, <1>2 DEF SchedType
<1>4. LoopType' /\ ControlType'
  BY <1>1, <1>2, SetupFacts, ConstantsAssumption DEF AInv, LoopType, ControlType
<1>5. SchedType'
  <2>1. batch' \in Seq(SUBSET Requests)
    BY <1>1, <1>2 DEF SchedType, AInv, LoopInv
  <2>. QED BY <2>1, <1>1, <1>2, <1>3 DEF SchedType
<1>6. setup' \in Setups /\ TypeOK'
  BY <1>1, <1>4, <1>5, SameTypes, SetupFacts, TypeGroups DEF AInv
<1>7. BatchQueueSize = 1 => batch' = <<>> /\ handle = NoTimer
  BY <1>1, <1>2 DEF AInv, SchedType, WindowInv, Loaded
<1>8. LoopInv' /\ KeeperInv' /\ HandleInv' /\ RestInv' /\ ExitInv' /\ WindowInv'
  BY <1>1, <1>7, SetupFacts DEF AInv, LoopInv, KeeperInv, HandleInv, RestInv, ExitInv,
     WindowInv, Settling, Setting, IsRunning
<1>. QED BY <1>6, <1>8 DEF AInv

-----------------------------------------------------------------------------
(* The timer and its handle.                                               *)

TimerStates == {"off", "created", "armed", "fired", "cleared"}

\* A timer that is created is new and not started.
LEMMA ArmFacts ==
  ASSUME NEW left \in 0..(Timeout + 1), NEW back, Arm(left, back), TimerType
  PROVE  /\ TimerType' /\ handle' \in Timers /\ timers'[handle'].st = "created"
         /\ pc' = "daemon" /\ ret' = back /\ cur' = NoMsg
         /\ \A t \in Timers : timers[t].st # "off" => timers'[t] = timers[t]
<1>1. PICK t \in Timers :
        /\ timers[t].st = "off"
        /\ timers' = [timers EXCEPT ![t] = [st |-> "created", left |-> left]]
        /\ handle' = t /\ pc' = "daemon" /\ ret' = back /\ cur' = NoMsg
  BY DEF Arm
<1>2. timers \in [Timers -> [st : TimerStates, left : 0..(Timeout + 1)]]
  BY DEF TimerType, TimerStates
<1>3. timers' \in [Timers -> [st : TimerStates, left : 0..(Timeout + 1)]] /\ timers'[t].st = "created"
  BY <1>1, <1>2, ConstantsAssumption DEF TimerStates
<1>. QED BY <1>1, <1>2, <1>3 DEF TimerType, TimerStates

\* NotifyIdle: on_idle sets the timer of an engine that is awake.
LEMMA NotifyIdleStep == ASSUME AInv, NotifyIdle, SameSetup PROVE AInv'
<1>1. /\ pc = "loop" /\ ~ HasWork /\ IsRunning /\ OnIdle
      /\ UNCHANGED <<inq, abq, waiting, running, finished, pause, batch, execTags, mem, weights, pend,
                     shutdown, quiet, outcome, nUser, nFail>>
  BY DEF NotifyIdle, sched, worker
<1>2. /\ LoopType /\ ControlType /\ TimerType /\ TypeOK /\ Timeout \in Nat /\ NoTimer \notin Timers
      /\ setup \in Setups
  BY TypeGroups, ConstantsAssumption DEF AInv
<1>3. /\ state' = (IF WokenManually THEN "ACTIVE" ELSE state)
      /\ keeper' = (keeper /\ ~ WokenManually)
      /\ idleAge' = IF ArmsOnIdle THEN 0 ELSE idleAge
      /\ ArmsOnIdle => Arm(Timeout, "callbacks")
      /\ ~ ArmsOnIdle => pc' = "callbacks" /\ cur' = NoMsg /\ ret' = "loop" /\ UNCHANGED <<timers, handle>>
  BY <1>1 DEF OnIdle, KeeperStops, Continue, clock
<1>4. keeper' \in BOOLEAN /\ (keeper' => keeper /\ ~ WokenManually)
  BY <1>2, <1>3 DEF ControlType
<1>5. ControlType' /\ SchedType' /\ WorkerType'
  BY <1>1, <1>2, <1>3, <1>4, SameTypes, SetupFacts DEF ControlType
<1>6. LoopType' /\ TimerType'
  <2>1. CASE ArmsOnIdle
    BY <1>1, <1>2, <1>3, <2>1, ArmFacts, SetupFacts DEF LoopType
  <2>2. CASE ~ ArmsOnIdle
    BY <1>1, <1>2, <1>3, <2>2, SetupFacts DEF LoopType, TimerType
  <2>. QED BY <2>1, <2>2
<1>7. setup' \in Setups /\ TypeOK'
  BY <1>2, <1>5, <1>6, SetupFacts, TypeGroups
<1>8. ArmsOnIdle => /\ pc' = "daemon" /\ ret' = "callbacks" /\ handle' # NoTimer
                    /\ timers'[handle'].st = "created" /\ idleAge' = 0 /\ quiet \in Nat
  BY <1>2, <1>3, ArmFacts DEF ControlType
<1>9. IsSleeping' = IsSleeping /\ HasWork' = HasWork /\ IsRunning' = IsRunning
  BY <1>1 DEF IsSleeping, HasWork, HasRequests, HasRequestsIn, IsRunning
<1>10. LoopInv' /\ KeeperInv' /\ HandleInv' /\ ExitInv'
  BY <1>1, <1>2, <1>3, <1>4, <1>8, <1>9, SetupFacts DEF AInv, LoopInv, KeeperInv, HandleInv, ExitInv, Settling
<1>11. ~ ArmsOnIdle /\ state' = "ACTIVE" /\ ~ IsSleeping => handle # NoTimer
  BY <1>3 DEF ArmsOnIdle, WokenManually
<1>12. RestInv'
  <2>1. handle # NoTimer => handle \in Timers /\ timers[handle].st \in {"armed", "fired"}
    BY <1>1, <1>2 DEF AInv, HandleInv, TimerType
  <2>2. ~ ArmsOnIdle /\ handle # NoTimer => Poked'
    BY <1>3, <2>1 DEF Poked
  <2>3. state' = "SLEEPING" => IsSleeping
    BY <1>3 DEF WokenManually
  <2>. QED BY <1>3, <1>8, <1>9, <1>11, <2>2, <2>3 DEF RestInv, IsRunning
<1>13. WindowInv'
  <2>1. ArmsOnIdle => ~ Loaded
    BY <1>1 DEF ArmsOnIdle, IsSleeping, Loaded, HasWork, HasRequests, HasRequestsIn
  <2>2. Loaded' = Loaded
    BY <1>1 DEF Loaded
  <2>. QED BY <1>1, <1>2, <1>3, <1>8, <1>9, <1>11, <2>1, <2>2, SetupFacts
           DEF AInv, WindowInv, Setting, Settling, ControlType
<1>. QED BY <1>7, <1>10, <1>12, <1>13 DEF AInv

\* CancelTimer: the handle is dereferenced, or was cleared meanwhile.
LEMMA CancelTimerStep == ASSUME AInv, CancelTimer, SameSetup PROVE AInv'
<1>1. /\ pc = "cancel" /\ handle' = NoTimer
      /\ UNCHANGED <<inq, abq, waiting, running, finished, pause, batch, execTags, mem, weights, pend,
                     shutdown, state, keeper, idleAge, quiet, outcome, nUser, nFail>>
      /\ \/ pc' = "dead" /\ cur' = NoMsg /\ ret' = "loop"
         \/ pc' = "cancelled" /\ UNCHANGED <<ret, cur>>
  BY DEF CancelTimer, Die, sched, worker, ctl, clock
<1>2. LoopType /\ TimerType /\ TypeOK /\ Timeout \in Nat /\ setup \in Setups
  BY TypeGroups, ConstantsAssumption DEF AInv
<1>3. TimerType'
  <2>1. CASE handle = NoTimer
    BY <2>1, <1>2 DEF CancelTimer, clock, TimerType
  <2>2. CASE handle # NoTimer
    <3>1. timers' = [timers EXCEPT ![handle] = IF @.st = "armed" THEN [st |-> "off", left |-> 0] ELSE @]
      BY <2>2 DEF CancelTimer
    <3>. QED BY <1>1, <1>2, <2>2, <3>1 DEF TimerType
  <2>. QED BY <2>1, <2>2
<1>4. setup' \in Setups /\ TypeOK'
  <2>1. LoopType'
    BY <1>1, <1>2, SetupFacts DEF LoopType
  <2>. QED BY <1>1, <1>2, <1>3, <2>1, SameTypes, SetupFacts, TypeGroups
<1>5. LoopInv' /\ KeeperInv' /\ HandleInv' /\ RestInv' /\ ExitInv' /\ WindowInv'
  BY <1>1, SetupFacts DEF AInv, LoopInv, KeeperInv, HandleInv, RestInv, ExitInv,
     WindowInv, Settling, Setting, Loaded, IsRunning
<1>. QED BY <1>4, <1>5 DEF AInv

\* ArmDaemon: the second look at the handle.
LEMMA ArmDaemonStep == ASSUME AInv, ArmDaemon, SameSetup PROVE AInv'
<1>1. /\ pc = "daemon"
      /\ UNCHANGED <<inq, abq, waiting, running, finished, pause, batch, execTags, mem, weights, pend,
                     shutdown, state, keeper, idleAge, timers, handle, quiet, outcome, nUser, nFail>>
      /\ \/ pc' = "dead" /\ cur' = NoMsg /\ ret' = "loop" /\ handle = NoTimer
         \/ pc' = "start" /\ UNCHANGED <<ret, cur>>
  BY DEF ArmDaemon, Die, sched, worker, ctl, clock
<1>2. LoopType /\ TypeOK /\ setup \in Setups
  BY TypeGroups DEF AInv
<1>3. setup' \in Setups /\ TypeOK'
  <2>1. LoopType'
    BY <1>1, <1>2, SetupFacts DEF LoopType
  <2>. QED BY <1>1, <1>2, <2>1, SameTypes, SetupFacts, TypeGroups
<1>4. LoopInv' /\ KeeperInv' /\ HandleInv' /\ RestInv' /\ ExitInv' /\ WindowInv'
  BY <1>1, SetupFacts DEF AInv, LoopInv, KeeperInv, HandleInv, RestInv, ExitInv,
     WindowInv, Settling, Setting, Loaded, IsRunning, IsSleeping, HasWork, HasRequests, HasRequestsIn
<1>. QED BY <1>3, <1>4 DEF AInv

\* ArmStart: the timer runs.
LEMMA ArmStartStep == ASSUME AInv, ArmStart, SameSetup PROVE AInv'
<1>1. /\ pc = "start" /\ handle' = handle
      /\ UNCHANGED <<inq, abq, waiting, running, finished, pause, batch, execTags, mem, weights, pend,
                     shutdown, state, keeper, idleAge, quiet, outcome, nUser, nFail>>
      /\ \/ pc' = "dead" /\ cur' = NoMsg /\ ret' = "loop" /\ handle = NoTimer /\ timers' = timers
         \/ /\ handle # NoTimer /\ pc' = ret /\ cur' = NoMsg /\ ret' = "loop"
            /\ timers' = [timers EXCEPT ![handle].st = "armed"]
  BY DEF ArmStart, Die, Continue, sched, worker, ctl
<1>2. LoopType /\ TimerType /\ TypeOK /\ setup \in Setups
  BY TypeGroups DEF AInv
<1>3. TimerType' /\ (handle # NoTimer => handle \in Timers /\ timers'[handle].st = "armed")
  BY <1>1, <1>2 DEF TimerType
<1>4. setup' \in Setups /\ TypeOK'
  <2>1. LoopType'
    BY <1>1, <1>2, SetupFacts DEF LoopType
  <2>. QED BY <1>1, <1>2, <1>3, <2>1, SameTypes, SetupFacts, TypeGroups
<1>5. handle # NoTimer => Poked'
  BY <1>1, <1>3 DEF Poked
<1>6. /\ pc' \in {"dead", "callbacks", "loop", "drain"} /\ (pc' = "callbacks" => ret = "callbacks")
      /\ (pc' = "drain" => ret = "drain")
  BY <1>1, <1>2 DEF LoopType
<1>7. LoopInv' /\ KeeperInv' /\ HandleInv' /\ RestInv' /\ ExitInv'
  BY <1>1, <1>3, <1>5, <1>6, SetupFacts DEF AInv, LoopInv, KeeperInv, HandleInv, RestInv, ExitInv,
     Settling, IsRunning, IsSleeping, HasWork, HasRequests, HasRequestsIn
<1>8. WindowInv'
  BY <1>1, <1>6, SetupFacts DEF AInv, WindowInv, Settling, Setting, Loaded, IsRunning, IsSleeping
<1>. QED BY <1>4, <1>7, <1>8 DEF AInv

-----------------------------------------------------------------------------
(* Timer threads, the clock and the front end.                             *)

\* What these steps leave alone.
Aside == UNCHANGED <<pc, ret, cur, waiting, running, finished, pause, batch, execTags, mem, weights, pend,
                     state, keeper, nFail>>

\* TimerFires, PokeClear, PokePut: a poke stays on its way until it is posted.
LEMMA TimerThreadStep == ASSUME AInv, NEW t \in Timers, TimerThread(t), SameSetup PROVE AInv'
<1>1. Aside /\ UNCHANGED <<abq, shutdown, idleAge, quiet, outcome, nUser>>
  BY DEF TimerThread, TimerFires, PokeClear, PokePut, Aside, others, loop, sched, worker
<1>2. LoopType /\ TimerType /\ TypeOK /\ setup \in Setups /\ Timeout \in Nat /\ NoTimer \notin Timers
  BY TypeGroups, ConstantsAssumption DEF AInv
<1>3. /\ TimerType' /\ \A s \in Timers : s # t => timers'[s] = timers[s]
      /\ timers[t].st \in {"armed", "fired", "cleared"}
      /\ inq' = inq \/ inq' = Append(inq, WAKEUP)
      /\ timers'[t].st \in {"fired", "cleared"} \/ inq' = Append(inq, WAKEUP)
      /\ handle' = NoTimer \/ (handle' = handle /\ (handle = t => timers'[t].st = "fired" \/ timers[t].st = "cleared"))
  <2>1. CASE TimerFires(t)
    BY <1>2, <2>1 DEF TimerFires, TimerType
  <2>2. CASE PokeClear(t)
    BY <1>2, <2>2 DEF PokeClear, TimerType
  <2>3. CASE PokePut(t)
    BY <1>2, <2>3 DEF PokePut, TimerType
  <2>. QED BY <2>1, <2>2, <2>3 DEF TimerThread
<1>4. inq' \in Seq(Message) /\ Poked'
  <2>1. inq' \in Seq(Message)
    BY <1>2, <1>3, MessageFacts, PutMessage DEF LoopType
  <2>2. CASE timers'[t].st \in {"fired", "cleared"}
    BY <2>1, <2>2 DEF Poked
  <2>3. CASE inq' = Append(inq, WAKEUP)
    BY <2>1, <2>3, <1>2, MessageFacts, PutMessage DEF Poked, LoopType
  <2>. QED BY <1>3, <2>1, <2>2, <2>3
<1>5. setup' \in Setups /\ TypeOK'
  <2>1. LoopType'
    BY <1>1, <1>2, <1>4, SetupFacts DEF LoopType, Aside
  <2>. QED BY <1>1, <1>2, <1>3, <2>1, SameTypes, SetupFacts, TypeGroups DEF Aside
<1>6. HandleInv'
  <2>1. handle # NoTimer /\ handle = t => timers[t].st # "cleared"
    BY DEF AInv, HandleInv
  <2>2. handle = t /\ handle # NoTimer /\ pc \in {"daemon", "start"} => FALSE
    BY <1>3 DEF AInv, HandleInv
  <2>. QED BY <1>1, <1>2, <1>3, <2>1, <2>2 DEF AInv, HandleInv, TimerType, Aside
<1>7. LoopInv' /\ KeeperInv' /\ RestInv' /\ ExitInv' /\ WindowInv'
  BY <1>1, <1>3, <1>4, SetupFacts DEF AInv, LoopInv, KeeperInv, RestInv, ExitInv, WindowInv, Settling,
     Setting, Loaded, IsRunning, IsSleeping, HasWork, HasRequests, HasRequestsIn, Aside
<1>. QED BY <1>5, <1>6, <1>7 DEF AInv

\* Tick: the clocks of an idle engine advance together.
LEMMA TickStep == ASSUME AInv, Tick, SameSetup PROVE AInv'
<1>1. /\ Aside /\ UNCHANGED <<abq, shutdown, inq, handle, outcome, nUser>>
      /\ pc \in {"wait", "get"}
      /\ idleAge' = Later(idleAge) /\ quiet' = IF HasWork THEN 0 ELSE Later(quiet)
  BY DEF Tick, Aside, others, loop, sched, worker
<1>2. LoopType /\ ControlType /\ TimerType /\ TypeOK /\ setup \in Setups /\ Timeout \in Nat \ {0}
  BY TypeGroups, ConstantsAssumption DEF AInv
<1>3. TimerType' /\ \A t \in Timers : timers'[t].st = timers[t].st
  <2>1. \A t \in Timers : timers'[t] = IF timers[t].st = "armed"
                                       THEN [timers[t] EXCEPT !.left = Sooner(@)] ELSE timers[t]
    BY DEF Tick
  <2>2. \A n \in 0..(Timeout + 1) : Sooner(n) \in 0..(Timeout + 1)
    BY <1>2 DEF Sooner
  <2>3. \A t \in Timers : timers'[t] \in [st : TimerStates, left : 0..(Timeout + 1)] /\ timers'[t].st = timers[t].st
    BY <1>2, <2>1, <2>2, ZenonT(60) DEF TimerType, TimerStates
  <2>4. timers' \in [Timers -> [st : TimerStates, left : 0..(Timeout + 1)]]
    BY <2>3 DEF Tick
  <2>. QED BY <1>1, <1>2, <2>3, <2>4 DEF TimerType, TimerStates
<1>4. ControlType' /\ (idleAge <= quiet /\ ~ HasWork => idleAge' <= quiet')
  BY <1>1, <1>2, SetupFacts DEF ControlType, Later, Aside
<1>5. setup' \in Setups /\ TypeOK'
  BY <1>1, <1>2, <1>3, <1>4, SameTypes, SetupFacts, TypeGroups DEF Aside
<1>6. Poked' = Poked
  BY <1>1, <1>3 DEF Poked
<1>7. LoopInv' /\ KeeperInv' /\ HandleInv' /\ RestInv' /\ ExitInv'
  BY <1>1, <1>2, <1>3, <1>6, SetupFacts DEF AInv, LoopInv, KeeperInv, HandleInv, RestInv, ExitInv, Settling,
     IsRunning, IsSleeping, HasWork, HasRequests, HasRequestsIn, Aside, TimerType
<1>8. WindowInv'
  <2>1. BatchQueueSize = 1 /\ pc = "wait" => Loaded
    BY <1>2 DEF AInv, LoopInv, Loaded
  <2>2. pc = "get" => ~ HasWork
    BY DEF AInv, LoopInv, Settling
  <2>. QED BY <1>1, <1>4, <2>1, <2>2, SetupFacts DEF AInv, WindowInv, Settling, Setting, Loaded, IsRunning,
           IsSleeping, Aside
<1>. QED BY <1>5, <1>7, <1>8 DEF AInv

\* ClientAdd, ClientAbort, UserCall: a message is put on the input queue.
LEMMA FrontEndStep ==
  ASSUME AInv, SameSetup,
         \/ \E r \in setup.requests : ClientAdd(r) \/ ClientAbort(r)
         \/ \E u \in UserOps : UserCall(u)
  PROVE  AInv'
<1>1. LoopType /\ SchedType /\ ControlType /\ TypeOK /\ setup \in Setups
  BY TypeGroups DEF AInv
<1>2. /\ Aside /\ UNCHANGED <<idleAge, timers, handle, quiet>>
      /\ \E m \in Message : inq' = Append(inq, m)
      /\ abq' \subseteq Requests /\ outcome' \in [Requests -> {"new", "sent", "done", "aborted", "rejected"}]
      /\ shutdown' = shutdown \/ (shutdown' = "REQUESTED" /\ nUser' # 0)
      /\ nUser' \in 0..MaxUserOps /\ (nUser' = 0 => nUser = 0 /\ shutdown' = shutdown)
  <2>1. CASE \E r \in setup.requests : ClientAdd(r)
    <3>1. PICK r \in setup.requests : ClientAdd(r)
      BY <2>1
    <3>2. r \in Requests
      BY <1>1, SetupFacts
    <3>. QED BY <1>1, <3>1, <3>2, MessageFacts DEF ClientAdd, others, loop, sched, worker, clock, Aside, LoopType,
             SchedType, ControlType
  <2>2. CASE \E r \in setup.requests : ClientAbort(r)
    <3>1. PICK r \in setup.requests : ClientAbort(r)
      BY <2>2
    <3>2. r \in Requests
      BY <1>1, SetupFacts
    <3>. QED BY <1>1, <3>1, <3>2, MessageFacts DEF ClientAbort, loop, sched, worker, ctl, clock, Aside, LoopType,
             SchedType, ControlType
  <2>3. CASE \E u \in UserOps : UserCall(u)
    <3>1. PICK u \in UserOps : UserCall(u)
      BY <2>3
    <3>2. \E m \in Message : inq' = Append(inq, m)
      BY <3>1, MessageFacts DEF UserCall
    <3>. QED BY <1>1, <3>1, <3>2, SetupFacts DEF UserCall, loop, sched, worker, ctl, clock, Aside, LoopType,
             SchedType, ControlType
  <2>. QED BY <2>1, <2>2, <2>3
<1>3. inq' \in Seq(Message) /\ (Poked => Poked')
  BY <1>1, <1>2, PutMessage DEF LoopType, Poked
<1>4. setup' \in Setups /\ TypeOK'
  <2>1. LoopType' /\ SchedType'
    BY <1>1, <1>2, <1>3, SetupFacts DEF LoopType, SchedType, Aside
  <2>2. ControlType'
    BY <1>1, <1>2, SetupFacts DEF ControlType, Aside
  <2>. QED BY <1>1, <1>2, <2>1, <2>2, SameTypes, SetupFacts, TypeGroups DEF Aside
<1>5. LoopInv' /\ KeeperInv' /\ HandleInv' /\ RestInv' /\ ExitInv'
  BY <1>1, <1>2, <1>3, SetupFacts DEF AInv, LoopInv, KeeperInv, HandleInv, RestInv, ExitInv, Settling, IsRunning,
     IsSleeping, HasWork, HasRequests, HasRequestsIn, Aside
<1>6. WindowInv'
  BY <1>1, <1>2, SetupFacts DEF AInv, WindowInv, Settling, Setting, Loaded, IsRunning, IsSleeping, Aside
<1>. QED BY <1>4, <1>5, <1>6 DEF AInv

-----------------------------------------------------------------------------
(* The messages of the input queue.                                        *)

\* Taking a message from the queue.
LEMMA TakeMessage ==
  ASSUME inq \in Seq(Message), inq # <<>>, inq' = Tail(inq)
  PROVE  inq' \in Seq(Message) /\ Head(inq) \in Message
OBVIOUS

Back == IF pc = "get" THEN "loop" ELSE "drain"

\* A handler that leaves the timer alone and finds and leaves the scheduler loaded
\* or not loaded.
LEMMA Handled ==
  ASSUME AInv, SameSetup, pc \in {"get", "drain"}, pc' \in {Back, "dead"},
         cur' = NoMsg, ret' = "loop", inq' \in Seq(Message),
         UNCHANGED <<timers, handle, abq, batch, idleAge, quiet, nUser>>,
         SchedType', WorkerType', ControlType', Loaded' <=> Loaded,
         keeper' => state' = "SLEEPING" /\ Target = "reload",
         waiting' \cup running' \subseteq waiting \cup running,
         shutdown' = shutdown \/ (shutdown' = "REQUESTED" /\ waiting' = {} /\ running' = {})
  PROVE  AInv'
<1>1. LoopType /\ TimerType /\ TypeOK /\ setup \in Setups /\ pc' \in {"loop", "drain", "dead"}
      /\ (pc' = "drain" => pc = "drain")
  BY TypeGroups DEF AInv, Back
<1>2. setup' \in Setups /\ TypeOK'
  <2>1. LoopType'
    BY <1>1, SetupFacts DEF LoopType
  <2>. QED BY <1>1, <2>1, SameTypes, SetupFacts, TypeGroups
<1>3. LoopInv' /\ KeeperInv' /\ HandleInv' /\ RestInv'
  BY <1>1, SetupFacts DEF AInv, LoopInv, KeeperInv, HandleInv, RestInv, Settling
<1>4. ExitInv'
  BY <1>1, SetupFacts DEF AInv, ExitInv, IsRunning
<1>5. WindowInv'
  BY <1>1, SetupFacts DEF AInv, WindowInv, Settling, Setting, IsRunning
<1>. QED BY <1>2, <1>3, <1>4, <1>5 DEF AInv

\* EngineCore.wake_up: what it leaves of the worker and the pause.
LEMMA WakeUpFacts ==
  ASSUME NEW tags, WakeUp(tags), WorkerType, SchedType
  PROVE  /\ execTags' \subseteq Tags /\ mem' \in [Ranks -> SUBSET Tags]
         /\ pause' \in {"UNPAUSED", pause}
<1>1. pause' \in {"UNPAUSED", pause}
  BY DEF WakeUp
<1>2. \E woken : \/ UNCHANGED <<execTags, mem>>
                 \/ execTags' = execTags \ woken /\ mem' = [r \in Ranks |-> mem[r] \ woken]
  BY DEF WakeUp, ExecutorWakeUp
<1>. QED BY <1>1, <1>2 DEF WorkerType

\* add_request, once the timer is cancelled: the engine is awake or the loop is left.
LEMMA AddRequestStep ==
  ASSUME AInv, SameSetup, NEW r \in Requests, NEW back \in {"loop", "drain"}, AddRequest(r, back),
         UNCHANGED <<timers, handle>>, inq' \in Seq(Message), handle = NoTimer,
         pc \in {"get", "drain", "cancelled"}, pc = "cancelled" \/ IsRunning
  PROVE  AInv'
<1>1. LoopType /\ SchedType /\ WorkerType /\ ControlType /\ TimerType /\ TypeOK /\ setup \in Setups
  BY TypeGroups DEF AInv
<1>2. /\ idleAge' = 0
      /\ UNCHANGED <<abq, running, finished, batch, pend, shutdown, outcome, nUser>>
      /\ \/ state' = "SLEEPING" /\ pc' = "dead" /\ UNCHANGED <<waiting, quiet>>
         \/ state' # "SLEEPING" /\ waiting' = waiting \cup {r} /\ quiet' = 0 /\ pc' = back
      /\ cur' = NoMsg /\ ret' = "loop"
      /\ IF IsSleeping THEN Wake
         ELSE KeeperStops(TRUE) /\ state' = "ACTIVE" /\ UNCHANGED <<execTags, mem, weights, pause, nFail>>
  BY DEF AddRequest, Die, Continue, worker
<1>3. /\ keeper' = FALSE /\ state' \in {"ACTIVE", "SLEEPING"} /\ nFail' \in 0..MaxFailures
      /\ execTags' \subseteq Tags /\ mem' \in [Ranks -> SUBSET Tags] /\ weights' \in BOOLEAN
      /\ pause' \in {"UNPAUSED", pause}
  <2>1. CASE ~ IsSleeping
    BY <1>1, <1>2, <2>1 DEF KeeperStops, ControlType, WorkerType
  <2>2. CASE IsSleeping
    <3>1. \/ WakeUp({}) /\ weights' = (weights \/ Target = "reload") /\ state' = "ACTIVE" /\ nFail' = nFail
          \/ nFail < MaxFailures /\ nFail' = nFail + 1 /\ state' = "SLEEPING"
             /\ UNCHANGED <<execTags, mem, weights, pause>>
      BY <1>2, <2>2 DEF Wake, worker
    <3>2. keeper' = (keeper /\ ~ (Target = "reload"))
      BY <1>2, <2>2 DEF Wake, KeeperStops
    <3>3. keeper' = FALSE
      BY <1>1, <3>2 DEF AInv, KeeperInv, ControlType
    <3>4. weights' \in BOOLEAN
      BY <3>1, <1>1 DEF WorkerType
    <3>5. execTags' \subseteq Tags /\ mem' \in [Ranks -> SUBSET Tags] /\ pause' \in {"UNPAUSED", pause}
      BY <3>1, <1>1, WakeUpFacts DEF WorkerType
    <3>. QED BY <3>1, <3>3, <3>4, <3>5, <1>1, SetupFacts DEF WorkerType
  <2>. QED BY <2>1, <2>2
<1>4. keeper' \in BOOLEAN /\ ~ keeper'
  BY <1>3
<1>5. setup' \in Setups /\ TypeOK'
  <2>1. SchedType' /\ WorkerType'
    BY <1>1, <1>2, <1>3, SetupFacts DEF SchedType, WorkerType
  <2>2. ControlType'
    BY <1>1, <1>2, <1>3, <1>4, SetupFacts, ConstantsAssumption DEF ControlType
  <2>3. LoopType'
    BY <1>1, <1>2, SetupFacts DEF LoopType
  <2>. QED BY <1>1, <2>1, <2>2, <2>3, SameTypes, SetupFacts, TypeGroups
<1>6. pc' \in {"loop", "drain", "dead"} /\ (pc' # "dead" => Loaded')
  BY <1>2 DEF Loaded
<1>7. LoopInv' /\ KeeperInv' /\ HandleInv' /\ RestInv' /\ ExitInv'
  BY <1>2, <1>4, <1>6, SetupFacts DEF AInv, LoopInv, KeeperInv, HandleInv, RestInv, ExitInv, Settling, IsRunning
<1>8. WindowInv'
  BY <1>2, <1>6, SetupFacts DEF AInv, WindowInv, Settling, Setting, IsRunning
<1>. QED BY <1>5, <1>7, <1>8 DEF AInv

\* AfterCancel: the request is added, or the timer set again.
LEMMA AfterCancelStep == ASSUME AInv, AfterCancel, SameSetup PROVE AInv'
<1>1. /\ LoopType /\ TimerType /\ TypeOK /\ setup \in Setups /\ pc = "cancelled" /\ inq' = inq
      /\ ret \in {"loop", "drain"} /\ handle = NoTimer /\ NoTimer \notin Timers
  BY TypeGroups, ConstantsAssumption DEF AInv, AfterCancel, LoopInv, LoopType
<1>2. CASE cur.type = "ADD" /\ AddRequest(cur.req, ret) /\ UNCHANGED clock
  <2>1. cur \in Message
    BY <1>1, <1>2 DEF LoopType, NoMsg
  <2>. QED BY <1>1, <1>2, <2>1, MessageFacts, AddRequestStep DEF LoopType, clock
<1>3. CASE /\ cur.type = "REARM" /\ Arm(cur.left, ret)
           /\ UNCHANGED <<abq, sched, batch, worker, pend, shutdown, ctl, quiet, outcome, nUser, nFail>>
  <2>1. cur.left \in 0..(Timeout + 1)
    BY <1>1, <1>3, MessageFacts DEF LoopType, NoMsg
  <2>2. TimerType' /\ handle' \in Timers /\ timers'[handle'].st = "created" /\ pc' = "daemon" /\ ret' = ret /\ cur' = NoMsg
    BY <1>1, <1>3, <2>1, ArmFacts
  <2>3. UNCHANGED <<abq, waiting, running, finished, pause, batch, execTags, mem, weights, pend, shutdown, state,
                    keeper, idleAge, quiet, outcome, nUser, nFail>>
    BY <1>3 DEF sched, worker, ctl
  <2>4. setup' \in Setups /\ TypeOK'
    <3>1. LoopType'
      BY <1>1, <2>2, <2>3, SetupFacts DEF LoopType
    <3>. QED BY <1>1, <2>2, <2>3, <3>1, SameTypes, SetupFacts, TypeGroups
  <2>5. LoopInv' /\ KeeperInv' /\ HandleInv' /\ RestInv' /\ ExitInv' /\ WindowInv'
    BY <1>1, <1>3, <2>2, <2>3, SetupFacts DEF AInv, LoopInv, KeeperInv, HandleInv, RestInv, ExitInv, WindowInv, Settling,
       Setting, Loaded, IsRunning
  <2>. QED BY <2>4, <2>5 DEF AInv
<1>. QED BY <1>2, <1>3 DEF AfterCancel

\* pause_scheduler keeps a loaded scheduler loaded.
LEMMA PauseFacts ==
  ASSUME NEW mode, NEW clear \in BOOLEAN, PauseScheduler(mode, clear), SchedType, batch' = batch
  PROVE  /\ SchedType' /\ waiting' \cup running' \subseteq waiting \cup running /\ (Loaded' <=> Loaded)
         /\ mode = "abort" => waiting' \subseteq waiting /\ running' \subseteq running
         /\ mode = "abort" \/ outcome' = outcome
<1>1. pause' \in {"PAUSED_ALL", "PAUSED_NEW"}
  BY DEF PauseScheduler, PauseStateOf
<1>2. CASE mode = "abort"
  <2>1. Abort(Requests)
    BY <1>2 DEF PauseScheduler
  <2>. QED BY <1>1, <1>2, <2>1, AbortFacts DEF SchedType, Loaded
<1>3. CASE mode # "abort"
  <2>1. PICK c \in BOOLEAN : FinishPause(c) /\ UNCHANGED <<finished, outcome>>
    <3>1. (clear /\ PauseComplete(mode)) \in BOOLEAN
      BY DEF PauseComplete
    <3>. QED BY <1>3, <3>1 DEF PauseScheduler
  <2>2. waiting' \subseteq Requests /\ running' \subseteq running /\ waiting' \cup running' = waiting \cup running
    BY <2>1, FinishFacts DEF SchedType
  <2>. QED BY <1>1, <1>3, <2>1, <2>2 DEF SchedType, Loaded
<1>. QED BY <1>2, <1>3

\* An abort that a client sent.
LEMMA HandleAbortStep ==
  ASSUME AInv, SameSetup, pc \in {"get", "drain"}, inq' \in Seq(Message),
         NEW r \in Requests, HandleAbort(r, Back)
  PROVE  AInv'
<1>1. LoopType /\ SchedType /\ WorkerType /\ ControlType /\ TypeOK /\ setup \in Setups
  BY TypeGroups DEF AInv
<1>2. /\ Abort({r}) /\ pc' = Back /\ cur' = NoMsg /\ ret' = "loop"
      /\ UNCHANGED <<abq, pause, batch, execTags, mem, weights, pend, shutdown, state, keeper, idleAge, timers,
                     handle, quiet, nUser, nFail>>
  BY DEF HandleAbort, Continue, worker, ctl, clock
<1>3. SchedType' /\ waiting' \subseteq waiting /\ running' \subseteq running /\ (Loaded' <=> Loaded)
  BY <1>1, <1>2, AbortFacts DEF SchedType, Loaded
<1>4. WorkerType' /\ ControlType'
  BY <1>1, <1>2, SameTypes
<1>5. keeper' => state' = "SLEEPING" /\ Target = "reload"
  BY <1>2 DEF AInv, KeeperInv
<1>. QED BY <1>1, <1>2, <1>3, <1>4, <1>5, Handled

\* A pause left to a callback is queued with what it is for.
LEMMA DeferFacts ==
  ASSUME NEW p \in Pending, pend' = Append(pend, p), UNCHANGED <<worker, nFail>>, WorkerType,
         setup \in Setups, SameSetup
  PROVE  WorkerType'
BY SetupFacts DEF worker, WorkerType

\* The operator's calls: they change pause, scheduler and worker only.
LEMMA HandleUtilityStep ==
  ASSUME AInv, SameSetup, pc \in {"get", "drain"}, inq' \in Seq(Message),
         NEW u \in UserOps, HandleUtility(u, Back)
  PROVE  AInv'
<1>1. LoopType /\ SchedType /\ WorkerType /\ ControlType /\ TypeOK /\ setup \in Setups
  BY TypeGroups DEF AInv
<1>2. /\ pc' = Back /\ cur' = NoMsg /\ ret' = "loop"
      /\ UNCHANGED <<abq, batch, shutdown, state, keeper, idleAge, timers, handle, quiet, nUser>>
  BY DEF HandleUtility, Continue, ctl, clock
<1>3. u \in UserOp
  BY <1>1, SetupFacts
<1>4. /\ SchedType' /\ WorkerType' /\ waiting' \cup running' \subseteq waiting \cup running
      /\ (Loaded' <=> Loaded)
  <2>1. CASE UNCHANGED <<waiting, running, finished, outcome, execTags, mem, weights, pend, nFail>>
             /\ pause' \in {"UNPAUSED", pause}
    <3>1. SchedType' /\ (Loaded' <=> Loaded)
      BY <2>1, <1>1, <1>2 DEF SchedType, Loaded
    <3>. QED BY <2>1, <3>1, <1>1, SameTypes
  <2>2. CASE u.op = "sleep" /\ UtilitySleep(u.level, u.mode)
    <3>1. u.level \in 0..2
      BY <1>3, <2>2 DEF UserOp
    <3>2. SchedType' /\ waiting' \cup running' \subseteq waiting \cup running /\ (Loaded' <=> Loaded)
      <4>1. (u.level > 0) \in BOOLEAN /\ PauseScheduler(u.mode, u.level > 0)
        BY <2>2, <3>1 DEF UtilitySleep
      <4>. QED BY <4>1, <1>1, <1>2, PauseFacts
    <3>3. CASE UNCHANGED <<worker, pend, nFail>>
      BY <3>2, <3>3, <1>1, SameTypes DEF worker
    <3>4. CASE ExecutorSleep(u.level) /\ UNCHANGED <<pend, nFail>>
      <4>1. weights' \in BOOLEAN
        BY <3>4, <1>1 DEF ExecutorSleep, worker, WorkerType
      <4>. QED BY <3>2, <3>4, <4>1, <1>1, SetupFacts DEF ExecutorSleep, worker, WorkerType
    <3>5. CASE ExecutorSleepFails(u.level) /\ UNCHANGED pend
      <4>1. weights' \in BOOLEAN
        BY <3>5, <1>1 DEF ExecutorSleepFails, WorkerType
      <4>. QED BY <3>2, <3>5, <4>1, <1>1, SetupFacts DEF ExecutorSleepFails, WorkerType
    <3>6. CASE Defer(u.level, u.level > 0) /\ UNCHANGED nFail
      <4>1. [level |-> u.level, clear |-> u.level > 0] \in Pending
        BY <3>1 DEF Pending
      <4>. QED BY <3>2, <3>6, <4>1, <1>1, DeferFacts DEF Defer
    <3>. QED BY <2>2, <3>3, <3>4, <3>5, <3>6 DEF UtilitySleep
  <2>3. CASE u.op = "pause" /\ UtilityPause(u.mode)
    <3>1. SchedType' /\ waiting' \cup running' \subseteq waiting \cup running /\ (Loaded' <=> Loaded)
      BY <2>3, <1>1, <1>2, PauseFacts DEF UtilityPause
    <3>2. CASE UNCHANGED <<worker, pend, nFail>>
      BY <3>1, <3>2, <1>1, SameTypes DEF worker
    <3>3. CASE Defer(0, TRUE) /\ UNCHANGED nFail
      <4>1. [level |-> 0, clear |-> TRUE] \in Pending
        BY DEF Pending
      <4>. QED BY <3>1, <3>3, <4>1, <1>1, DeferFacts DEF Defer
    <3>. QED BY <2>3, <3>2, <3>3 DEF UtilityPause
  <2>5. CASE FinishPauseFails(u.mode) /\ UNCHANGED <<worker, pend>>
    <3>1. SchedType' /\ waiting' \cup running' \subseteq waiting \cup running /\ (Loaded' <=> Loaded)
      BY <2>5, <1>1, <1>2, PauseFacts DEF FinishPauseFails
    <3>2. nFail' \in 0..MaxFailures
      BY <2>5, <1>1, SetupFacts DEF FinishPauseFails, WorkerType
    <3>. QED BY <2>5, <3>1, <3>2, <1>1, SetupFacts DEF worker, WorkerType
  <2>4. CASE u.op = "wake" /\ WakeUp(u.tags)
             /\ UNCHANGED <<weights, waiting, running, finished, outcome, pend, nFail>>
    <3>1. execTags' \subseteq Tags /\ mem' \in [Ranks -> SUBSET Tags] /\ pause' \in {"UNPAUSED", pause}
      BY <2>4, <1>1, WakeUpFacts
    <3>2. SchedType' /\ (Loaded' <=> Loaded)
      BY <2>4, <3>1, <1>1, <1>2 DEF SchedType, Loaded
    <3>3. WorkerType'
      BY <2>4, <3>1, <1>1, SetupFacts DEF WorkerType
    <3>. QED BY <2>4, <3>2, <3>3
  <2>. QED BY <2>1, <2>2, <2>3, <2>4, <2>5 DEF HandleUtility, sched, worker
<1>5. ControlType'
  BY <1>1, <1>2, SameTypes
<1>6. keeper' => state' = "SLEEPING" /\ Target = "reload"
  BY <1>2 DEF AInv, KeeperInv
<1>. QED BY <1>1, <1>2, <1>4, <1>5, <1>6, Handled

\* A request that arrives: rejected in shutdown, else added once the timer is off.
LEMMA HandleAddStep ==
  ASSUME AInv, SameSetup, pc \in {"get", "drain"}, inq' \in Seq(Message),
         NEW r \in Requests, HandleAdd(r, Back)
  PROVE  AInv'
<1>1. LoopType /\ SchedType /\ WorkerType /\ ControlType /\ TimerType /\ TypeOK /\ setup \in Setups
  BY TypeGroups DEF AInv
<1>2. CASE /\ ~ IsRunning /\ outcome' = [outcome EXCEPT ![r] = "rejected"] /\ Continue(Back)
           /\ UNCHANGED <<abq, sched, batch, worker, pend, shutdown, ctl, clock, quiet, nUser, nFail>>
  <2>1. /\ pc' = Back /\ cur' = NoMsg /\ ret' = "loop"
        /\ UNCHANGED <<abq, waiting, running, finished, pause, batch, execTags, mem, weights, pend, shutdown, state,
                       keeper, idleAge, timers, handle, quiet, nUser, nFail>>
    BY <1>2 DEF Continue, sched, worker, ctl, clock
  <2>2. SchedType' /\ (Loaded' <=> Loaded)
    BY <1>1, <1>2, <2>1 DEF SchedType, Loaded
  <2>3. WorkerType' /\ ControlType'
    BY <1>1, <2>1, SameTypes
  <2>4. keeper' => state' = "SLEEPING" /\ Target = "reload"
    BY <2>1 DEF AInv, KeeperInv
  <2>. QED BY <1>1, <2>1, <2>2, <2>3, <2>4, Handled
<1>3. CASE IsRunning /\ handle = NoTimer /\ AddRequest(r, Back) /\ UNCHANGED clock
  BY <1>3, AddRequestStep DEF Back, clock
<1>4. CASE /\ IsRunning /\ handle # NoTimer
           /\ idleAge' = 0 /\ pc' = "cancel" /\ ret' = Back /\ cur' = [type |-> "ADD", req |-> r]
           /\ UNCHANGED <<abq, sched, batch, worker, pend, shutdown, state, keeper, clock, quiet, outcome,
                          nUser, nFail>>
  <2>1. UNCHANGED <<abq, waiting, running, finished, pause, batch, execTags, mem, weights, pend, shutdown, state,
                    keeper, timers, handle, quiet, outcome, nUser, nFail>>
    BY <1>4 DEF sched, worker, clock
  <2>2. ControlType' /\ quiet \in Nat
    BY <1>1, <1>4, <2>1, SetupFacts, ConstantsAssumption DEF ControlType
  <2>3. LoopType' /\ Back \in {"loop", "drain"}
    BY <1>1, <1>4, <2>1, SetupFacts, MessageFacts DEF LoopType, Back
  <2>4. setup' \in Setups /\ TypeOK'
    BY <1>1, <2>1, <2>2, <2>3, SameTypes, SetupFacts, TypeGroups
  <2>5. LoopInv' /\ KeeperInv' /\ HandleInv' /\ RestInv' /\ ExitInv'
    BY <1>1, <1>4, <2>1, <2>3, SetupFacts DEF AInv, LoopInv, KeeperInv, HandleInv, RestInv, ExitInv, Settling,
       IsRunning
  <2>6. WindowInv'
    <3>1. BatchQueueSize = 1 => pc = "get"
      BY <1>4 DEF AInv, WindowInv
    <3>. QED BY <1>4, <2>1, <2>2, <3>1, SetupFacts DEF AInv, WindowInv, Settling, Setting, Loaded, Back
  <2>. QED BY <2>4, <2>5, <2>6 DEF AInv
<1>. QED BY <1>2, <1>3, <1>4 DEF HandleAdd, AcceptAdd

\* A poke that is not ignored finds the engine awake and the scheduler empty.
LEMMA PokeTaken ==
  ASSUME AInv, pc \in {"get", "drain"}, ~ PokeIgnored
  PROVE  /\ state = "ACTIVE" /\ pause = "UNPAUSED" /\ execTags = {} /\ IsRunning
         /\ waiting = {} /\ running = {} /\ ~ finished /\ ~ keeper
         /\ BatchQueueSize = 1 => pc = "get" /\ idleAge <= quiet /\ ~ Loaded
<1>1. /\ state = "ACTIVE" /\ pause = "UNPAUSED" /\ execTags = {} /\ IsRunning
      /\ waiting = {} /\ running = {} /\ ~ finished
  BY DEF PokeIgnored, IsSleeping, HasRequests, HasRequestsIn
<1>2. ~ keeper
  BY <1>1 DEF AInv, KeeperInv
<1>3. BatchQueueSize = 1 => ~ Loaded
  BY <1>1 DEF AInv, WindowInv, Loaded
<1>4. BatchQueueSize = 1 => pc = "get" /\ idleAge <= quiet
  BY <1>1, <1>3 DEF AInv, WindowInv, Settling, IsSleeping
<1>. QED BY <1>1, <1>2, <1>3, <1>4

\* _rearm: the early poke sets the timer to what remains of the window.
LEMMA RearmStep ==
  ASSUME AInv, SameSetup, pc \in {"get", "drain"}, inq' \in Seq(Message), ~ PokeIgnored,
         Rearm(IdleRemaining + 1, Back), UNCHANGED <<abq, batch, idleAge, quiet, nUser>>
  PROVE  AInv'
<1>1. LoopType /\ TimerType /\ ControlType /\ TypeOK /\ setup \in Setups /\ Timeout \in Nat /\ NoTimer \notin Timers
  BY TypeGroups, ConstantsAssumption DEF AInv
<1>2. IdleRemaining + 1 \in 0..(Timeout + 1) /\ Back \in {"loop", "drain"} /\ (pc = "get" => Back = "loop")
  BY <1>1 DEF IdleRemaining, ControlType, Back
<1>3. UNCHANGED <<abq, waiting, running, finished, pause, batch, outcome, execTags, mem, weights, pend, state,
                  keeper, idleAge, quiet, nUser, shutdown, nFail>>
  BY DEF Rearm, sched, worker
<1>4. CASE handle # NoTimer
  <2>1. /\ pc' = "cancel" /\ ret' = Back /\ cur' = [type |-> "REARM", left |-> IdleRemaining + 1]
        /\ UNCHANGED <<timers, handle>>
    BY <1>4 DEF Rearm, clock
  <2>2. setup' \in Setups /\ TypeOK'
    <3>1. LoopType'
      BY <1>1, <1>2, <1>3, <2>1, SetupFacts DEF LoopType
    <3>. QED BY <1>1, <1>3, <2>1, <3>1, SameTypes, SetupFacts, TypeGroups
  <2>3. LoopInv' /\ KeeperInv' /\ HandleInv' /\ RestInv' /\ ExitInv'
    BY <1>1, <1>2, <1>3, <2>1, PokeTaken, SetupFacts DEF AInv, LoopInv, KeeperInv, HandleInv, RestInv, ExitInv,
       Settling, IsRunning
  <2>4. WindowInv'
    BY <1>2, <1>3, <2>1, PokeTaken, SetupFacts DEF AInv, WindowInv, Settling, Setting, Loaded
  <2>. QED BY <2>2, <2>3, <2>4 DEF AInv
<1>5. CASE handle = NoTimer
  <2>1. Arm(IdleRemaining + 1, Back)
    BY <1>5 DEF Rearm
  <2>2. TimerType' /\ handle' \in Timers /\ timers'[handle'].st = "created" /\ pc' = "daemon" /\ ret' = Back /\ cur' = NoMsg
    BY <1>1, <1>2, <2>1, ArmFacts
  <2>3. setup' \in Setups /\ TypeOK'
    <3>1. LoopType'
      BY <1>1, <1>2, <1>3, <2>2, SetupFacts DEF LoopType
    <3>. QED BY <1>1, <1>3, <2>2, <3>1, SameTypes, SetupFacts, TypeGroups
  <2>4. LoopInv' /\ KeeperInv' /\ HandleInv' /\ RestInv' /\ ExitInv'
    BY <1>1, <1>2, <1>3, <2>2, SetupFacts DEF AInv, LoopInv, KeeperInv, HandleInv, RestInv, ExitInv, Settling,
       IsRunning
  <2>5. WindowInv'
    BY <1>2, <1>3, <2>2, PokeTaken, SetupFacts DEF AInv, WindowInv, Settling, Setting, Loaded
  <2>. QED BY <2>3, <2>4, <2>5 DEF AInv
<1>. QED BY <1>4, <1>5

\* on_wakeup_poke: ignored, too early, or the end of the idle window.
LEMMA OnWakeupPokeStep ==
  ASSUME AInv, SameSetup, pc \in {"get", "drain"}, inq' \in Seq(Message), OnWakeupPoke(Back)
  PROVE  AInv'
<1>1. LoopType /\ SchedType /\ WorkerType /\ ControlType /\ TypeOK /\ setup \in Setups
  BY TypeGroups DEF AInv
<1>2. UNCHANGED <<abq, batch, idleAge, quiet, nUser>>
  BY DEF OnWakeupPoke
<1>. DEFINE Kept == UNCHANGED <<waiting, running, finished, pause, outcome, execTags, mem, weights, pend, nFail>>
<1>3. ASSUME Kept PROVE SchedType' /\ WorkerType' /\ (Loaded' <=> Loaded)
  BY <1>1, <1>2, <1>3, SameTypes DEF Loaded
<1>4. CASE Continue(Back) /\ UNCHANGED <<sched, outcome, worker, pend, state, keeper, shutdown, nFail, clock>>
  <2>1. Kept /\ UNCHANGED <<state, keeper, shutdown, timers, handle>> /\ pc' = Back /\ cur' = NoMsg /\ ret' = "loop"
    BY <1>4 DEF Continue, sched, worker, clock
  <2>2. ControlType'
    BY <1>1, <1>2, <2>1, SameTypes
  <2>3. keeper' => state' = "SLEEPING" /\ Target = "reload"
    BY <2>1 DEF AInv, KeeperInv
  <2>. QED BY <1>2, <1>3, <2>1, <2>2, <2>3, Handled
<1>5. CASE ~ PokeIgnored /\ Rearm(IdleRemaining + 1, Back)
  BY <1>2, <1>5, RearmStep
<1>6. CASE ~ PokeIgnored /\ DeepSleepExit(Back) /\ UNCHANGED clock
  <2>1. /\ Kept /\ UNCHANGED <<keeper, timers, handle>> /\ pc' = Back /\ cur' = NoMsg /\ ret' = "loop"
        /\ state' = "EXITED" /\ shutdown' = "REQUESTED"
    BY <1>6 DEF DeepSleepExit, Continue, sched, worker, clock
  <2>2. ControlType'
    BY <1>1, <1>2, <2>1, SetupFacts DEF ControlType
  <2>3. waiting' = {} /\ running' = {} /\ ~ keeper'
    BY <1>6, <2>1, PokeTaken
  <2>. QED BY <1>2, <1>3, <2>1, <2>2, <2>3, Handled
<1>7. CASE ~ PokeIgnored /\ AutoSleepStep(Back) /\ UNCHANGED clock
  <2>1. /\ state = "ACTIVE" /\ pause = "UNPAUSED" /\ execTags = {} /\ IsRunning
        /\ waiting = {} /\ running = {} /\ ~ finished /\ ~ keeper
    BY <1>7, PokeTaken
  <2>2. UNCHANGED <<shutdown, timers, handle>> /\ pc' \in {Back, "dead"} /\ cur' = NoMsg /\ ret' = "loop"
    BY <1>7 DEF AutoSleepStep, Continue, Die, clock
  <2>3. CASE DiskPrepareFails
    <3>1. /\ UNCHANGED <<waiting, running, finished, pause, outcome, execTags, mem, weights, pend, state, keeper>>
          /\ nFail' \in 0..MaxFailures
      BY <2>3, <1>1, SetupFacts DEF DiskPrepareFails, sched, worker, WorkerType
    <3>2. SchedType' /\ WorkerType' /\ ControlType' /\ (Loaded' <=> Loaded)
      BY <1>1, <1>2, <2>2, <3>1, SetupFacts DEF SchedType, WorkerType, ControlType, Loaded
    <3>. QED BY <1>2, <2>1, <2>2, <3>1, <3>2, Handled
  <2>4. CASE SleepNow(SleepLevel)
    <3>1. SleepLevel \in 1..2
      BY DEF SleepLevel
    <3>2. SchedType' /\ waiting' \cup running' \subseteq waiting \cup running /\ (Loaded' <=> Loaded)
      BY <2>4, <1>1, <1>2, PauseFacts DEF SleepNow
    <3>3. WorkerType'
      <4>1. CASE ExecutorSleep(SleepLevel) /\ UNCHANGED pend
        <5>1. weights' \in BOOLEAN
          BY <4>1, <1>1 DEF ExecutorSleep, worker, WorkerType
        <5>. QED BY <2>4, <4>1, <5>1, <1>1, SetupFacts DEF ExecutorSleep, worker, WorkerType, SleepNow
      <4>2. CASE Defer(SleepLevel, TRUE)
        <5>1. [level |-> SleepLevel, clear |-> TRUE] \in Pending
          BY <3>1 DEF Pending
        <5>. QED BY <2>4, <4>2, <5>1, <1>1, DeferFacts DEF SleepNow, Defer
      <4>. QED BY <2>4, <4>1, <4>2 DEF SleepNow
    <3>4. state' = "SLEEPING" /\ keeper' = (keeper \/ Target = "reload")
      BY <2>4 DEF SleepNow, KeeperStarts
    <3>5. keeper' \in BOOLEAN /\ (keeper' => Target = "reload")
      BY <2>1, <3>4
    <3>6. ControlType'
      BY <1>1, <1>2, <2>2, <3>4, <3>5, SetupFacts DEF ControlType
    <3>. QED BY <1>2, <2>2, <3>2, <3>3, <3>4, <3>5, <3>6, Handled
  <2>5. CASE SleepRolledBack
    <3>1. /\ UNCHANGED <<outcome, pend, keeper, execTags, waiting, running, finished>>
          /\ state' \in {"ACTIVE", "SLEEPING"} /\ pause' \in {"PAUSED_NEW", pause}
          /\ nFail' \in 0..MaxFailures
      BY <2>5, <1>1, SetupFacts DEF SleepRolledBack, sched, WorkerType
    <3>2. mem' \in [Ranks -> SUBSET Tags]
      BY <2>5, <1>1 DEF SleepRolledBack, WorkerType
    <3>3. weights' \in BOOLEAN
      BY <2>5, <1>1 DEF SleepRolledBack, WorkerType
    <3>4. SchedType' /\ (Loaded' <=> Loaded)
      BY <1>1, <1>2, <3>1 DEF SchedType, Loaded
    <3>5. WorkerType' /\ ControlType'
      BY <1>1, <1>2, <2>2, <3>1, <3>2, <3>3, SetupFacts DEF WorkerType, ControlType
    <3>. QED BY <1>2, <2>1, <2>2, <3>1, <3>4, <3>5, Handled
  <2>. QED BY <1>7, <2>3, <2>4, <2>5 DEF AutoSleepStep
<1>. QED BY <1>4, <1>5, <1>6, <1>7 DEF OnWakeupPoke

\* Get and Drain: every message.
LEMMA HandleStep ==
  ASSUME AInv, Get \/ Drain, SameSetup PROVE AInv'
<1>1. pc \in {"get", "drain"} /\ Handle(Back)
  BY DEF Get, Drain, Back
<1>2. inq' \in Seq(Message) /\ Head(inq) \in Message
  BY <1>1, TakeMessage DEF Handle, AInv, TypeOK
<1>. QED BY <1>1, <1>2, MessageFacts, OnWakeupPokeStep, HandleAddStep, HandleAbortStep, HandleUtilityStep DEF Handle

-----------------------------------------------------------------------------
(* The theorems.                                                           *)

\* Every step preserves AInv.
LEMMA AInvStep == AInv /\ [Next]_vars => AInv'
<1>. SUFFICES ASSUME AInv, [Next]_vars PROVE AInv'
  OBVIOUS
<1>1. CASE MainLoop /\ SameSetup
  BY <1>1, HandleShutdownStep, SkipIdleStep, NotifyIdleStep, RunDeferredSleepStep, BeginGetStep, HandleStep,
     DrainDoneStep, CancelTimerStep, AfterCancelStep, ArmDaemonStep, ArmStartStep, StepScheduleStep DEF MainLoop
<1>2. ASSUME NEW F \in SUBSET Requests, StepOutput(F), SameSetup PROVE AInv'
  BY <1>2, StepOutputStep
<1>3. ASSUME NEW t \in Timers, TimerThread(t), SameSetup PROVE AInv'
  BY <1>3, TimerThreadStep
<1>4. CASE Tick /\ SameSetup
  BY <1>4, TickStep
<1>5. CASE /\ SameSetup
           /\ \/ \E r \in setup.requests : ClientAdd(r) \/ ClientAbort(r)
              \/ \E u \in UserOps : UserCall(u)
  BY <1>5, FrontEndStep
<1>6. CASE UNCHANGED vars
  <2>1. UNCHANGED <<pc, ret, cur, inq, abq, waiting, running, finished, pause, batch, execTags, mem, weights, pend,
                    shutdown, state, handle, timers, keeper, idleAge, quiet, outcome, nUser, nFail, setup>>
    BY <1>6 DEF vars
  <2>2. SameSetup /\ setup \in Setups /\ TypeOK
    BY <2>1 DEF SameSetup, AInv
  <2>3. setup' \in Setups /\ TypeOK' /\ Poked' = Poked
    BY <2>1, <2>2, SameTypes, TypeGroups, SamePoke
  <2>4. LoopInv' /\ KeeperInv' /\ HandleInv' /\ RestInv' /\ ExitInv' /\ WindowInv'
    BY <2>1, <2>2, <2>3, SetupFacts DEF AInv, LoopInv, KeeperInv, HandleInv, RestInv, ExitInv, WindowInv, Settling,
       Setting, Loaded, IsRunning, IsSleeping, HasWork, HasRequests, HasRequestsIn
  <2>. QED BY <2>3, <2>4 DEF AInv
<1>. QED BY <1>1, <1>2, <1>3, <1>4, <1>5, <1>6 DEF Next, Step, Gone

\* AInv holds in every reachable state, for every setup.
THEOREM AInvAlways == Spec => []AInv
<1>1. Init => AInv
  BY InitAInv
<1>2. AInv /\ [Next]_vars => AInv'
  BY AInvStep
<1>. QED BY <1>1, <1>2, PTL DEF Spec

\* At rest the engine and its controller agree and a poke is on its way, for every
\* offload target, batch queue, operator call and failure.
THEOREM AlwaysSettledIdle == Spec => []SettledIdle
<1>1. AInv => SettledIdle
  BY DEF AInv, SettledIdle, PokeOnItsWay, SettledAtRest, RestInv, KeeperInv, Settling, Poked
<1>. QED BY <1>1, AInvAlways, PTL

\* The steps that are no message: what they do to the controller's state.
LEMMA StateKept ==
  ASSUME AInv, [Next]_vars, ~ (Get \/ Drain), state' # state
  PROVE  state' = "ACTIVE" \/ pc' = "dead"
<1>1. CASE MainLoop
  <2>1. CASE HandleShutdown \/ SkipIdle \/ RunDeferredSleep \/ BeginGet \/ DrainDone \/ CancelTimer \/ ArmDaemon
             \/ ArmStart \/ StepSchedule \/ StepNothing
    BY <2>1 DEF HandleShutdown, SkipIdle, RunDeferredSleep, RunDeferred, Die, BeginGet, DrainDone, CancelTimer, ArmDaemon, ArmStart,
       StepSchedule, StepNothing, ctl
  <2>2. CASE NotifyIdle
    BY <2>2 DEF NotifyIdle, OnIdle
  <2>3. CASE AfterCancel
    <3>1. CASE AddRequest(cur.req, ret)
      BY <3>1 DEF AddRequest, Wake, Die
    <3>. QED BY <2>3, <3>1 DEF AfterCancel, ctl
  <2>. QED BY <1>1, <2>1, <2>2, <2>3 DEF MainLoop
<1>2. CASE \E F \in SUBSET Requests : StepOutput(F)
  BY <1>2 DEF StepOutput, ctl
<1>3. CASE \E t \in Timers : TimerThread(t)
  BY <1>3 DEF TimerThread, TimerFires, PokeClear, PokePut, others
<1>4. CASE Tick
  BY <1>4 DEF Tick, others
<1>5. CASE (\E r \in setup.requests : ClientAdd(r) \/ ClientAbort(r)) \/ \E u \in UserOps : UserCall(u)
  BY <1>5 DEF ClientAdd, ClientAbort, UserCall, others, ctl
<1>6. CASE UNCHANGED vars
  BY <1>6 DEF vars
<1>. QED BY <1>1, <1>2, <1>3, <1>4, <1>5, <1>6 DEF Next, Step, Gone

\* The controller puts the engine to sleep only after it has had no work for the
\* whole idle timeout, for every timeout and whatever stale timers poke it.
THEOREM WindowAlwaysHonoured == Spec => IdleWindowHonoured
<1>1. ASSUME AInv, [Next]_vars, BatchQueueSize = 1, state = "ACTIVE", state' \in {"SLEEPING", "EXITED"},
             pc' # "dead"
      PROVE  quiet = Timeout
  <2>1. pc \in {"get", "drain"} /\ Handle(Back)
    BY <1>1, StateKept DEF Get, Drain, Back
  <2>2. CASE Head(inq).type = "WAKEUP" /\ OnWakeupPoke(Back)
    <3>1. ~ PokeIgnored /\ IdleRemaining = 0
      BY <1>1, <2>2 DEF OnWakeupPoke, Rearm
    <3>2. idleAge <= quiet
      BY <1>1, <2>1, <3>1, PokeTaken
    <3>3. idleAge \in 0..Timeout /\ quiet \in 0..Timeout /\ Timeout \in Nat
      BY <1>1, ConstantsAssumption DEF AInv, TypeOK
    <3>. QED BY <3>1, <3>2, <3>3 DEF IdleRemaining
  <2>3. CASE HandleAdd(Head(inq).req, Back)
    BY <1>1, <2>3 DEF HandleAdd, AcceptAdd, AddRequest, Wake, Die, ctl
  <2>4. CASE HandleAbort(Head(inq).req, Back) \/ HandleUtility(Head(inq).call, Back)
    BY <1>1, <2>4 DEF HandleAbort, HandleUtility, ctl
  <2>. QED BY <2>1, <2>2, <2>3, <2>4 DEF Handle
<1>2. AInv /\ [Next]_vars =>
        [(BatchQueueSize = 1 /\ state = "ACTIVE" /\ state' \in {"SLEEPING", "EXITED"} /\ pc' # "dead")
            => quiet = Timeout]_vars
  BY <1>1
<1>. QED BY <1>2, AInvAlways, PTL DEF Spec, IdleWindowHonoured

\* A request that ends aborted in a message other than its own abort or an
\* operator's call: there is none.
LEMMA PokeAbortsNone ==
  ASSUME AInv, pc \in {"get", "drain"}, OnWakeupPoke(Back) PROVE outcome' = outcome
<1>1. SchedType
  BY TypeGroups DEF AInv
<1>2. CASE PokeIgnored \/ Rearm(IdleRemaining + 1, Back) \/ DeepSleepExit(Back) \/ DiskPrepareFails \/ SleepRolledBack
  BY <1>2 DEF OnWakeupPoke, Rearm, DeepSleepExit, DiskPrepareFails, SleepRolledBack
<1>3. CASE ~ PokeIgnored /\ SleepNow(SleepLevel)
  <2>1. waiting \cup running = {}
    BY <1>3, PokeTaken
  <2>2. Abort(Requests)
    BY <1>3 DEF SleepNow, PauseScheduler
  <2>. QED BY <1>1, <2>1, <2>2, AbortFacts
<1>. QED BY <1>2, <1>3 DEF OnWakeupPoke, AutoSleepStep

\* Who may abort a request: what OnlyClientsAbort says of one step.
Asked(r) ==
  \/ r \in abq
  \/ /\ pc \in {"get", "drain"}
     /\ \/ Head(inq) = [type |-> "ABORT", req |-> r]
        \/ Head(inq).type = "UTILITY"

\* The steps that are no message abort only what is in the aborts queue, or in a
\* shutdown.
LEMMA AbortsAsked ==
  ASSUME AInv, [Next]_vars, NEW r \in Requests, IsRunning \/ (Target = "exit" /\ nUser = 0),
         outcome[r] # "aborted", outcome'[r] = "aborted"
  PROVE  Asked(r)
<1>1. SchedType /\ LoopType /\ setup \in Setups
  BY TypeGroups DEF AInv
<1>2. CASE HandleShutdown
  <2>1. CASE IsRunning
    BY <1>2, <2>1 DEF HandleShutdown, IsRunning
  <2>2. CASE ~ IsRunning
    <3>1. waiting \cup running = {}
      BY <2>2 DEF AInv, ExitInv
    <3>2. outcome' = outcome
      BY <1>1, <1>2, <3>1, AbortFacts DEF HandleShutdown
    <3>. QED BY <3>2
  <2>. QED BY <2>1, <2>2
<1>3. CASE SkipIdle \/ NotifyIdle \/ RunDeferredSleep \/ BeginGet \/ DrainDone \/ CancelTimer \/ AfterCancel
           \/ ArmDaemon \/ ArmStart \/ StepSchedule \/ StepNothing
  BY <1>3 DEF SkipIdle, NotifyIdle, RunDeferredSleep, BeginGet, DrainDone, CancelTimer, AfterCancel, AddRequest,
     ArmDaemon, ArmStart, StepSchedule, StepNothing
<1>4. CASE Get \/ Drain
  <2>1. pc \in {"get", "drain"} /\ Handle(Back)
    BY <1>4 DEF Get, Drain, Back
  <2>. DEFINE m == Head(inq)
  <2>2. m \in Message
    BY <1>1, <2>1 DEF Handle, LoopType
  <2>3. CASE m.type = "WAKEUP" /\ OnWakeupPoke(Back)
    BY <2>1, <2>3, PokeAbortsNone
  <2>4. CASE m.type = "ADD" /\ HandleAdd(m.req, Back)
    BY <1>1, <2>4 DEF HandleAdd, AcceptAdd, AddRequest, SchedType
  <2>5. CASE m.type = "ABORT" /\ HandleAbort(m.req, Back)
    <3>1. Abort({m.req})
      BY <2>5 DEF HandleAbort
    <3>2. r = m.req
      BY <1>1, <3>1, AbortFacts
    <3>3. m = [type |-> "ABORT", req |-> m.req]
      BY <2>2, <2>5 DEF Message, WAKEUP
    <3>. QED BY <2>1, <3>2, <3>3 DEF Asked
  <2>6. CASE m.type = "UTILITY"
    BY <2>1, <2>6 DEF Asked
  <2>. QED BY <2>1, <2>3, <2>4, <2>5, <2>6 DEF Handle
<1>5. CASE \E F \in SUBSET Requests : StepOutput(F)
  BY <1>1, <1>5 DEF StepOutput, SchedType, Asked
<1>6. CASE \E t \in Timers : TimerThread(t)
  BY <1>6 DEF TimerThread, TimerFires, PokeClear, PokePut
<1>7. CASE Tick
  BY <1>7 DEF Tick
<1>8. CASE (\E s \in setup.requests : ClientAdd(s) \/ ClientAbort(s)) \/ \E u \in UserOps : UserCall(u)
  BY <1>1, <1>8, SetupFacts DEF ClientAdd, ClientAbort, UserCall, SchedType
<1>9. CASE UNCHANGED vars
  BY <1>9 DEF vars
<1>. QED BY <1>2, <1>3, <1>4, <1>5, <1>6, <1>7, <1>8, <1>9 DEF Next, Step, MainLoop, Gone

\* Until a signal shuts the engine down, a request ends aborted only when its
\* client or an operator asked for it: neither an automatic sleep nor a deep-sleep
\* exit drops one.
THEOREM AlwaysOnlyClientsAbort == Spec => OnlyClientsAbort
<1>1. AInv /\ [Next]_vars =>
        [\A r \in Requests :
           (/\ IsRunning \/ (Target = "exit" /\ nUser = 0)
            /\ outcome[r] # "aborted" /\ outcome[r]' = "aborted") =>
             \/ r \in abq
             \/ /\ pc \in {"get", "drain"}
                /\ \/ Head(inq) = [type |-> "ABORT", req |-> r]
                   \/ Head(inq).type = "UTILITY"]_vars
  BY AbortsAsked DEF Asked
<1>. QED BY <1>1, AInvAlways, PTL DEF Spec, OnlyClientsAbort

-----------------------------------------------------------------------------
(* A batch only runs on workers whose memory is mapped.                    *)

\* Setups in which the operator's calls and the failing RPCs cannot leave an engine
\* awake without its memory: no resume_scheduler and no pause in mode "wait" (they
\* schedule behind a sleep), no level-2 sleep of an engine that does not reload, no
\* manual wake-up of one that does; and where RPCs may fail, no operator, no batch
\* queue and a copy of the weights to return to.
Careful ==
  /\ [op |-> "resume"] \notin UserOps
  /\ \/ /\ MaxFailures = 0
        /\ \A u \in UserOps :
             /\ u.op \in {"sleep", "pause"} => u.mode # "wait"
             /\ u.op = "sleep" /\ Target # "reload" => u.level # 2
             /\ u.op = "wake" => Target # "reload"
     \/ UserOps = {} /\ BatchQueueSize = 1 /\ Target # "reload"

\* In such setups the ranks agree with the executor, weights are missing only from
\* an engine asleep that will reload them, and one asleep has nothing to schedule.
ResidentInv ==
  Careful =>
    /\ MaxFailures = 0 \/ pc # "dead" => \A r \in Ranks : mem[r] = execTags
    /\ ~ weights => execTags # {} /\ Target = "reload"
    /\ execTags # {} => Scheduled = {} /\ \A i \in DOMAIN batch : batch[i] = {}
    /\ MaxFailures # 0 => pend = <<>>
    /\ Target # "reload" => \A i \in DOMAIN pend : pend[i].level # 2

\* The calls of a careful setup.
LEMMA CarefulFacts ==
  ASSUME setup \in Setups, SameSetup
  PROVE  /\ Careful' = Careful
         /\ Careful => \A u \in UserOps : /\ MaxFailures = 0 /\ u.op # "resume"
                                          /\ u.op \in {"sleep", "pause"} => u.mode # "wait"
                                          /\ u.op = "sleep" /\ Target # "reload" => u.level # 2
                                          /\ u.op = "wake" => Target # "reload"
         /\ Careful /\ MaxFailures # 0 => UserOps = {} /\ BatchQueueSize = 1 /\ Target # "reload"
<1>1. Careful' = Careful
  BY SetupFacts DEF Careful
<1>2. ASSUME Careful, NEW u \in UserOps
      PROVE  /\ MaxFailures = 0 /\ u.op # "resume"
             /\ u.op \in {"sleep", "pause"} => u.mode # "wait"
             /\ u.op = "sleep" /\ Target # "reload" => u.level # 2
             /\ u.op = "wake" => Target # "reload"
  <2>1. u \in UserOp
    BY SetupFacts
  <2>2. u.op = "resume" => u = [op |-> "resume"]
    BY <2>1 DEF UserOp
  <2>. QED BY <1>2, <2>2 DEF Careful
<1>3. Careful /\ MaxFailures # 0 => UserOps = {} /\ BatchQueueSize = 1 /\ Target # "reload"
  BY DEF Careful
<1>. QED BY <1>1, <1>2, <1>3

\* A step that moves neither workers nor pause, adds no request and schedules none.
LEMMA ResidentKept ==
  ASSUME AInv, ResidentInv, SameSetup, UNCHANGED <<execTags, mem, weights, pend, pause>>,
         waiting' \subseteq waiting, running' \subseteq running,
         batch' = batch \/ (batch # <<>> /\ batch' = Tail(batch)), pc = "dead" => pc' = "dead"
  PROVE  ResidentInv'
<1>. SUFFICES ASSUME Careful PROVE ResidentInv'
  BY CarefulFacts DEF AInv, ResidentInv
<1>1. Scheduled' \subseteq Scheduled
  BY DEF Scheduled
<1>2. batch \in Seq(SUBSET Requests)
  BY DEF AInv, TypeOK
<1>3. \A i \in DOMAIN batch' : \E j \in DOMAIN batch : batch'[i] = batch[j]
  <2>1. CASE batch' = batch
    BY <2>1
  <2>2. CASE batch # <<>> /\ batch' = Tail(batch)
    <3>1. \A i \in DOMAIN batch' : i + 1 \in DOMAIN batch /\ batch'[i] = batch[i + 1]
      BY <1>2, <2>2
    <3>. QED BY <3>1
  <2>. QED BY <2>1, <2>2
<1>. QED BY <1>1, <1>3, SetupFacts DEF AInv, ResidentInv

\* The executor goes to sleep with nothing to schedule and no batch in flight.
LEMMA ResidentSleep ==
  ASSUME AInv, ResidentInv, Careful, SameSetup, NEW level \in 1..2, ExecutorSleep(level), pc # "dead",
         level = 2 => Target = "reload", Scheduled' = {}, batch' = <<>>,
         MaxFailures # 0 => pend' = <<>>,
         Target # "reload" => \A i \in DOMAIN pend' : pend'[i].level # 2
  PROVE  ResidentInv'
<1>1. \A r \in Ranks : mem[r] = execTags
  BY DEF ResidentInv
<1>2. \A r \in Ranks : mem'[r] = execTags'
  BY <1>1 DEF ExecutorSleep, worker
<1>3. ~ weights' => execTags' # {} /\ Target = "reload"
  <2>1. CASE execTags # {}
    BY <2>1 DEF ExecutorSleep, worker, ResidentInv
  <2>2. CASE execTags = {}
    <3>1. weights \in BOOLEAN /\ weights
      BY <2>2 DEF ResidentInv, AInv, TypeOK
    <3>2. weights' = (weights /\ level = 1) /\ execTags' = Tags
      BY <2>2 DEF ExecutorSleep
    <3>3. level # 1 => Target = "reload"
      OBVIOUS
    <3>4. ~ weights' => level # 1
      BY <3>1, <3>2, Zenon
    <3>. QED BY <3>2, <3>3, <3>4 DEF Tags
  <2>. QED BY <2>1, <2>2
<1>4. \A i \in DOMAIN batch' : batch'[i] = {}
  OBVIOUS
<1>. QED BY <1>2, <1>3, <1>4, SetupFacts DEF AInv, ResidentInv

\* EngineCore.wake_up keeps ranks and executor together; the scheduler resumes only
\* when all memory is back.
LEMMA ResidentWake ==
  ASSUME AInv, ResidentInv, Careful, NEW tags, WakeUp(tags), pc # "dead"
  PROVE  /\ \A r \in Ranks : mem'[r] = execTags'
         /\ execTags' # {} => execTags # {} /\ pause' = pause
         /\ tags = {} => execTags' = {}
<1>1. (\A r \in Ranks : mem[r] = execTags) /\ execTags \subseteq Tags
  BY DEF ResidentInv, AInv, TypeOK
<1>2. \E woken : \/ UNCHANGED <<execTags, mem>>
                 \/ execTags' = execTags \ woken /\ mem' = [r \in Ranks |-> mem[r] \ woken]
  BY DEF WakeUp, ExecutorWakeUp
<1>3. execTags' # {} => execTags # {} /\ pause' = pause
  BY <1>2 DEF WakeUp
<1>4. tags = {} => execTags' = {}
  <2>1. ASSUME tags = {} PROVE ExecutorWakeUp({})
    BY <2>1 DEF WakeUp
  <2>. QED BY <1>1, <2>1 DEF ExecutorWakeUp
<1>. QED BY <1>1, <1>2, <1>3, <1>4

\* add_request: what was asleep is awake, or the loop is left.
LEMMA ResidentAdd ==
  ASSUME AInv, ResidentInv, Careful, SameSetup, NEW r, NEW back, AddRequest(r, back), pc # "dead",
         pc \in {"get", "drain", "cancelled"}
  PROVE  ResidentInv'
<1>1. /\ UNCHANGED <<running, batch, pend>>
      /\ waiting' \in {waiting, waiting \cup {r}} /\ (pc' # "dead" => pc' = back)
  BY DEF AddRequest, Die, Continue
<1>2. CASE ~ IsSleeping
  <2>1. UNCHANGED <<execTags, mem, weights, pause>> /\ execTags = {} /\ state' = "ACTIVE"
    BY <1>2 DEF AddRequest, worker, IsSleeping
  <2>. QED BY <1>1, <2>1, CarefulFacts, SetupFacts DEF AInv, ResidentInv
<1>3. CASE IsSleeping /\ WakeUp({}) /\ weights' = (weights \/ Target = "reload")
  <2>1. execTags' = {} /\ \A x \in Ranks : mem'[x] = execTags'
    BY <1>3, ResidentWake
  <2>2. weights'
    BY <1>3 DEF ResidentInv
  <2>. QED BY <1>1, <2>1, <2>2, CarefulFacts, SetupFacts DEF AInv, ResidentInv
<1>4. CASE IsSleeping /\ nFail < MaxFailures /\ state' = "SLEEPING" /\ UNCHANGED <<worker, pause>>
  <2>1. MaxFailures # 0
    BY <1>4, SetupFacts DEF AInv, TypeOK
  <2>2. pc' = "dead" /\ waiting' = waiting /\ UNCHANGED <<execTags, mem, weights, pause>>
    BY <1>4 DEF AddRequest, Die, worker
  <2>3. Scheduled' = Scheduled
    BY <1>1, <2>2 DEF Scheduled
  <2>. QED BY <1>1, <2>1, <2>2, <2>3, CarefulFacts, SetupFacts DEF AInv, ResidentInv
<1>. QED BY <1>2, <1>3, <1>4 DEF AddRequest, Wake

\* The operator's calls in a careful setup.
LEMMA ResidentUtility ==
  ASSUME AInv, ResidentInv, Careful, SameSetup, NEW u \in UserOps, HandleUtility(u, Back), pc \in {"get", "drain"}
  PROVE  ResidentInv'
<1>1. SchedType /\ WorkerType /\ setup \in Setups /\ batch' = batch
  BY TypeGroups DEF AInv, HandleUtility
<1>2. /\ MaxFailures = 0 /\ u.op # "resume" /\ (u.op \in {"sleep", "pause"} => u.mode # "wait")
      /\ (u.op = "sleep" /\ Target # "reload" => u.level # 2) /\ (u.op = "wake" => Target # "reload")
  BY <1>1, CarefulFacts
<1>3. u \in UserOp
  BY <1>1, SetupFacts
<1>4. CASE UNCHANGED <<sched, outcome, worker, pend, nFail>>
  BY <1>1, <1>4, ResidentKept DEF sched, worker
<1>5. ASSUME NEW clear \in BOOLEAN, PauseScheduler(u.mode, clear), u.op \in {"sleep", "pause"} PROVE Scheduled' = {}
  <2>1. u.mode \in {"abort", "keep"}
    BY <1>2, <1>3, <1>5 DEF UserOp
  <2>2. CASE u.mode = "abort"
    <3>1. Abort(Requests)
      BY <1>5, <2>2 DEF PauseScheduler
    <3>2. waiting' = {} /\ running' = {}
      BY <1>1, <3>1, AbortFacts
    <3>. QED BY <3>2 DEF Scheduled
  <2>3. CASE u.mode = "keep"
    BY <1>5, <2>3 DEF PauseScheduler, PauseStateOf, Scheduled
  <2>. QED BY <2>1, <2>2, <2>3
<1>9. ASSUME NEW p \in Pending, pend' = Append(pend, p), UNCHANGED worker, Scheduled' = {},
             Target # "reload" => p.level # 2
      PROVE  ResidentInv'
  <2>1. UNCHANGED <<execTags, mem, weights>> /\ pend \in Seq(Pending)
    BY <1>1, <1>9 DEF worker, WorkerType
  <2>2. Target # "reload" => \A i \in DOMAIN pend' : pend'[i].level # 2
    BY <1>9, <2>1 DEF ResidentInv
  <2>. QED BY <1>1, <1>2, <1>9, <2>1, <2>2, CarefulFacts, SetupFacts DEF ResidentInv
<1>6. CASE u.op = "pause" /\ UtilityPause(u.mode)
  <2>1. Scheduled' = {}
    BY <1>5, <1>6 DEF UtilityPause
  <2>2. CASE UNCHANGED <<worker, pend>>
    BY <1>1, <1>2, <2>1, <2>2, CarefulFacts, SetupFacts DEF ResidentInv, worker
  <2>3. CASE Defer(0, TRUE)
    <3>1. [level |-> 0, clear |-> TRUE] \in Pending /\ [level |-> 0, clear |-> TRUE].level # 2
      BY DEF Pending
    <3>. QED BY <1>9, <2>1, <2>3, <3>1 DEF Defer
  <2>. QED BY <1>6, <2>2, <2>3 DEF UtilityPause
<1>7. CASE u.op = "sleep" /\ UtilitySleep(u.level, u.mode)
  <2>1. u.level \in 0..2 /\ (u.level > 0) \in BOOLEAN /\ PauseScheduler(u.mode, u.level > 0)
    BY <1>3, <1>7 DEF UtilitySleep, UserOp
  <2>2. Scheduled' = {}
    BY <1>5, <1>7, <2>1
  <2>3. CASE u.level = 0 /\ UNCHANGED <<worker, pend, nFail>>
    BY <1>1, <1>2, <2>2, <2>3, CarefulFacts, SetupFacts DEF ResidentInv, worker
  <2>4. CASE u.level > 0 /\ PauseComplete(u.mode) /\ ExecutorSleep(u.level) /\ UNCHANGED pend
    <3>1. u.level \in 1..2 /\ (u.level = 2 => Target = "reload") /\ batch' = <<>>
      BY <1>1, <1>2, <1>7, <2>1, <2>4 DEF PauseComplete
    <3>2. Target # "reload" => \A i \in DOMAIN pend' : pend'[i].level # 2
      BY <2>4 DEF ResidentInv
    <3>. QED BY <1>2, <2>2, <2>4, <3>1, <3>2, ResidentSleep
  <2>5. CASE ExecutorSleepFails(u.level)
    BY <1>1, <1>2, <2>5 DEF ExecutorSleepFails, WorkerType
  <2>6. CASE Defer(u.level, u.level > 0)
    <3>. DEFINE p == [level |-> u.level, clear |-> u.level > 0]
    <3>1. p \in Pending /\ (Target # "reload" => p.level # 2)
      BY <1>2, <1>7, <2>1 DEF Pending
    <3>2. pend' = Append(pend, p) /\ UNCHANGED worker
      BY <2>6 DEF Defer
    <3>. HIDE DEF p
    <3>. QED BY <1>9, <2>2, <3>1, <3>2
  <2>. QED BY <1>7, <2>3, <2>4, <2>5, <2>6 DEF UtilitySleep
<1>8. CASE u.op = "wake" /\ WakeUp(u.tags)
           /\ UNCHANGED <<weights, waiting, running, finished, outcome, pend, nFail>>
  <2>1. /\ \A r \in Ranks : mem'[r] = execTags'
        /\ execTags' # {} => execTags # {} /\ pause' = pause
    BY <1>8, ResidentWake
  <2>2. weights /\ Target # "reload"
    BY <1>2, <1>8 DEF ResidentInv
  <2>3. execTags' # {} => Scheduled' = Scheduled
    BY <1>8, <2>1 DEF Scheduled
  <2>. QED BY <1>1, <1>2, <1>8, <2>1, <2>2, <2>3, CarefulFacts, SetupFacts DEF ResidentInv
<1>10. CASE FinishPauseFails(u.mode)
  BY <1>1, <1>2, <1>10 DEF FinishPauseFails, WorkerType
<1>. QED BY <1>2, <1>4, <1>6, <1>7, <1>8, <1>10 DEF HandleUtility

\* on_wakeup_poke in a careful setup: a sleep finds nothing to schedule, and a
\* failed one is rolled back or ends the loop.
LEMMA ResidentPoke ==
  ASSUME AInv, ResidentInv, Careful, SameSetup, OnWakeupPoke(Back), pc \in {"get", "drain"}
  PROVE  ResidentInv'
<1>1. SchedType /\ WorkerType /\ setup \in Setups /\ batch' = batch
  BY TypeGroups DEF AInv, OnWakeupPoke
<1>2. CASE UNCHANGED <<sched, worker, pend>>
  BY <1>1, <1>2, ResidentKept DEF sched, worker
<1>3. CASE ~ PokeIgnored /\ Target # "exit" /\ SleepNow(SleepLevel)
  <2>1. /\ SleepLevel \in 1..2 /\ (SleepLevel = 2 => Target = "reload")
    BY <1>1, <1>3, SetupFacts DEF SleepLevel, OFFLOAD_TARGETS
  <2>2. Abort(Requests) /\ pause' = "PAUSED_NEW"
    BY <1>3 DEF SleepNow, PauseScheduler, PauseStateOf
  <2>3. Scheduled' = {}
    <3>1. waiting' = {} /\ running' = {}
      BY <1>1, <2>2, AbortFacts
    <3>. QED BY <3>1 DEF Scheduled
  <2>4. CASE PauseComplete("abort") /\ ExecutorSleep(SleepLevel) /\ UNCHANGED pend
    <3>1. batch' = <<>>
      BY <1>1, <2>4 DEF PauseComplete
    <3>2. /\ MaxFailures # 0 => pend' = <<>>
          /\ Target # "reload" => \A i \in DOMAIN pend' : pend'[i].level # 2
      BY <2>4 DEF ResidentInv
    <3>. QED BY <2>1, <2>3, <2>4, <3>1, <3>2, ResidentSleep
  <2>5. CASE ~ PauseComplete("abort") /\ Defer(SleepLevel, TRUE)
    <3>. DEFINE p == [level |-> SleepLevel, clear |-> TRUE]
    <3>1. pend' = Append(pend, p) /\ UNCHANGED <<execTags, mem, weights>> /\ pend \in Seq(Pending)
          /\ p \in Pending /\ p.level = SleepLevel
      BY <1>1, <2>1, <2>5 DEF Defer, worker, WorkerType, Pending
    <3>. HIDE DEF p
    <3>2. Target # "reload" => SleepLevel = 1
      BY <2>1
    <3>3. Target # "reload" => \A i \in DOMAIN pend' : pend'[i].level # 2
      BY <2>1, <3>1, <3>2 DEF ResidentInv
    <3>4. MaxFailures = 0
      <4>1. ASSUME MaxFailures # 0 PROVE FALSE
        <5>1. BatchQueueSize = 1
          BY <1>1, <4>1, CarefulFacts
        <5>2. batch = <<>> /\ waiting = {} /\ running = {} /\ ~ finished
          BY <1>3, <5>1, PokeTaken DEF Loaded
        <5>. QED BY <2>5, <5>2 DEF PauseComplete, PauseRequestsDone, HasRequestsIn, PauseStateOf
      <4>. QED BY <4>1
    <3>. QED BY <1>1, <2>3, <3>1, <3>3, <3>4, CarefulFacts, SetupFacts DEF ResidentInv
  <2>. QED BY <1>3, <2>4, <2>5 DEF SleepNow
<1>4. CASE ~ PokeIgnored /\ Target # "exit" /\ SleepRolledBack /\ (IF state' = "SLEEPING" THEN Die ELSE Continue(Back))
  <2>1. /\ execTags = {} /\ nFail < MaxFailures
        /\ UNCHANGED <<execTags, waiting, running, finished, pend>>
    BY <1>4 DEF SleepRolledBack, sched
  <2>2. MaxFailures # 0 /\ Target # "reload"
    BY <1>1, <2>1, CarefulFacts DEF WorkerType
  <2>3. SleepLevel # 2
    BY <1>1, <1>4, <2>2, SetupFacts DEF SleepLevel, OFFLOAD_TARGETS
  <2>4. weights /\ weights \in BOOLEAN
    BY <1>1, <2>1 DEF ResidentInv, WorkerType
  <2>5. weights'
    BY <1>4, <2>3, <2>4 DEF SleepRolledBack
  <2>6. pc' = "dead" \/ \A r \in Ranks : mem'[r] = {}
    BY <1>4 DEF SleepRolledBack, Die
  <2>. QED BY <1>1, <2>1, <2>2, <2>5, <2>6, CarefulFacts, SetupFacts DEF ResidentInv
<1>. QED BY <1>2, <1>3, <1>4 DEF OnWakeupPoke, AutoSleepStep, Rearm, DeepSleepExit, DiskPrepareFails

\* Every step preserves ResidentInv.
LEMMA ResidentStep == AInv /\ ResidentInv /\ [Next]_vars => ResidentInv'
<1>. SUFFICES ASSUME AInv, ResidentInv, [Next]_vars PROVE ResidentInv'
  OBVIOUS
<1>1. SchedType /\ WorkerType /\ LoopType /\ setup \in Setups
  BY TypeGroups DEF AInv
<1>2. SameSetup
  BY DEF Next, SameSetup, vars
<1>3. CASE ~ Careful
  BY <1>1, <1>2, <1>3, CarefulFacts DEF ResidentInv
<1>. SUFFICES ASSUME Careful PROVE ResidentInv'
  BY <1>3
<1>4. CASE UNCHANGED <<execTags, mem, weights, pend, pause, batch, waiting, running>> /\ (pc = "dead" => pc' = "dead")
  BY <1>2, <1>4, ResidentKept
<1>5. CASE HandleShutdown
  <2>1. waiting' \subseteq waiting /\ running' \subseteq running
    BY <1>1, <1>5, AbortFacts DEF HandleShutdown, sched
  <2>2. UNCHANGED <<execTags, mem, weights, pend, pause, batch>> /\ pc = "top"
    BY <1>5 DEF HandleShutdown, sched, worker
  <2>. QED BY <1>2, <2>1, <2>2, ResidentKept
<1>6. CASE SkipIdle \/ BeginGet \/ DrainDone \/ CancelTimer \/ ArmDaemon \/ ArmStart \/ StepNothing
  BY <1>4, <1>6 DEF SkipIdle, BeginGet, DrainDone, CancelTimer, ArmDaemon, ArmStart, StepNothing, sched, worker
<1>7. CASE NotifyIdle
  BY <1>4, <1>7 DEF NotifyIdle, sched, worker
<1>8. CASE RunDeferredSleep
  <2>. DEFINE p == Head(pend)
  <2>1. /\ pc = "callbacks" /\ pend # <<>> /\ pend' = Tail(pend) /\ pend \in Seq(Pending) /\ p \in Pending
        /\ UNCHANGED <<finished, pause, batch>> /\ RunDeferred(p) /\ p = pend[1] /\ 1 \in DOMAIN pend
    BY <1>1, <1>8 DEF RunDeferredSleep, WorkerType
  <2>. HIDE DEF p
  <2>2. MaxFailures = 0 /\ p.level \in 0..2 /\ p.clear \in BOOLEAN /\ (p.level = 2 => Target = "reload")
    BY <2>1 DEF ResidentInv, Pending
  <2>3. FinishPause(p.clear) /\ ((p.level = 0 /\ UNCHANGED worker) \/ (p.level > 0 /\ ExecutorSleep(p.level)))
        /\ UNCHANGED loop
    BY <1>1, <2>1, <2>2 DEF RunDeferred, ExecutorSleepFails, WorkerType
  <2>4. \A i \in DOMAIN pend' : i + 1 \in DOMAIN pend /\ pend'[i] = pend[i + 1]
    BY <2>1
  <2>5. Scheduled' = {} /\ batch' = <<>>
    <3>1. ~ HasWork
      BY <2>1 DEF AInv, LoopInv, Settling
    <3>2. running' \subseteq running /\ waiting' \cup running' = waiting \cup running
      BY <1>1, <2>2, <2>3, FinishFacts DEF SchedType
    <3>. QED BY <1>1, <2>1, <3>1, <3>2 DEF HasWork, HasRequests, HasRequestsIn, Scheduled, SchedType
  <2>6. Target # "reload" => \A i \in DOMAIN pend' : pend'[i].level # 2
    BY <2>4 DEF ResidentInv
  <2>7. CASE p.level = 0 /\ UNCHANGED worker
    BY <1>1, <1>2, <2>1, <2>2, <2>5, <2>6, <2>7, CarefulFacts, SetupFacts DEF ResidentInv, worker
  <2>8. CASE p.level > 0 /\ ExecutorSleep(p.level)
    <3>1. p.level \in 1..2
      BY <2>2, <2>8
    <3>. QED BY <1>2, <2>1, <2>2, <2>5, <2>6, <2>8, <3>1, ResidentSleep
  <2>. QED BY <2>3, <2>7, <2>8
<1>9. CASE Get \/ Drain
  <2>1. pc \in {"get", "drain"} /\ Handle(Back)
    BY <1>9 DEF Get, Drain, Back
  <2>. DEFINE m == Head(inq)
  <2>2. m \in Message
    BY <1>1, <2>1 DEF Handle, LoopType
  <2>3. CASE m.type = "WAKEUP" /\ OnWakeupPoke(Back)
    BY <1>2, <2>1, <2>3, ResidentPoke
  <2>4. CASE m.type = "ADD" /\ HandleAdd(m.req, Back)
    <3>1. CASE AddRequest(m.req, Back)
      BY <1>2, <2>1, <3>1, ResidentAdd
    <3>2. CASE UNCHANGED <<sched, batch, worker, pend>>
      BY <1>4, <2>1, <3>2 DEF sched, worker
    <3>. QED BY <2>4, <3>1, <3>2 DEF HandleAdd, AcceptAdd
  <2>5. CASE m.type = "ABORT" /\ HandleAbort(m.req, Back)
    <3>1. waiting' \subseteq waiting /\ running' \subseteq running
      BY <1>1, <2>5, AbortFacts DEF HandleAbort
    <3>2. UNCHANGED <<execTags, mem, weights, pend, pause, batch>>
      BY <2>5 DEF HandleAbort, worker
    <3>. QED BY <1>2, <2>1, <3>1, <3>2, ResidentKept
  <2>6. CASE m.type = "UTILITY" /\ HandleUtility(m.call, Back)
    BY <1>2, <2>1, <2>2, <2>6, MessageFacts, ResidentUtility
  <2>. QED BY <2>1, <2>3, <2>4, <2>5, <2>6 DEF Handle
<1>10. CASE AfterCancel
  <2>1. CASE AddRequest(cur.req, ret)
    BY <1>2, <1>10, <2>1, ResidentAdd DEF AfterCancel
  <2>2. CASE UNCHANGED <<sched, batch, worker, pend>>
    BY <1>4, <1>10, <2>2 DEF AfterCancel, sched, worker
  <2>. QED BY <1>10, <2>1, <2>2 DEF AfterCancel
<1>11. CASE StepSchedule
  <2>1. /\ waiting' = waiting \ Scheduled /\ running' = running \cup Scheduled /\ batch' = Append(batch, Scheduled)
        /\ UNCHANGED <<execTags, mem, weights, pend, pause>> /\ pc = "step" /\ batch \in Seq(SUBSET Requests)
    BY <1>1, <1>11 DEF StepSchedule, worker, SchedType
  <2>2. Scheduled \in SUBSET Requests
    BY <1>1 DEF Scheduled, SchedType
  <2>3. execTags # {} => Scheduled' = {} /\ \A i \in DOMAIN batch' : batch'[i] = {}
    <3>1. ASSUME execTags # {} PROVE Scheduled' = {} /\ \A i \in DOMAIN batch' : batch'[i] = {}
      <4>1. Scheduled = {} /\ \A i \in DOMAIN batch : batch[i] = {}
        BY <3>1 DEF ResidentInv
      <4>2. waiting' = waiting /\ running' = running
        BY <2>1, <4>1
      <4>. QED BY <2>1, <2>2, <4>1, <4>2 DEF Scheduled
    <3>. QED BY <3>1
  <2>. QED BY <1>1, <1>2, <2>1, <2>3, CarefulFacts, SetupFacts DEF ResidentInv
<1>12. ASSUME NEW F \in SUBSET Requests, StepOutput(F) PROVE ResidentInv'
  <2>1. /\ waiting' \subseteq waiting /\ running' \subseteq running /\ batch' = Tail(batch) /\ pc = "wait"
        /\ UNCHANGED <<execTags, mem, weights, pend, pause>>
    BY <1>12 DEF StepOutput, worker
  <2>2. batch # <<>>
    BY <2>1 DEF AInv, LoopInv
  <2>. QED BY <1>2, <2>1, <2>2, ResidentKept
<1>13. CASE (\E t \in Timers : TimerThread(t)) \/ Tick
  BY <1>4, <1>13 DEF TimerThread, TimerFires, PokeClear, PokePut, Tick, others, loop, sched, worker
<1>14. CASE (\E r \in setup.requests : ClientAdd(r) \/ ClientAbort(r)) \/ \E u \in UserOps : UserCall(u)
  BY <1>4, <1>14 DEF ClientAdd, ClientAbort, UserCall, others, loop, sched, worker
<1>15. CASE UNCHANGED vars
  BY <1>4, <1>15 DEF vars
<1>. QED BY <1>5, <1>6, <1>7, <1>8, <1>9, <1>10, <1>11, <1>12, <1>13, <1>14, <1>15 DEF Next, Step, MainLoop, Gone

\* In every careful setup a batch with requests in it only ever runs on workers whose
\* memory is all mapped and whose weights are loaded.
THEOREM AlwaysBatchResident == Spec => [](Careful => BatchResident)
<1>1. Init => ResidentInv
  BY DEF Init, ResidentInv
<1>2. AInv /\ ResidentInv /\ [Next]_vars => ResidentInv'
  BY ResidentStep
<1>3. AInv /\ ResidentInv => (Careful => BatchResident)
  <2>. SUFFICES ASSUME AInv, ResidentInv, Careful, NEW i \in 1..Len(batch), batch[i] # {}
                PROVE  weights /\ \A r \in Ranks : mem[r] = {}
    BY DEF BatchResident
  <2>1. batch \in Seq(SUBSET Requests) /\ i \in DOMAIN batch /\ batch # <<>>
    BY DEF AInv, TypeOK
  <2>2. execTags = {} /\ weights
    BY <2>1 DEF ResidentInv
  <2>3. MaxFailures = 0 \/ pc # "dead"
    BY <2>1 DEF AInv, WindowInv, Careful
  <2>. QED BY <2>2, <2>3 DEF ResidentInv
<1>. QED BY <1>1, <1>2, <1>3, AInvAlways, PTL DEF Spec
=============================================================================
