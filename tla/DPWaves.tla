----------------------------- MODULE DPWaves -------------------------------
(***************************************************************************)
(* Data-parallel serving of a mixture-of-experts model: DPEngineCoreProc   *)
(* (vllm/v1/engine/core.py), one process per rank, and the client that     *)
(* spreads requests over them, DPLBAsyncMPClient (core_client.py).         *)
(*                                                                         *)
(* A forward pass is a collective of all ranks, so they run in waves: the  *)
(* first request starts one on every rank, ranks without requests execute  *)
(* dummy batches, and every few steps an all-reduce decides whether the    *)
(* wave is over.  Pausing takes two phases over the same all-reduce.       *)
(*                                                                         *)
(* The DP coordinator process, the scheduler and ParallelConfig's          *)
(* all-reduces are not in the repository and are modelled from their use   *)
(* here.  A message of the client and one of the coordinator may overtake  *)
(* each other; each channel alone is first in, first out.                  *)
(***************************************************************************)
EXTENDS Integers, Sequences, FiniteSets

CONSTANTS
  Requests,          \* each is sent at most once
  Size,              \* data_parallel_size
  SyncInterval,      \* parallel_config.dp_sync_interval
  PrefillInterval,   \* scheduler_config.prefill_schedule_interval
  Calls,             \* pause, sleep, resume and wake calls an operator issues
  MaxInputs,         \* bound: requests, disconnects and operator calls
  Discipline         \* what callers respect: see OperatorCall, ClientAbort

Engines == 0..(Size - 1)
Call == [op : {"pause", "sleep"}, mode : {"abort", "wait", "keep"}]
        \cup [op : {"resume", "wake"}]

ASSUME DPAssumption ==
  /\ Size \in Nat \ {0, 1}
  /\ SyncInterval \in Nat \ {0} /\ PrefillInterval \in Nat \ {0}
  /\ Calls \subseteq Call
  /\ MaxInputs \in Nat
  /\ Discipline \subseteq {"paused", "settled", "admitted"}

None == Size

VARIABLES
  eng,      \* per rank, the state of its DPEngineCoreProc
  cin, kin, \* per rank, messages of the client and of the coordinator
  kout,     \* per rank, start_wave and wave_complete on the way to the coordinator
  first,    \* FIRST_REQ notifications on the way to the coordinator
  coord,    \* the coordinator: wave, running, request counts
  client,   \* the client: current_wave, engines_running, lb_engines, eng_start_index
  req,      \* per request, what its caller has seen
  flight,   \* reqs_in_flight
  call,     \* the operator's call under way and the ranks that did not answer
  paused,   \* the last completed call was a pause or sleep
  nInputs   \* requests, disconnects and calls so far

vars == <<eng, cin, kin, kout, first, coord, client, req, flight, call, paused, nInputs>>
net == <<cin, kin, kout, first>>
frontend == <<client, req, flight, call, paused, nInputs>>

NoCall == [op |-> "none"]

Engine ==
  [pc       : {"idle", "drain", "forward", "sync", "resume"},
   running  : BOOLEAN,            \* engines_running
   was      : BOOLEAN,            \* was_running
   wave     : Nat,                \* current_wave
   step     : 0..(SyncInterval * PrefillInterval + 1), \* step_counter
   pending  : BOOLEAN,            \* pending_pause
   ignore   : BOOLEAN,            \* ignore_start_dp_wave
   pause    : {"UNPAUSED", "PAUSED_NEW", "PAUSED_ALL"},
   waiting  : SUBSET Requests,
   active   : SUBSET Requests,    \* the scheduler's running requests
   idleCall : Call \cup {NoCall}, \* the idle-state callback registered
   asleep   : BOOLEAN]            \* model_executor.is_sleeping

\* Type invariant: every rank, its queues and the coordinator.
TypeOK ==
  /\ eng \in [Engines -> Engine]
  /\ coord.running \in BOOLEAN /\ client.running \in BOOLEAN
  /\ req \in [Requests -> {"new", "sent", "done", "aborted"}]
  /\ flight \in [Requests -> Engines \cup {None}]
  /\ call.left \subseteq Engines
  /\ nInputs \in 0..MaxInputs

-----------------------------------------------------------------------------
(* The scheduler of one rank.                                              *)

\* scheduler.has_unfinished_requests()
Unfinished(s) ==
  \/ s.pause # "PAUSED_ALL" /\ s.active # {}
  \/ s.pause = "UNPAUSED" /\ s.waiting # {}

HasWork(s) == s.running \/ Unfinished(s)

\* _should_throttle_prefills
ThrottlePrefills(s) == PrefillInterval > 1 /\ s.step % PrefillInterval # 0

Admitted(s) ==
  IF s.pause = "UNPAUSED" /\ ~ ThrottlePrefills(s) THEN s.waiting ELSE {}

Scheduled(s) == IF s.pause = "PAUSED_ALL" THEN {} ELSE s.active \cup Admitted(s)

Drop(s, R) == [s EXCEPT !.waiting = @ \ R, !.active = @ \ R]

-----------------------------------------------------------------------------
(* DPEngineCoreProc: what rank e does with a message.                      *)

\* The result of a handler: the rank's new state, and what it sends.
Result(s, toCoord, done, answers) ==
  [eng |-> s, toCoord |-> toCoord, done |-> done, answers |-> answers]
Quietly(s) == Result(s, <<>>, {}, FALSE)

StartWave(w) == [type |-> "start", wave |-> w]
WaveComplete(w) == [type |-> "complete", wave |-> w]

\* Mutant: a request of an earlier wave starts no new one.
AddRequestStale(s, r, wave) ==
  Quietly([s EXCEPT !.waiting = @ \cup {r}, !.wave = IF wave > @ THEN wave ELSE @])

\* add_request: a request sent before the client knew that the wave was over
\* starts the next one.
AddRequest(s, r, wave) ==
  LET t == [s EXCEPT !.waiting = @ \cup {r}]
  IN  IF wave > s.wave THEN Quietly([t EXCEPT !.wave = wave])
      ELSE IF wave < s.wave /\ ~ s.running /\ s.pause = "UNPAUSED"
      THEN Result([t EXCEPT !.running = TRUE], <<StartWave(s.wave)>>, {}, FALSE)
      ELSE Quietly(t)

\* pause_scheduler and sleep: the scheduler is paused; _pause_complete starts
\* the first phase, and the callback that answers runs when the rank is idle.
PauseScheduler(s, c) ==
  LET gone == IF c.mode = "abort" THEN s.waiting \cup s.active ELSE {}
  IN  Result([Drop(s, gone) EXCEPT
                !.pause = IF c.mode = "keep" THEN "PAUSED_ALL" ELSE "PAUSED_NEW",
                !.pending = TRUE, !.running = TRUE, !.idleCall = c],
             <<>>, gone, FALSE)

\* resume_scheduler: an error while a pause is in flight, a no-op while the
\* engines run, and otherwise a barrier of all ranks.
ResumeScheduler(s) ==
  IF s.running THEN Result(s, <<>>, {}, TRUE)
  ELSE Quietly([s EXCEPT !.pause = "UNPAUSED", !.ignore = FALSE, !.pc = "resume"])

\* wake_up
WakeUp(s) == ResumeScheduler([s EXCEPT !.asleep = FALSE])

Utility(s, c) ==
  CASE c.op \in {"pause", "sleep"} -> PauseScheduler(s, c)
    [] c.op = "resume" -> ResumeScheduler(s)
    [] c.op = "wake" -> WakeUp(s)

\* Mutant: a paused rank does not discard START_DP_WAVE.
StartIgnoringPause(s, e, wave, exclude) ==
  Quietly(IF exclude # e /\ wave >= s.wave
          THEN [s EXCEPT !.wave = wave, !.running = TRUE] ELSE s)

\* _handle_client_request: START_DP_WAVE
Start(s, e, wave, exclude) ==
  Quietly(IF ~ s.ignore /\ exclude # e /\ wave >= s.wave
          THEN [s EXCEPT !.wave = wave, !.running = TRUE] ELSE s)

Handle(e, s, m) ==
      CASE m.type = "ADD" -> AddRequest(s, m.req, m.wave)
        [] m.type = "ABORT" ->
             LET gone == {m.req} \cap (s.waiting \cup s.active)
             IN  Result(Drop(s, gone), <<>>, gone, FALSE)
        [] m.type = "UTILITY" -> Utility(s, m.call)
        [] m.type = "START" -> Start(s, e, m.wave, m.exclude)

\* The client sees these requests end.
End(R) ==
  /\ req' = [r \in Requests |-> IF r \in R /\ req[r] = "sent" THEN "done" ELSE req[r]]
  /\ flight' = [r \in Requests |-> IF r \in R THEN None ELSE flight[r]]

Answer(e, yes) == call' = IF yes THEN [call EXCEPT !.left = @ \ {e}] ELSE call

Effect(e, x) ==
  /\ eng' = [eng EXCEPT ![e] = x.eng]
  /\ kout' = [kout EXCEPT ![e] = @ \o x.toCoord]
  /\ End(x.done)
  /\ Answer(e, x.answers)

-----------------------------------------------------------------------------
(* run_busy_loop                                                           *)

LoopTop(s) == [s EXCEPT !.pc = "idle", !.was = s.running]

\* Once there is work, the queue is only drained before the step.
Polled(s) == IF HasWork(s) THEN [s EXCEPT !.pc = "drain"] ELSE s

\* _process_input_queue: one message, in the idle loop or in the final drain
ReceiveFrom(e, queue) ==
  /\ queue[e] # <<>>
  /\ eng[e].pc \in {"idle", "drain"}
  /\ HasWork(eng[e]) \/ eng[e].pc = "drain" \/ eng[e].idleCall = NoCall
  /\ Effect(e, Handle(e, Polled(eng[e]), Head(queue[e])))
  /\ UNCHANGED <<first, coord, client, paused, nInputs>>

ReceiveClient(e) ==
  ReceiveFrom(e, cin) /\ cin' = [cin EXCEPT ![e] = Tail(@)] /\ UNCHANGED kin

ReceiveCoordinator(e) ==
  ReceiveFrom(e, kin) /\ kin' = [kin EXCEPT ![e] = Tail(@)] /\ UNCHANGED cin

\* _notify_idle_state_callbacks: the pause is over, and a sleep unmaps memory.
IdleCallback(e) ==
  /\ eng[e].pc = "idle" /\ ~ HasWork(eng[e]) /\ eng[e].idleCall # NoCall
  /\ eng' = [eng EXCEPT ![e].idleCall = NoCall,
                        ![e].asleep = @ \/ eng[e].idleCall.op = "sleep"]
  /\ Answer(e, TRUE)
  /\ UNCHANGED <<net, coord, client, req, flight, paused, nInputs>>

\* What the loop does with the outcome of _has_global_unfinished_reqs.
AfterSync(e, s, running) ==
  IF ~ running
  THEN Result(LoopTop([s EXCEPT !.running = FALSE, !.wave = @ + 1, !.step = 0]),
              IF e = 0 THEN <<WaveComplete(s.wave)>> ELSE <<>>, {}, FALSE)
  ELSE Result(LoopTop([s EXCEPT !.running = TRUE]),
              IF e = 0 /\ ~ s.was /\ ~ s.pending THEN <<StartWave(s.wave)>> ELSE <<>>,
              {}, FALSE)

SyncDue(n) == n = 1 \/ n % SyncInterval = 0

\* step_counter, modulo what the loop tests of it
NextStep(n) ==
  LET period == SyncInterval * PrefillInterval
  IN  IF n = period + 1 THEN 2 ELSE n + 1

\* _has_global_unfinished_reqs, up to its all-reduce
CountStep(e, s) ==
  LET t == [s EXCEPT !.step = NextStep(@)]
  IN  IF SyncDue(t.step) THEN Quietly([t EXCEPT !.pc = "sync"])
      ELSE AfterSync(e, t, TRUE)

\* Mutant: a rank without requests of its own executes no dummy batch.
StepWithoutDummy(e, s) ==
  IF Scheduled(s) # {}
  THEN Quietly([s EXCEPT !.pc = "forward", !.active = @ \cup Scheduled(s),
                         !.waiting = @ \ Scheduled(s)])
  ELSE IF ~ Unfinished(s) /\ ~ s.running THEN Quietly(LoopTop(s))
  ELSE CountStep(e, s)

\* _process_engine_step, or the dummy batch in its place, which a sleeping
\* rank skips
Step(e, s) ==
  IF Scheduled(s) # {}
  THEN Quietly([s EXCEPT !.pc = "forward", !.active = @ \cup Scheduled(s),
                         !.waiting = @ \ Scheduled(s)])
  ELSE IF ~ Unfinished(s) /\ ~ s.running THEN Quietly(LoopTop(s))
  ELSE IF s.asleep THEN CountStep(e, s)
  ELSE Quietly([s EXCEPT !.pc = "forward"])

BeginStep(e) ==
  /\ eng[e].pc = "drain" \/ (eng[e].pc = "idle" /\ HasWork(eng[e]))
  /\ Effect(e, Step(e, eng[e]))
  /\ UNCHANGED <<cin, kin, first, coord, client, paused, nInputs>>

\* The forward pass: expert-parallel communication of all ranks.  The requests
\* in F finish with this step.
Batch(s) == IF s.pause = "PAUSED_ALL" THEN {} ELSE s.active

Forward(F) ==
  /\ \A e \in Engines : eng[e].pc = "forward"
  /\ F \subseteq UNION {Batch(eng[e]) : e \in Engines}
  /\ LET x == [e \in Engines |-> CountStep(e, Drop(eng[e], F))]
     IN  /\ eng' = [e \in Engines |-> x[e].eng]
         /\ kout' = [e \in Engines |-> kout[e] \o x[e].toCoord]
  /\ End(F)
  /\ UNCHANGED <<cin, kin, first, coord, client, call, paused, nInputs>>

\* ParallelConfig.sync_dp_state
HasUnfinished ==
  \/ \E e \in Engines : Unfinished(eng[e])
  \/ (\E e \in Engines : eng[e].pending) /\ (\E e \in Engines : ~ eng[e].pending)

PauseConsensus == \A e \in Engines : eng[e].pending

Sync ==
  /\ \A e \in Engines : eng[e].pc = "sync"
  /\ LET s == [e \in Engines |-> IF PauseConsensus
                THEN [eng[e] EXCEPT !.ignore = TRUE, !.pending = FALSE] ELSE eng[e]]
         x == [e \in Engines |-> AfterSync(e, s[e], HasUnfinished)]
     IN  /\ eng' = [e \in Engines |-> x[e].eng]
         /\ kout' = [e \in Engines |-> kout[e] \o x[e].toCoord]
  /\ UNCHANGED <<cin, kin, first, coord, frontend>>

\* has_unfinished_dp, the barrier of resume_scheduler
ResumeBarrier ==
  /\ \A e \in Engines : eng[e].pc = "resume"
  /\ LET has == \E e \in Engines : Unfinished(eng[e])
     IN  eng' = [e \in Engines |-> [eng[e] EXCEPT !.pc = "idle", !.running = has]]
  /\ call' = [call EXCEPT !.left = {}]
  /\ UNCHANGED <<net, coord, client, req, flight, paused, nInputs>>

-----------------------------------------------------------------------------
(* The DP coordinator.                                                     *)

Broadcast(wave, exclude) ==
  kin' = [e \in Engines |->
            Append(kin[e], [type |-> "START", wave |-> wave, exclude |-> exclude])]

\* A first request: start the other ranks, all of them if the request was sent
\* for a wave that is over.
CoordinatorFirst ==
  /\ first # <<>>
  /\ LET m == Head(first)
     IN  IF coord.running THEN UNCHANGED kin
         ELSE Broadcast(coord.wave, IF m.wave < coord.wave THEN None ELSE m.target)
  /\ first' = Tail(first)
  /\ UNCHANGED <<eng, cin, kout, coord, frontend>>

\* start_wave and wave_complete of rank e
CoordinatorReport(e) ==
  /\ kout[e] # <<>>
  /\ kout' = [kout EXCEPT ![e] = Tail(@)]
  /\ LET m == Head(kout[e])
         starts == \/ m.wave > coord.wave
                   \/ m.wave = coord.wave /\ ~ coord.running
         changed(w, run) == coord' = [coord EXCEPT !.wave = w, !.running = run]
     IN  \/ /\ m.type = "complete" /\ coord.wave <= m.wave
            /\ changed(m.wave + 1, FALSE) /\ UNCHANGED kin
         \/ /\ m.type = "start" /\ starts
            /\ changed(m.wave, TRUE) /\ Broadcast(m.wave, e)
         \/ /\ ~ (m.type = "complete" /\ coord.wave <= m.wave)
            /\ ~ (m.type = "start" /\ starts)
            /\ UNCHANGED <<coord, kin>>
  /\ UNCHANGED <<eng, cin, first, frontend>>

-----------------------------------------------------------------------------
(* DPLBAsyncMPClient, one API server.                                      *)

NewInput == nInputs < MaxInputs /\ nInputs' = nInputs + 1

\* add_request_async, and the stats task's part for a first request
ClientAdd(r) ==
  /\ req[r] = "new"
  /\ NewInput
  /\ ("settled" \in Discipline /\ call.op \in {"resume", "wake"}) => call.left = {}
  /\ \E e \in Engines :
         /\ req' = [req EXCEPT ![r] = "sent"]
         /\ flight' = [flight EXCEPT ![r] = e]
         /\ cin' = [cin EXCEPT ![e] = Append(@, [type |-> "ADD", req |-> r,
                                                 wave |-> client.wave])]
         /\ first' = IF client.running THEN first
                     ELSE Append(first, [target |-> e, wave |-> client.wave])
         /\ client' = [client EXCEPT !.running = TRUE]
  /\ UNCHANGED <<eng, kin, kout, coord, call, paused>>

\* The stats task applies the coordinator's latest message.  The ones not yet
\* read, and the periodic ones, are copies not yet made.
ClientNews ==
  /\ client # coord
  /\ client' = coord
  /\ UNCHANGED <<eng, net, coord, req, flight, call, paused, nInputs>>

\* abort_requests_async: to the engine the request was sent to.  "admitted":
\* only requests that were scheduled are aborted.
ClientAbort(r) ==
  /\ req[r] = "sent"
  /\ "admitted" \in Discipline => \E e \in Engines : r \in eng[e].active
  /\ NewInput
  /\ req' = [req EXCEPT ![r] = "aborted"]
  /\ cin' = IF flight[r] = None THEN cin
            ELSE [cin EXCEPT ![flight[r]] = Append(@, [type |-> "ABORT", req |-> r])]
  /\ UNCHANGED <<eng, kin, kout, first, coord, client, flight,
                 call, paused>>

\* Nothing about waves is under way between clients, coordinator and ranks.
Settled == first = <<>> /\ \A e \in Engines : kin[e] = <<>> /\ kout[e] = <<>>

\* call_utility_async sends the call to every engine and gathers the answers;
\* one call at a time.  "paused": resume and wake_up only follow the pause or
\* sleep they undo.  "settled": they wait until news of earlier waves has
\* arrived everywhere, and no request is sent during them.
OperatorCall(c) ==
  /\ call.left = {}
  /\ "paused" \in Discipline =>
       (c.op = "resume" => paused = "pause") /\ (c.op = "wake" => paused = "sleep")
  /\ ("settled" \in Discipline /\ c.op \in {"resume", "wake"}) => Settled
  /\ NewInput
  /\ call' = [op |-> c.op, left |-> Engines]
  /\ paused' = CASE c.op = "sleep" -> "sleep"
                 [] c.op = "pause" -> IF paused = "sleep" THEN "sleep" ELSE "pause"
                 [] OTHER -> "no"
  /\ cin' = [e \in Engines |-> Append(cin[e], [type |-> "UTILITY", call |-> c])]
  /\ UNCHANGED <<eng, kin, kout, first, coord, client, req, flight>>

-----------------------------------------------------------------------------
Init ==
  /\ eng = [e \in Engines |->
              [pc |-> "idle", running |-> FALSE, was |-> FALSE, wave |-> 0, step |-> 0,
               pending |-> FALSE, ignore |-> FALSE, pause |-> "UNPAUSED",
               waiting |-> {}, active |-> {}, idleCall |-> NoCall,
               asleep |-> FALSE]]
  /\ cin = [e \in Engines |-> <<>>] /\ kin = [e \in Engines |-> <<>>]
  /\ kout = [e \in Engines |-> <<>>]
  /\ first = <<>>
  /\ coord = [wave |-> 0, running |-> FALSE]
  /\ client = [wave |-> 0, running |-> FALSE]
  /\ req = [r \in Requests |-> "new"]
  /\ flight = [r \in Requests |-> None]
  /\ call = [op |-> "none", left |-> {}] /\ paused = "no"
  /\ nInputs = 0

EngineLoop(e) ==
  \/ ReceiveClient(e) \/ ReceiveCoordinator(e) \/ IdleCallback(e)
  \/ BeginStep(e)

Collective == (\E F \in SUBSET Requests : Forward(F)) \/ Sync \/ ResumeBarrier

Coordinator ==
  CoordinatorFirst \/ \E e \in Engines : CoordinatorReport(e)

\* Every rank waits for input and no message is under way.
AtRest ==
  /\ \A e \in Engines : /\ eng[e].pc = "idle" /\ ~ HasWork(eng[e])
                        /\ eng[e].idleCall = NoCall /\ cin[e] = <<>> /\ kin[e] = <<>>
                        /\ kout[e] = <<>>
  /\ call.left = {} /\ first = <<>>

Quiet == AtRest /\ UNCHANGED vars

Next ==
  \/ \E e \in Engines : EngineLoop(e)
  \/ Collective \/ Coordinator \/ ClientNews
  \/ \E r \in Requests : ClientAdd(r) \/ ClientAbort(r)
  \/ \E c \in Calls : OperatorCall(c)
  \/ Quiet

Spec == Init /\ [][Next]_vars

-----------------------------------------------------------------------------
(* Properties.                                                             *)

\* A rank steps only once every rank has resumed: none still discards the
\* message that would make it take part.
ResumedTogether ==
  \A e, f \in Engines : eng[e].pc = "forward" /\ paused = "no" => ~ eng[f].ignore

\* No rank enters a forward pass, not even a dummy one, while another rank's
\* memory is unmapped.
AwakeTogether ==
  \A e, f \in Engines : eng[e].pc = "forward" => ~ eng[f].asleep

\* Ranks in the same collective are at the same step of the same wave.
InLockstep ==
  \A e, f \in Engines :
    {eng[e].pc, eng[f].pc} \subseteq {"forward", "sync"} =>
       eng[e].step = eng[f].step /\ eng[e].wave = eng[f].wave

\* A completed pause holds on every rank: until the next call nothing runs.
PauseHolds ==
  (paused # "no" /\ call.left = {}) =>
     \A e \in Engines : ~ eng[e].running /\ eng[e].pc \notin {"forward", "sync"}

\* The ranks pause, sleep and resume as one: states have their types (TypeOK), no
\* rank steps while another still ignores START_DP_WAVE (ResumedTogether) or has
\* its memory unmapped (AwakeTogether), and a pause holds everywhere once its
\* call returned (PauseHolds): DPEngineCoreProc's pause and resume.
RanksTogether == TypeOK /\ ResumedTogether /\ AwakeTogether /\ PauseHolds

\* No rank waits in a forward pass for a rank that nothing will wake: no wake-up
\* is lost, whatever waves began and ended while a request was on its way.
NeverStranded ==
  \A e, f \in Engines :
    eng[e].pc = "forward" /\ eng[f].pc = "idle" /\ ~ HasWork(eng[f]) =>
      \/ cin[f] # <<>> \/ kin[f] # <<>> \/ first # <<>>
      \/ \E g \in Engines : kout[g] # <<>>

=============================================================================
