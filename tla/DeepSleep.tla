----------------------------- MODULE DeepSleep -----------------------------
(***************************************************************************)
(* Deep sleep (offload target "exit"): the engine process exits when idle  *)
(* and the API server starts a new one for the next request.               *)
(*                                                                         *)
(* AsyncLLM (vllm/v1/engine/async_llm.py) keeps the gate every request     *)
(* passes and the shared respawn task; the client (core_client.py) keeps   *)
(* engine_sleeping, engine_dead, the engine manager, the task that reads   *)
(* the output socket, and one monitor thread for each engine it started;   *)
(* the engine's side is _send_deep_sleep_exiting, _handle_shutdown and     *)
(* _reject_add_in_shutdown in core.py.                                     *)
(*                                                                         *)
(* The coroutines of the API server are interleaved at their awaits, with  *)
(* the engine processes and with the monitor threads.                      *)
(***************************************************************************)
EXTENDS Integers, Sequences, FiniteSets

CONSTANTS
  Requests,
  MaxEngines,   \* bound: engine processes ever started
  MaxTasks,     \* bound: respawn tasks ever created
  MaxAttempts,  \* VLLM_SM75_RESPAWN_MAX_ATTEMPTS
  MaxFails,     \* bound: respawn attempts that fail
  MaxCrashes    \* bound: engine processes that crash

ASSUME DeepSleepAssumption ==
  /\ MaxEngines \in Nat \ {0} /\ MaxTasks \in Nat
  /\ MaxAttempts \in Nat \ {0}
  /\ MaxFails \in Nat /\ MaxCrashes \in Nat

Engines == 1..MaxEngines
Tasks == 1..MaxTasks

VARIABLES
  req,        \* per request, how far its coroutine is
  waits,      \* ... the respawn task it awaits
  sleeping,   \* resources.engine_sleeping
  dead,       \* resources.engine_dead
  pending,    \* _deep_sleep_respawn_pending
  slot,       \* _deep_sleep_respawn_task (0 is None)
  task,       \* per respawn task, where it is
  attempt,    \* ... its attempt number
  manager,    \* the engine resources.engine_manager manages
  route,      \* the engine connected to the input socket last
  eng,        \* per engine process, its life
  inbox,      \* ... ADDs it received and did not dispatch
  active,     \* ... requests its scheduler holds
  out,        \* the output socket
  monitor,    \* per engine, the thread that watches it
  fails, crashes

client == <<sleeping, dead, pending>>
respawn == <<slot, task, attempt>>
procs == <<eng, inbox, active>>
vars == <<req, waits, sleeping, dead, pending, slot, task, attempt, manager, route,
          eng, inbox, active, out, monitor, fails, crashes>>

Msg == [type : {"DONE"}, req : Requests] \cup [type : {"SLEEP", "DEAD"}]

Finished == {"ok", "failed"}

\* Type invariant: the client, the gate, the engines and the respawn tasks.
TypeOK ==
  /\ req \in [Requests -> {"new", "wait", "ready", "sent", "done", "error", "cancelled"}]
  /\ waits \in [Requests -> 0..MaxTasks]
  /\ sleeping \in BOOLEAN /\ dead \in BOOLEAN /\ pending \in BOOLEAN
  /\ slot \in 0..MaxTasks
  /\ task \in [Tasks -> {"none", "launch", "ready", "backoff", "reap", "memory", "ok", "failed"}]
  /\ attempt \in [Tasks -> 0..MaxAttempts]
  /\ manager \in Engines /\ route \in Engines
  /\ eng \in [Engines -> {"none", "starting", "up", "exiting", "gone", "orphan"}]
  /\ inbox \in [Engines -> SUBSET Requests]
  /\ active \in [Engines -> SUBSET Requests]
  /\ out \in Seq(Msg)
  /\ monitor \in [Engines -> {"off", "watch", "grace", "over"}]
  /\ fails \in 0..MaxFails /\ crashes \in 0..MaxCrashes

-----------------------------------------------------------------------------
(* AsyncLLM.add_request and the gate.                                      *)

\* Mutant: only an empty slot starts a respawn.
NeedsTaskIfEmpty == slot = 0

\* A finished task is never awaited again.
NeedsTask == IF slot = 0 THEN TRUE ELSE task[slot] \in Finished

\* _await_deep_sleep_respawn up to its await: under the lock, which covers no
\* await, start a respawn or join the one under way.
EnterGate(r) ==
  /\ req' = [req EXCEPT ![r] = "wait"]
  /\ IF NeedsTask
     THEN \E t \in Tasks :
            /\ task[t] = "none" /\ \A u \in 1..(t - 1) : task[u] # "none"
            /\ task' = [task EXCEPT ![t] = "launch"]
            /\ attempt' = [attempt EXCEPT ![t] = 1]
            /\ slot' = t
            /\ waits' = [waits EXCEPT ![r] = t]
     ELSE waits' = [waits EXCEPT ![r] = slot] /\ UNCHANGED respawn

AddRequest(r) ==
  /\ req[r] = "new"
  /\ \/ /\ dead
        /\ req' = [req EXCEPT ![r] = "error"] /\ UNCHANGED <<waits, respawn>>
     \/ /\ ~ dead /\ (sleeping \/ pending)
        /\ EnterGate(r)
     \/ /\ ~ dead /\ ~ sleeping /\ ~ pending
        /\ req' = [req EXCEPT ![r] = "ready"] /\ UNCHANGED <<waits, respawn>>
  /\ UNCHANGED <<client, manager, route, procs, out, monitor, fails, crashes>>

\* Mutant: whoever leaves the gate clears the slot.
ClearSlotAlways(t) == slot' = IF slot = t THEN 0 ELSE slot

\* The finally clause of _await_deep_sleep_respawn.
ClearSlot(t) == slot' = IF slot = t /\ task[t] \in Finished THEN 0 ELSE slot

\* The shared task is done: go on, or fail with its exception.
LeaveGate(r) ==
  /\ req[r] = "wait" /\ task[waits[r]] \in Finished
  /\ req' = [req EXCEPT ![r] = IF task[waits[r]] = "ok" THEN "ready" ELSE "error"]
  /\ ClearSlot(waits[r])
  /\ UNCHANGED <<waits, client, task, attempt, manager, route, procs, out, monitor,
                 fails, crashes>>

\* The client disconnects; shield() keeps the respawn running.
Disconnect(r) ==
  /\ req[r] = "wait"
  /\ req' = [req EXCEPT ![r] = "cancelled"]
  /\ ClearSlot(waits[r])
  /\ UNCHANGED <<waits, client, task, attempt, manager, route, procs, out, monitor,
                 fails, crashes>>

\* The input is processed, which awaits, and the ADD sent.  The socket drops a
\* message for a peer that is gone.
SendAdd(r) ==
  /\ req[r] = "ready"
  /\ IF dead
     THEN req' = [req EXCEPT ![r] = "error"] /\ UNCHANGED inbox
     ELSE /\ req' = [req EXCEPT ![r] = "sent"]
          /\ inbox' = IF eng[route] \in {"up", "exiting"}
                      THEN [inbox EXCEPT ![route] = @ \cup {r}] ELSE inbox
  /\ UNCHANGED <<waits, client, respawn, manager, route, eng, active, out, monitor,
                 fails, crashes>>

\* EngineDeadError reaches every request registered with the output processor.
Propagate == req' = [r \in Requests |-> IF req[r] = "sent" THEN "error" ELSE req[r]]

\* process_outputs_socket: one message
Receive ==
  /\ out # <<>> /\ ~ dead
  /\ out' = Tail(out)
  /\ LET m == Head(out) IN
       \/ /\ m.type = "DONE"
          /\ req' = [req EXCEPT ![m.req] = IF @ = "sent" THEN "done" ELSE @]
          /\ UNCHANGED <<sleeping, dead>>
       \/ m.type = "SLEEP" /\ sleeping' = TRUE /\ UNCHANGED <<req, dead>>
       \/ m.type = "DEAD" /\ dead' = TRUE /\ Propagate /\ UNCHANGED sleeping
  /\ UNCHANGED <<waits, pending, respawn, manager, route, procs, monitor, fails,
                 crashes>>

-----------------------------------------------------------------------------
(* The respawn task: _respawn_engine_with_retries, respawn_engine.         *)

\* _respawn_launch starts the process and takes over its manager.
Launch(t) ==
  /\ task[t] = "launch"
  /\ \E e \in Engines :
       /\ eng[e] = "none" /\ \A d \in 1..(e - 1) : eng[d] # "none"
       /\ eng' = [eng EXCEPT ![e] = "starting"]
       /\ manager' = e
  /\ task' = [task EXCEPT ![t] = "ready"]
  /\ UNCHANGED <<req, waits, client, slot, attempt, route, inbox, active, out, monitor,
                 fails, crashes>>

\* Assumption: loading the model takes longer than an exit, so the processes
\* replaced are gone and their monitors have returned when the next engine is
\* ready.
ExitsAreOver ==
  \A e \in Engines : eng[e] \in {"exiting", "gone"} => monitor[e] \in {"off", "over"}

\* Mutant: liveness monitoring is not re-armed.
ReadyUnmonitored(t) ==
  /\ task[t] = "ready" /\ eng[manager] = "starting"
  /\ ExitsAreOver
  /\ eng' = [eng EXCEPT ![manager] = "up"]
  /\ route' = manager
  /\ sleeping' = FALSE /\ dead' = FALSE /\ pending' = FALSE
  /\ task' = [task EXCEPT ![t] = "ok"]
  /\ UNCHANGED <<req, waits, slot, attempt, manager, inbox, active, out, monitor,
                 fails, crashes>>

\* Handshake and READY: the gate opens.
Ready(t) ==
  /\ task[t] = "ready" /\ eng[manager] = "starting"
  /\ ExitsAreOver
  /\ eng' = [eng EXCEPT ![manager] = "up"]
  /\ route' = manager
  /\ sleeping' = FALSE /\ dead' = FALSE /\ pending' = FALSE
  /\ monitor' = [monitor EXCEPT ![manager] = "watch"]
  /\ task' = [task EXCEPT ![t] = "ok"]
  /\ UNCHANGED <<req, waits, slot, attempt, manager, inbox, active, out, fails, crashes>>

\* The retry loop is over: the gate stays armed for a later request.
GiveUp(t) ==
  /\ task' = [task EXCEPT ![t] = "failed"]
  /\ pending' = TRUE

\* Mutant: one attempt too many.
MoreAttemptsOffByOne(t) == attempt[t] <= MaxAttempts

MoreAttempts(t) == attempt[t] < MaxAttempts

\* Mutant: nothing bounds a launch that hangs.
LaunchHangs(t) ==
  /\ task[t] = "ready" /\ eng[manager] = "starting"
  /\ fails < MaxFails /\ fails' = fails + 1
  /\ eng' = [eng EXCEPT ![manager] = "orphan"]
  /\ UNCHANGED <<req, waits, client, respawn, manager, route, inbox, active, out,
                 monitor, crashes>>

\* The attempt raises or times out.  Its process has died, or is left alive
\* but unreachable.
LaunchFails(t) ==
  /\ task[t] = "ready" /\ eng[manager] = "starting"
  /\ fails < MaxFails /\ fails' = fails + 1
  /\ \E left \in {"gone", "orphan"} : eng' = [eng EXCEPT ![manager] = left]
  /\ IF MoreAttempts(t)
     THEN task' = [task EXCEPT ![t] = "backoff"] /\ UNCHANGED pending
     ELSE GiveUp(t)
  /\ UNCHANGED <<req, waits, sleeping, dead, slot, attempt, manager, route, inbox,
                 active, out, monitor, crashes>>

\* The next attempt begins.
Retry(t) ==
  /\ task[t] = "backoff"
  /\ attempt' = [attempt EXCEPT ![t] = @ + 1]
  /\ task' = [task EXCEPT ![t] = "reap"]
  /\ UNCHANGED <<req, waits, client, slot, manager, route, procs, out, monitor, fails,
                 crashes>>

\* Mutant: the process left behind is not shut down.
ReapNothing(t) ==
  /\ task[t] = "reap"
  /\ task' = [task EXCEPT ![t] = "memory"]
  /\ UNCHANGED <<req, waits, client, slot, attempt, manager, route, procs, out, monitor,
                 fails, crashes>>

\* _reap_orphan_engine: what the manager still runs is shut down first.
Reap(t) ==
  /\ task[t] = "reap"
  /\ eng' = [eng EXCEPT ![manager] = "gone"]
  /\ task' = [task EXCEPT ![t] = "memory"]
  /\ UNCHANGED <<req, waits, client, slot, attempt, manager, route, inbox, active, out,
                 monitor, fails, crashes>>

\* _wait_for_gpu_memory only delays: whether the memory is free, cannot be asked
\* for, or is still taken when the wait is over, the attempt goes on.
WaitForMemory(t) ==
  /\ task[t] = "memory"
  /\ task' = [task EXCEPT ![t] = "launch"]
  /\ UNCHANGED <<req, waits, client, slot, attempt, manager, route, procs, out, monitor,
                 fails, crashes>>

\* ... unless the total budget is used up.
BudgetExhausted(t) ==
  /\ task[t] = "backoff"
  /\ GiveUp(t)
  /\ UNCHANGED <<req, waits, sleeping, dead, slot, attempt, manager, route, procs, out,
                 monitor, fails, crashes>>

-----------------------------------------------------------------------------
(* The engine process.                                                     *)

Accept(e, r) ==
  /\ eng[e] = "up" /\ r \in inbox[e]
  /\ inbox' = [inbox EXCEPT ![e] = @ \ {r}]
  /\ active' = [active EXCEPT ![e] = @ \cup {r}]
  /\ UNCHANGED <<req, waits, client, respawn, manager, route, eng, out, monitor, fails,
                 crashes>>

Finish(e, r) ==
  /\ eng[e] = "up" /\ r \in active[e]
  /\ active' = [active EXCEPT ![e] = @ \ {r}]
  /\ out' = Append(out, [type |-> "DONE", req |-> r])
  /\ UNCHANGED <<req, waits, client, respawn, manager, route, eng, inbox, monitor,
                 fails, crashes>>

\* Idle past the timeout: request_deep_sleep_exit.  The sentinel is the last
\* message of the output thread.
IdleExit(e) ==
  /\ eng[e] = "up" /\ active[e] = {}
  /\ out' = Append(out, [type |-> "SLEEP"])
  /\ eng' = [eng EXCEPT ![e] = "exiting"]
  /\ UNCHANGED <<req, waits, client, respawn, manager, route, inbox, active, monitor,
                 fails, crashes>>

\* _reject_add_in_shutdown: the abort is queued for a thread that has stopped.
RejectAdd(e, r) ==
  /\ eng[e] = "exiting" /\ r \in inbox[e]
  /\ inbox' = [inbox EXCEPT ![e] = @ \ {r}]
  /\ UNCHANGED <<req, waits, client, respawn, manager, route, eng, active, out, monitor,
                 fails, crashes>>

Exit(e) ==
  /\ eng[e] = "exiting"
  /\ eng' = [eng EXCEPT ![e] = "gone"]
  /\ inbox' = [inbox EXCEPT ![e] = {}]
  /\ UNCHANGED <<req, waits, client, respawn, manager, route, active, out, monitor,
                 fails, crashes>>

\* A fatal error is announced; a killed process announces nothing.
Crash(e) ==
  /\ eng[e] = "up" /\ crashes < MaxCrashes
  /\ crashes' = crashes + 1
  /\ eng' = [eng EXCEPT ![e] = "gone"]
  /\ inbox' = [inbox EXCEPT ![e] = {}]
  /\ active' = [active EXCEPT ![e] = {}]
  /\ out' \in {out, Append(out, [type |-> "DEAD"])}
  /\ UNCHANGED <<req, waits, client, respawn, manager, route, monitor, fails>>

-----------------------------------------------------------------------------
(* monitor_engine_cores, the thread that watches engine e.                 *)

\* Mutant: the exit is judged at once.
MonitorSeesNoGrace(e) ==
  /\ monitor[e] = "watch" /\ eng[e] = "gone"
  /\ monitor' = [monitor EXCEPT ![e] = "over"]
  /\ dead' = (dead \/ ~ sleeping)
  /\ UNCHANGED <<req, waits, sleeping, pending, respawn, manager, route, procs, out,
                 fails, crashes>>

MonitorSees(e) ==
  /\ monitor[e] = "watch" /\ eng[e] = "gone"
  /\ monitor' = [monitor EXCEPT ![e] = IF dead \/ sleeping THEN "over" ELSE "grace"]
  /\ UNCHANGED <<req, waits, client, respawn, manager, route, procs, out, fails, crashes>>

\* After the grace of 0.5 s, long enough to read a sentinel that was flushed
\* before the process exited.  A crash ends the client and what it manages.
MonitorJudges(e) ==
  /\ monitor[e] = "grace" /\ [type |-> "SLEEP"] \notin {out[i] : i \in 1..Len(out)}
  /\ monitor' = [monitor EXCEPT ![e] = "over"]
  /\ IF sleeping
     THEN UNCHANGED <<dead, req, eng>>
     ELSE dead' = TRUE /\ Propagate /\ eng' = [eng EXCEPT ![manager] = "gone"]
  /\ UNCHANGED <<waits, sleeping, pending, respawn, manager, route, inbox, active, out,
                 fails, crashes>>

-----------------------------------------------------------------------------
Init ==
  /\ req = [r \in Requests |-> "new"] /\ waits = [r \in Requests |-> 0]
  /\ sleeping = FALSE /\ dead = FALSE /\ pending = FALSE
  /\ slot = 0
  /\ task = [t \in Tasks |-> "none"] /\ attempt = [t \in Tasks |-> 0]
  /\ manager = 1 /\ route = 1
  /\ eng = [e \in Engines |-> IF e = 1 THEN "up" ELSE "none"]
  /\ inbox = [e \in Engines |-> {}] /\ active = [e \in Engines |-> {}]
  /\ out = <<>>
  /\ monitor = [e \in Engines |-> IF e = 1 THEN "watch" ELSE "off"]
  /\ fails = 0 /\ crashes = 0

Coroutine(r) == LeaveGate(r) \/ SendAdd(r)

Respawn(t) ==
  \/ Launch(t) \/ Ready(t) \/ LaunchFails(t)
  \/ Retry(t) \/ Reap(t) \/ WaitForMemory(t) \/ BudgetExhausted(t)

Engine(e) ==
  \/ IdleExit(e) \/ Exit(e)
  \/ \E r \in Requests : Accept(e, r) \/ Finish(e, r) \/ RejectAdd(e, r)

Monitor(e) == MonitorSees(e) \/ MonitorJudges(e)

Next ==
  \/ \E r \in Requests : AddRequest(r) \/ Coroutine(r) \/ Disconnect(r)
  \/ Receive
  \/ \E t \in Tasks : Respawn(t)
  \/ \E e \in Engines : Engine(e) \/ Crash(e) \/ Monitor(e)

Spec == Init /\ [][Next]_vars

\* The event loop runs every coroutine that can go on, processes and threads
\* progress, and a launch returns.  Nothing obliges clients to send or to
\* disconnect, or an engine to crash.
FairSpec ==
  /\ Spec
  /\ \A r \in Requests : WF_vars(Coroutine(r))
  /\ WF_vars(Receive)
  /\ \A t \in Tasks : WF_vars(Respawn(t))
  /\ \A e \in Engines : WF_vars(Engine(e)) /\ WF_vars(Monitor(e))

-----------------------------------------------------------------------------
(* Properties.                                                             *)

\* Requests arriving while the engine is down share one respawn, also when the
\* ones that wait for it disconnect: never are two under way.
OneRespawn ==
  \A t, u \in Tasks :
    task[t] \notin Finished \cup {"none"} /\ task[u] \notin Finished \cup {"none"}
      => t = u

\* An open gate means there is an engine to send to, or the news of its end is
\* on its way: a sentinel in the output socket, or a monitor watching it.
OpenGateMeansEngine ==
  (~ sleeping /\ ~ pending /\ ~ dead) =>
    \/ eng[route] = "up"
    \/ monitor[route] \in {"watch", "grace"}
    \/ \E i \in 1..Len(out) : out[i].type \in {"SLEEP", "DEAD"}

\* Neither a deep-sleep exit nor any number of failed respawns marks the engine
\* dead, which would end the API server for good: only a crash does.
DeadOnlyByCrash == dead => crashes > 0

\* A request never waits for a respawn that had already ended when it arrived:
\* it does not inherit an old failure.
FreshRespawn ==
  [][ \A r \in Requests :
        req[r] = "new" /\ req[r]' = "wait" => task[waits[r]'] \notin Finished ]_vars

\* Every request at the gate gets through, is told of the failure, or gives up:
\* the gate never holds requests for good.
GateAnswers ==
  \A r \in Requests : req[r] = "wait" ~> req[r] # "wait"

\* A process that a failed attempt left behind, unreachable and holding GPU
\* memory, is gone when the next one starts.  It survives only the respawn that
\* gave up: a later respawn's first attempt does not reap
\* (_respawn_engine_with_retries).
OrphansReaped ==
  [][ (\E e \in Engines : eng[e] = "none" /\ eng[e]' = "starting")
        => \A e \in Engines :
             eng[e] = "orphan" => \E t \in Tasks : task[t] = "failed" ]_vars

=============================================================================
