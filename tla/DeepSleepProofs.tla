-------------------------- MODULE DeepSleepProofs --------------------------
(***************************************************************************)
(* Proofs about DeepSleep for every set of requests and every bound on     *)
(* engines, respawns, attempts, failures and crashes: the respawn is       *)
(* shared and fresh, an open gate leads to an engine, and only a crash     *)
(* marks the client dead.                                                  *)
(***************************************************************************)
EXTENDS DeepSleep, SequenceTheorems, TLAPS

Running == {"launch", "ready", "backoff", "reap", "memory"}

\* Only the task in the slot runs, and a task that will retry has an attempt
\* left.
TaskInv ==
  /\ \A t \in Tasks : task[t] \in Running => slot = t
  /\ \A t \in Tasks : task[t] = "backoff" => attempt[t] < MaxAttempts

\* What a monitor watches: an engine that serves is watched, one that never
\* served is not, neither is the one the next attempt will reap.
WatchInv ==
  /\ \A e \in Engines : eng[e] = "up" => monitor[e] = "watch"
  /\ \A e \in Engines : eng[e] \in {"none", "starting"} => monitor[e] = "off"
  /\ \A t \in Tasks : task[t] \in {"backoff", "reap"} => monitor[manager] = "off"
  /\ ~ sleeping /\ ~ pending /\ ~ dead => monitor[route] \in {"watch", "grace"}

Has(s, type) == \E i \in 1..Len(s) : s[i].type = type

\* Without a crash, an engine that ended under a watching monitor has told so:
\* the client sleeps, or the sentinel is in the output socket.
ExitInv ==
  crashes = 0 =>
    /\ ~ dead /\ ~ Has(out, "DEAD")
    /\ \A e \in Engines :
         monitor[e] \in {"watch", "grace"} =>
           \/ eng[e] = "up"
           \/ eng[e] \in {"exiting", "gone"} /\ (sleeping \/ Has(out, "SLEEP"))

-----------------------------------------------------------------------------
\* Sending adds one message to the output socket.
LEMMA HasAppend ==
  ASSUME NEW s \in Seq(Msg), NEW m \in Msg, NEW type
  PROVE  Has(Append(s, m), type) <=> Has(s, type) \/ m.type = type
<1>1. /\ Len(Append(s, m)) = Len(s) + 1
      /\ \A i \in 1..Len(s) : Append(s, m)[i] = s[i]
      /\ Append(s, m)[Len(s) + 1] = m /\ Len(s) \in Nat
  OBVIOUS
<1>2. 1..Len(Append(s, m)) = (1..Len(s)) \cup {Len(s) + 1}
  BY <1>1
<1>. QED BY <1>1, <1>2 DEF Has

\* Receiving removes the first message.
LEMMA HasTail ==
  ASSUME NEW s \in Seq(Msg), s # <<>>, NEW type
  PROVE  Has(s, type) <=> Has(Tail(s), type) \/ Head(s).type = type
<1>1. /\ Len(Tail(s)) = Len(s) - 1 /\ Len(s) \in Nat \ {0}
      /\ \A i \in 1..(Len(s) - 1) : Tail(s)[i] = s[i + 1]
      /\ Head(s) = s[1]
  OBVIOUS
<1>2. ASSUME Has(s, type) PROVE Has(Tail(s), type) \/ Head(s).type = type
  <2>1. PICK i \in 1..Len(s) : s[i].type = type
    BY <1>2 DEF Has
  <2>2. CASE i = 1
    BY <2>1, <2>2, <1>1
  <2>3. CASE i # 1
    <3>1. i - 1 \in 1..Len(Tail(s)) /\ Tail(s)[i - 1] = s[i]
      BY <2>3, <1>1
    <3>. QED BY <3>1, <2>1 DEF Has
  <2>. QED BY <2>2, <2>3
<1>3. ASSUME Has(Tail(s), type) PROVE Has(s, type)
  <2>1. PICK i \in 1..Len(Tail(s)) : Tail(s)[i].type = type
    BY <1>3 DEF Has
  <2>2. i + 1 \in 1..Len(s) /\ s[i + 1].type = type
    BY <2>1, <1>1
  <2>. QED BY <2>2 DEF Has
<1>4. ASSUME Head(s).type = type PROVE Has(s, type)
  BY <1>1, <1>4 DEF Has
<1>. QED BY <1>2, <1>3, <1>4

\* The monitor's test for the sentinel is a test of the message's type.
LEMMA NoSentinel ==
  ASSUME out \in Seq(Msg), [type |-> "SLEEP"] \notin {out[i] : i \in 1..Len(out)}
  PROVE  ~ Has(out, "SLEEP")
<1>1. ASSUME NEW i \in 1..Len(out), out[i].type = "SLEEP" PROVE FALSE
  <2>1. out[i] \in Msg
    BY <1>1
  <2>2. out[i] = [type |-> "SLEEP"]
    BY <2>1, <1>1 DEF Msg
  <2>. QED BY <2>2
<1>. QED BY <1>1 DEF Has

\* The messages are messages.
LEMMA Messages ==
  /\ [type |-> "SLEEP"] \in Msg /\ [type |-> "DEAD"] \in Msg
  /\ \A r \in Requests : [type |-> "DONE", req |-> r] \in Msg
BY DEF Msg

\* The respawn is shared: TypeOK and TaskInv are inductive together.
LEMMA TaskInvStep ==
  ASSUME TypeOK, TaskInv, [Next]_vars PROVE TypeOK' /\ TaskInv'
<1>. USE DeepSleepAssumption DEF TypeOK, TaskInv, Engines, Tasks, Finished, Running,
                                 client, respawn, procs
<1>1. ASSUME NEW r \in Requests, AddRequest(r) PROVE TypeOK' /\ TaskInv'
  <2>1. CASE ~ dead /\ (sleeping \/ pending) /\ EnterGate(r)
    <3>1. CASE NeedsTask
      <4>1. PICK t \in Tasks : /\ task' = [task EXCEPT ![t] = "launch"]
                               /\ attempt' = [attempt EXCEPT ![t] = 1]
                               /\ slot' = t
                               /\ waits' = [waits EXCEPT ![r] = t]
        BY <2>1, <3>1 DEF EnterGate
      <4>2. TypeOK'
        BY <1>1, <2>1, <4>1 DEF AddRequest, EnterGate
      <4>3. \A u \in Tasks : task[u] \notin Running
        BY <3>1 DEF NeedsTask
      <4>4. \A u \in Tasks : u # t => task'[u] \notin Running
        BY <4>1, <4>3
      <4>5. task'[t] = "launch" /\ slot' = t
        BY <4>1
      <4>. QED BY <4>2, <4>4, <4>5
    <3>2. CASE ~ NeedsTask
      BY <1>1, <2>1, <3>2 DEF AddRequest, EnterGate
    <3>. QED BY <3>1, <3>2
  <2>2. CASE /\ req' \in {[req EXCEPT ![r] = "error"], [req EXCEPT ![r] = "ready"]}
             /\ UNCHANGED <<waits, respawn>>
    <3>1. req' \in [Requests -> {"new", "wait", "ready", "sent", "done", "error", "cancelled"}]
      BY <2>2
    <3>. QED BY <1>1, <2>2, <3>1 DEF AddRequest
  <2>. QED BY <1>1, <2>1, <2>2 DEF AddRequest
<1>2. ASSUME NEW r \in Requests, Coroutine(r) \/ Disconnect(r) PROVE TypeOK' /\ TaskInv'
  <2>1. CASE LeaveGate(r)
    BY <2>1 DEF LeaveGate, ClearSlot
  <2>2. CASE Disconnect(r)
    BY <2>2 DEF Disconnect, ClearSlot
  <2>3. CASE SendAdd(r)
    <3>1. req' \in [Requests -> {"new", "wait", "ready", "sent", "done", "error", "cancelled"}]
      BY <2>3 DEF SendAdd
    <3>2. inbox' \in [Engines -> SUBSET Requests]
      BY <2>3 DEF SendAdd
    <3>. QED BY <2>3, <3>1, <3>2 DEF SendAdd
  <2>. QED BY <1>2, <2>1, <2>2, <2>3 DEF Coroutine
<1>3. ASSUME Receive PROVE TypeOK' /\ TaskInv'
  <2>1. out' \in Seq(Msg)
    BY <1>3 DEF Receive
  <2>2. req' \in [Requests -> {"new", "wait", "ready", "sent", "done", "error", "cancelled"}]
    BY <1>3 DEF Receive, Propagate
  <2>3. sleeping' \in BOOLEAN /\ dead' \in BOOLEAN /\ pending' \in BOOLEAN
    BY <1>3 DEF Receive
  <2>. QED BY <1>3, <2>1, <2>2, <2>3 DEF Receive
<1>4. ASSUME NEW t \in Tasks, Respawn(t) PROVE TypeOK' /\ TaskInv'
  <2>1. CASE Launch(t)
    BY <2>1 DEF Launch
  <2>2. CASE Ready(t)
    BY <2>2 DEF Ready
  <2>3. CASE LaunchFails(t)
    <3>1. CASE MoreAttempts(t)
      BY <2>3, <3>1, SMTT(40) DEF LaunchFails, MoreAttempts
    <3>2. CASE ~ MoreAttempts(t)
      BY <2>3, <3>2 DEF LaunchFails, GiveUp
    <3>. QED BY <3>1, <3>2
  <2>4. CASE Retry(t)
    BY <2>4 DEF Retry
  <2>5. CASE BudgetExhausted(t)
    BY <2>5 DEF BudgetExhausted, GiveUp
  <2>6. CASE Reap(t)
    BY <2>6 DEF Reap
  <2>7. CASE WaitForMemory(t)
    BY <2>7 DEF WaitForMemory
  <2>. QED BY <1>4, <2>1, <2>2, <2>3, <2>4, <2>5, <2>6, <2>7 DEF Respawn
<1>5. ASSUME NEW e \in Engines, Engine(e) \/ Crash(e) PROVE TypeOK' /\ TaskInv'
  <2>. USE Messages
  <2>1. CASE IdleExit(e)
    BY <2>1 DEF IdleExit
  <2>2. CASE Exit(e)
    BY <2>2 DEF Exit
  <2>3. ASSUME NEW r \in Requests, Accept(e, r) PROVE TypeOK' /\ TaskInv'
    BY <2>3 DEF Accept
  <2>4. ASSUME NEW r \in Requests, Finish(e, r) PROVE TypeOK' /\ TaskInv'
    BY <2>4 DEF Finish
  <2>5. ASSUME NEW r \in Requests, RejectAdd(e, r) PROVE TypeOK' /\ TaskInv'
    BY <2>5 DEF RejectAdd
  <2>6. CASE Crash(e)
    <3>1. out' = out \/ out' = Append(out, [type |-> "DEAD"])
      BY <2>6 DEF Crash
    <3>2. Append(out, [type |-> "DEAD"]) \in Seq(Msg)
      OBVIOUS
    <3>3. out' \in Seq(Msg)
      BY <3>1, <3>2
    <3>. QED BY <2>6, <3>3 DEF Crash
  <2>. QED BY <1>5, <2>1, <2>2, <2>3, <2>4, <2>5, <2>6 DEF Engine
<1>6. ASSUME NEW e \in Engines, Monitor(e) PROVE TypeOK' /\ TaskInv'
  <2>1. CASE MonitorSees(e)
    BY <2>1 DEF MonitorSees
  <2>2. CASE MonitorJudges(e)
    <3>1. CASE sleeping
      BY <2>2, <3>1 DEF MonitorJudges
    <3>2. CASE ~ sleeping
      <4>1. req' \in [Requests -> {"new", "wait", "ready", "sent", "done", "error", "cancelled"}]
        BY <2>2, <3>2 DEF MonitorJudges, Propagate
      <4>2. eng' \in [Engines -> {"none", "starting", "up", "exiting", "gone", "orphan"}]
        BY <2>2, <3>2 DEF MonitorJudges
      <4>. QED BY <2>2, <3>2, <4>1, <4>2 DEF MonitorJudges
    <3>. QED BY <3>1, <3>2
  <2>. QED BY <1>6, <2>1, <2>2 DEF Monitor
<1>7. CASE UNCHANGED vars
  BY <1>7 DEF vars
<1>. QED BY <1>1, <1>2, <1>3, <1>4, <1>5, <1>6, <1>7 DEF Next

\* The initial state satisfies all three invariants.
LEMMA InitInv == Init => TypeOK /\ TaskInv /\ WatchInv /\ ExitInv
<1>. SUFFICES ASSUME Init PROVE TypeOK /\ TaskInv /\ WatchInv /\ ExitInv
  OBVIOUS
<1>. USE DeepSleepAssumption DEF Init, Engines, Tasks
<1>1. TypeOK
  <2>1. /\ waits \in [Requests -> 0..MaxTasks]
        /\ task \in [Tasks -> {"none", "launch", "ready", "backoff", "reap", "memory", "ok", "failed"}]
        /\ attempt \in [Tasks -> 0..MaxAttempts]
    OBVIOUS
  <2>2. /\ eng \in [Engines -> {"none", "starting", "up", "exiting", "gone", "orphan"}]
        /\ monitor \in [Engines -> {"off", "watch", "grace", "over"}]
    OBVIOUS
  <2>3. inbox \in [Engines -> SUBSET Requests] /\ active \in [Engines -> SUBSET Requests]
    OBVIOUS
  <2>4. out \in Seq(Msg)
    OBVIOUS
  <2>5. sleeping \in BOOLEAN /\ dead \in BOOLEAN /\ pending \in BOOLEAN
    OBVIOUS
  <2>6. req \in [Requests -> {"new", "wait", "ready", "sent", "done", "error", "cancelled"}]
    OBVIOUS
  <2>7. /\ slot \in 0..MaxTasks /\ manager \in Engines /\ route \in Engines
        /\ fails \in 0..MaxFails /\ crashes \in 0..MaxCrashes
    OBVIOUS
  <2>. QED BY <2>1, <2>2, <2>3, <2>4, <2>5, <2>6, <2>7, Zenon DEF TypeOK
<1>2. TaskInv
  BY DEF TaskInv, Running
<1>3. WatchInv
  BY DEF WatchInv
<1>4. ExitInv
  BY DEF ExitInv, Has
<1>. QED BY <1>1, <1>2, <1>3, <1>4

\* DeepSleep keeps its variables well typed; in particular no task counts more
\* attempts than VLLM_SM75_RESPAWN_MAX_ATTEMPTS.
THEOREM TypeCorrect == Spec => []TypeOK
<1>. QED BY InitInv, TaskInvStep, PTL DEF Spec

\* Never are two respawns under way, whoever arrives at or leaves the gate.
THEOREM RespawnShared == Spec => []OneRespawn
<1>1. TypeOK /\ TaskInv => OneRespawn
  BY DEF TypeOK, TaskInv, OneRespawn, Running, Finished
<1>. QED BY <1>1, InitInv, TaskInvStep, PTL DEF Spec

\* A request that comes to the gate joins a respawn that has not ended, so it
\* is never given the exception of one that failed before it arrived.
THEOREM RespawnFresh == Spec => FreshRespawn
<1>1. ASSUME TypeOK, [Next]_vars, NEW r \in Requests, req[r] = "new", req'[r] = "wait"
      PROVE  task[waits'[r]] \notin Finished
  <2>. USE <1>1 DEF TypeOK
  <2>1. CASE AddRequest(r)
    <3>1. EnterGate(r)
      BY <2>1 DEF AddRequest
    <3>2. CASE NeedsTask
      BY <3>1, <3>2 DEF EnterGate, Finished
    <3>3. CASE ~ NeedsTask
      BY <3>1, <3>3 DEF EnterGate, NeedsTask
    <3>. QED BY <3>2, <3>3
  <2>2. ASSUME NEW q \in Requests, AddRequest(q), q # r PROVE FALSE
    BY <2>2 DEF AddRequest, EnterGate
  <2>3. ASSUME NEW q \in Requests, Coroutine(q) \/ Disconnect(q) PROVE FALSE
    BY <2>3 DEF Coroutine, LeaveGate, SendAdd, Disconnect
  <2>4. ASSUME Receive PROVE FALSE
    BY <2>4 DEF Receive, Propagate
  <2>5. ASSUME NEW t \in Tasks, Respawn(t) PROVE FALSE
    BY <2>5 DEF Respawn, Launch, Ready, LaunchFails, Retry, Reap, WaitForMemory,
                BudgetExhausted
  <2>6. ASSUME NEW e \in Engines, Engine(e) \/ Crash(e) PROVE FALSE
    BY <2>6 DEF Engine, IdleExit, Exit, Accept, Finish, RejectAdd, Crash
  <2>7. ASSUME NEW e \in Engines, Monitor(e) PROVE FALSE
    <3>1. UNCHANGED req \/ Propagate
      BY <2>7 DEF Monitor, MonitorSees, MonitorJudges
    <3>. QED BY <3>1 DEF Propagate
  <2>8. ~ UNCHANGED vars
    BY DEF vars
  <2>. QED BY <2>1, <2>2, <2>3, <2>4, <2>5, <2>6, <2>7, <2>8 DEF Next
<1>2. ASSUME TypeOK, [Next]_vars
      PROVE  \A r \in Requests :
               req[r] = "new" /\ req[r]' = "wait" => task[waits[r]'] \notin Finished
  BY <1>1, <1>2
<1>. QED BY <1>2, TypeCorrect, PTL DEF Spec, FreshRespawn

-----------------------------------------------------------------------------
\* Every step keeps what the monitors watch.
LEMMA WatchInvStep ==
  ASSUME TypeOK, TaskInv, WatchInv, [Next]_vars PROVE WatchInv'
<1>. USE DeepSleepAssumption DEF TypeOK, WatchInv, Engines, Tasks, client, respawn, procs
<1>1. ASSUME NEW r \in Requests, AddRequest(r) PROVE WatchInv'
  <2>1. \A t \in Tasks : task'[t] \in {"backoff", "reap"} => task[t] \in {"backoff", "reap"}
    BY <1>1 DEF AddRequest, EnterGate
  <2>. QED BY <1>1, <2>1 DEF AddRequest
<1>2. ASSUME NEW r \in Requests, Coroutine(r) \/ Disconnect(r) PROVE WatchInv'
  <2>1. UNCHANGED <<task, monitor, manager, route, eng, client>>
    BY <1>2 DEF Coroutine, LeaveGate, SendAdd, Disconnect
  <2>. QED BY <2>1
<1>3. ASSUME Receive PROVE WatchInv'
  BY <1>3 DEF Receive
<1>4. ASSUME NEW t \in Tasks, Respawn(t) PROVE WatchInv'
  <2>0. ASSUME NEW u \in Tasks, task[u] \in {"backoff", "reap"}, task[t] \in Running
        PROVE  u = t
    BY <2>0 DEF TaskInv, Running
  <2>1. CASE Launch(t)
    BY <2>0, <2>1 DEF Launch, Running
  <2>2. CASE Ready(t)
    BY <2>0, <2>2 DEF Ready, Running
  <2>3. CASE LaunchFails(t)
    BY <2>3 DEF LaunchFails, GiveUp
  <2>4. CASE Retry(t)
    BY <2>4 DEF Retry
  <2>5. CASE BudgetExhausted(t)
    BY <2>5 DEF BudgetExhausted, GiveUp
  <2>6. CASE Reap(t)
    BY <2>6 DEF Reap
  <2>7. CASE WaitForMemory(t)
    BY <2>7 DEF WaitForMemory
  <2>. QED BY <1>4, <2>1, <2>2, <2>3, <2>4, <2>5, <2>6, <2>7 DEF Respawn
<1>5. ASSUME NEW e \in Engines, Engine(e) \/ Crash(e) PROVE WatchInv'
  BY <1>5, ZenonT(60) DEF Engine, IdleExit, Exit, Accept, Finish, RejectAdd, Crash
<1>6. ASSUME NEW e \in Engines, Monitor(e) PROVE WatchInv'
  <2>1. CASE MonitorSees(e)
    BY <2>1 DEF MonitorSees
  <2>2. CASE MonitorJudges(e)
    BY <2>2 DEF MonitorJudges
  <2>. QED BY <1>6, <2>1, <2>2 DEF Monitor
<1>7. CASE UNCHANGED vars
  BY <1>7 DEF vars
<1>. QED BY <1>1, <1>2, <1>3, <1>4, <1>5, <1>6, <1>7 DEF Next

\* The gate opens on an engine that is watched and closes before the monitor
\* leaves it: a request let through has an engine, or news of its end.
THEOREM GateOpenOnEngine == Spec => []OpenGateMeansEngine
<1>1. TypeOK /\ WatchInv => OpenGateMeansEngine
  BY DEF WatchInv, OpenGateMeansEngine
<1>. QED BY <1>1, InitInv, TaskInvStep, WatchInvStep, PTL DEF Spec

-----------------------------------------------------------------------------
\* Every step keeps the account of the engines that ended.
LEMMA ExitInvStep ==
  ASSUME TypeOK, TaskInv, WatchInv, ExitInv, [Next]_vars PROVE ExitInv'
<1>. SUFFICES ASSUME crashes' = 0 PROVE ExitInv'
  BY DEF ExitInv
<1>. USE DeepSleepAssumption DEF TypeOK, ExitInv, Engines, Tasks, client, respawn, procs
<1>0. crashes = 0
  <2>1. ASSUME NEW r \in Requests, AddRequest(r) \/ Coroutine(r) \/ Disconnect(r)
        PROVE  UNCHANGED crashes
    BY <2>1 DEF AddRequest, Coroutine, LeaveGate, SendAdd, Disconnect
  <2>2. ASSUME NEW t \in Tasks, Respawn(t) PROVE UNCHANGED crashes
    BY <2>2 DEF Respawn, Launch, Ready, LaunchFails, Retry, Reap, WaitForMemory,
                BudgetExhausted
  <2>3. ASSUME NEW e \in Engines, Engine(e) \/ Monitor(e) PROVE UNCHANGED crashes
    BY <2>3 DEF Engine, IdleExit, Exit, Accept, Finish, RejectAdd, Monitor, MonitorSees,
                MonitorJudges
  <2>4. ASSUME NEW e \in Engines, Crash(e) PROVE FALSE
    BY <2>4 DEF Crash
  <2>5. ASSUME Receive \/ UNCHANGED vars PROVE UNCHANGED crashes
    BY <2>5 DEF Receive, vars
  <2>. QED BY <2>1, <2>2, <2>3, <2>4, <2>5 DEF Next
<1>1. ASSUME UNCHANGED <<eng, monitor, out, client>> PROVE ExitInv'
  BY <1>0, <1>1 DEF Has
<1>2. ASSUME NEW r \in Requests, AddRequest(r) \/ Coroutine(r) \/ Disconnect(r)
      PROVE  ExitInv'
  BY <1>1, <1>2 DEF AddRequest, Coroutine, LeaveGate, SendAdd, Disconnect
<1>3. ASSUME Receive PROVE ExitInv'
  <2>. DEFINE m == Head(out)
  <2>1. \A type : Has(out, type) <=> Has(out', type) \/ m.type = type
    BY <1>3, HasTail DEF Receive
  <2>2. ~ Has(out', "DEAD") /\ m.type # "DEAD"
    BY <2>1, <1>0
  <2>3. CASE m.type = "SLEEP"
    BY <1>0, <1>3, <2>2, <2>3 DEF Receive
  <2>4. CASE m.type # "SLEEP"
    <3>1. Has(out, "SLEEP") <=> Has(out', "SLEEP")
      BY <2>1, <2>4
    <3>2. UNCHANGED <<sleeping, dead, eng, monitor>>
      BY <1>3, <2>2, <2>4 DEF Receive
    <3>. HIDE DEF m
    <3>. QED BY <1>0, <2>2, <3>1, <3>2
  <2>. QED BY <2>3, <2>4
<1>4. ASSUME NEW t \in Tasks, Respawn(t) PROVE ExitInv'
  <2>1. CASE Launch(t)
    BY <1>0, <2>1 DEF Launch, WatchInv, Has
  <2>2. CASE Ready(t)
    BY <1>0, <2>2 DEF Ready, ExitsAreOver, WatchInv, Has
  <2>3. CASE LaunchFails(t)
    BY <1>0, <2>3 DEF LaunchFails, WatchInv, Has
  <2>4. CASE Retry(t)
    BY <1>0, <2>4 DEF Retry, WatchInv, Has
  <2>5. CASE BudgetExhausted(t)
    BY <1>0, <2>5 DEF BudgetExhausted, Has
  <2>6. CASE Reap(t)
    BY <1>0, <2>6 DEF Reap, WatchInv, Has
  <2>7. CASE WaitForMemory(t)
    BY <1>0, <2>7 DEF WaitForMemory, Has
  <2>. QED BY <1>4, <2>1, <2>2, <2>3, <2>4, <2>5, <2>6, <2>7 DEF Respawn
<1>5. ASSUME NEW e \in Engines, Engine(e) PROVE ExitInv'
  <2>1. CASE IdleExit(e)
    <3>1. /\ Has(out', "SLEEP")
          /\ Has(out', "DEAD") <=> Has(out, "DEAD")
      BY <2>1, HasAppend, Messages DEF IdleExit
    <3>. QED BY <1>0, <2>1, <3>1 DEF IdleExit
  <2>2. CASE Exit(e)
    BY <1>0, <2>2 DEF Exit, Has
  <2>3. ASSUME NEW r \in Requests, Accept(e, r) \/ RejectAdd(e, r) PROVE ExitInv'
    BY <1>1, <2>3 DEF Accept, RejectAdd
  <2>4. ASSUME NEW r \in Requests, Finish(e, r) PROVE ExitInv'
    <3>1. /\ Has(out', "SLEEP") <=> Has(out, "SLEEP")
          /\ Has(out', "DEAD") <=> Has(out, "DEAD")
      BY <2>4, HasAppend, Messages DEF Finish
    <3>. QED BY <1>0, <2>4, <3>1 DEF Finish
  <2>. QED BY <1>5, <2>1, <2>2, <2>3, <2>4 DEF Engine
<1>6. ASSUME NEW e \in Engines, Crash(e) PROVE FALSE
  BY <1>0, <1>6 DEF Crash
<1>7. ASSUME NEW e \in Engines, Monitor(e) PROVE ExitInv'
  <2>1. CASE MonitorSees(e)
    BY <1>0, <2>1 DEF MonitorSees, Has
  <2>2. CASE MonitorJudges(e)
    <3>1. sleeping
      BY <1>0, <2>2, NoSentinel DEF MonitorJudges, WatchInv
    <3>. QED BY <1>0, <2>2, <3>1 DEF MonitorJudges, Has
  <2>. QED BY <1>7, <2>1, <2>2 DEF Monitor
<1>8. CASE UNCHANGED vars
  BY <1>1, <1>8 DEF vars
<1>. QED BY <1>2, <1>3, <1>4, <1>5, <1>6, <1>7, <1>8 DEF Next

\* A deep-sleep exit is never taken for a crash, and no failed respawn marks
\* the client dead.
THEOREM OnlyCrashKills == Spec => []DeadOnlyByCrash
<1>1. TypeOK /\ ExitInv => DeadOnlyByCrash
  BY DEF TypeOK, ExitInv, DeadOnlyByCrash
<1>. QED BY <1>1, InitInv, TaskInvStep, WatchInvStep, ExitInvStep, PTL DEF Spec

-----------------------------------------------------------------------------
GaveUp == \E t \in Tasks : task[t] = "failed"

\* A process left behind is the one the next attempt reaps, unless a respawn has
\* given up.
OrphanInv ==
  \A e \in Engines :
    eng[e] = "orphan" =>
      \/ GaveUp
      \/ e = manager /\ \E t \in Tasks : task[t] \in {"backoff", "reap"}

\* Every step keeps the account of the processes left behind.
LEMMA OrphanInvStep ==
  ASSUME TypeOK, TaskInv, OrphanInv, [Next]_vars PROVE OrphanInv'
<1>. USE DeepSleepAssumption DEF TypeOK, OrphanInv, GaveUp, Engines, Tasks, client, respawn,
                                 procs
<1>1. ASSUME NEW r \in Requests, AddRequest(r) PROVE OrphanInv'
  <2>1. \A t \in Tasks : task[t] \in {"failed", "backoff", "reap"} => task'[t] = task[t]
    BY <1>1 DEF AddRequest, EnterGate
  <2>2. UNCHANGED <<eng, manager>>
    BY <1>1 DEF AddRequest
  <2>. QED BY <2>1, <2>2
<1>2. ASSUME NEW r \in Requests, Coroutine(r) \/ Disconnect(r) PROVE OrphanInv'
  <2>1. UNCHANGED <<task, manager, eng>>
    BY <1>2 DEF Coroutine, LeaveGate, SendAdd, Disconnect
  <2>. QED BY <2>1
<1>3. ASSUME Receive PROVE OrphanInv'
  BY <1>3 DEF Receive
<1>4. ASSUME NEW t \in Tasks, Respawn(t) PROVE OrphanInv'
  <2>0. ASSUME NEW u \in Tasks, task[u] \in {"backoff", "reap"}, task[t] \in Running
        PROVE  u = t
    BY <2>0 DEF TaskInv, Running
  <2>1. CASE Launch(t)
    BY <2>0, <2>1 DEF Launch, Running
  <2>2. CASE Ready(t)
    BY <2>0, <2>2 DEF Ready, Running
  <2>3. CASE LaunchFails(t)
    <3>1. CASE MoreAttempts(t)
      BY <2>0, <2>3, <3>1 DEF LaunchFails, Running
    <3>2. CASE ~ MoreAttempts(t)
      BY <2>3, <3>2 DEF LaunchFails, GiveUp
    <3>. QED BY <3>1, <3>2
  <2>4. CASE Retry(t)
    BY <2>0, <2>4 DEF Retry, Running
  <2>5. CASE BudgetExhausted(t)
    BY <2>5 DEF BudgetExhausted, GiveUp
  <2>6. CASE Reap(t)
    BY <2>0, <2>6 DEF Reap, Running
  <2>7. CASE WaitForMemory(t)
    BY <2>0, <2>7 DEF WaitForMemory, Running
  <2>. QED BY <1>4, <2>1, <2>2, <2>3, <2>4, <2>5, <2>6, <2>7 DEF Respawn
<1>5. ASSUME NEW e \in Engines, Engine(e) \/ Crash(e) PROVE OrphanInv'
  <2>1. UNCHANGED <<task, manager>>
    BY <1>5 DEF Engine, IdleExit, Exit, Accept, Finish, RejectAdd, Crash
  <2>2. \A d \in Engines : eng'[d] = "orphan" => eng[d] = "orphan"
    BY <1>5 DEF Engine, IdleExit, Exit, Accept, Finish, RejectAdd, Crash
  <2>. QED BY <2>1, <2>2
<1>6. ASSUME NEW e \in Engines, Monitor(e) PROVE OrphanInv'
  <2>1. UNCHANGED <<task, manager>>
    BY <1>6 DEF Monitor, MonitorSees, MonitorJudges
  <2>2. \A d \in Engines : eng'[d] = "orphan" => eng[d] = "orphan"
    BY <1>6 DEF Monitor, MonitorSees, MonitorJudges
  <2>. QED BY <2>1, <2>2
<1>7. CASE UNCHANGED vars
  BY <1>7 DEF vars
<1>. QED BY <1>1, <1>2, <1>3, <1>4, <1>5, <1>6, <1>7 DEF Next

\* Only a launch starts a process, and the task that launches is the one that
\* runs.
LEMMA LaunchStep ==
  ASSUME TypeOK, [Next]_vars, \E e \in Engines : eng[e] = "none" /\ eng[e]' = "starting"
  PROVE  \E t \in Tasks : task[t] = "launch"
<1>. USE DeepSleepAssumption DEF TypeOK, Engines, Tasks, client, respawn, procs
<1>1. PICK e \in Engines : eng[e] = "none" /\ eng[e]' = "starting"
  OBVIOUS
<1>2. ASSUME NEW r \in Requests, AddRequest(r) \/ Coroutine(r) \/ Disconnect(r) PROVE FALSE
  BY <1>1, <1>2 DEF AddRequest, Coroutine, LeaveGate, SendAdd, Disconnect
<1>3. ASSUME Receive \/ UNCHANGED vars PROVE FALSE
  BY <1>1, <1>3 DEF Receive, vars
<1>4. ASSUME NEW t \in Tasks, Respawn(t) PROVE task[t] = "launch"
  BY <1>1, <1>4 DEF Respawn, Launch, Ready, LaunchFails, Retry, Reap, WaitForMemory,
                    BudgetExhausted
<1>5. ASSUME NEW d \in Engines, Engine(d) \/ Crash(d) PROVE FALSE
  BY <1>1, <1>5 DEF Engine, IdleExit, Exit, Accept, Finish, RejectAdd, Crash
<1>6. ASSUME NEW d \in Engines, Monitor(d) PROVE FALSE
  BY <1>1, <1>6 DEF Monitor, MonitorSees, MonitorJudges
<1>. QED BY <1>2, <1>3, <1>4, <1>5, <1>6 DEF Next

\* No unreachable process of a failed attempt holds memory when the next attempt
\* starts its own, unless an earlier respawn gave up and left it.
THEOREM RetriesReap == Spec => OrphansReaped
<1>1. Init => OrphanInv
  BY DeepSleepAssumption DEF Init, OrphanInv, Engines
<1>2. ASSUME TypeOK, TaskInv, OrphanInv, [Next]_vars
      PROVE  (\E e \in Engines : eng[e] = "none" /\ eng[e]' = "starting")
               => \A e \in Engines :
                    eng[e] = "orphan" => \E t \in Tasks : task[t] = "failed"
  <2>. SUFFICES ASSUME \E e \in Engines : eng[e] = "none" /\ eng[e]' = "starting",
                       NEW e \in Engines, eng[e] = "orphan"
                PROVE  GaveUp
    BY DEF GaveUp
  <2>1. PICK t \in Tasks : task[t] = "launch"
    BY <1>2, LaunchStep
  <2>2. \A u \in Tasks : task[u] \notin {"backoff", "reap"}
    BY <1>2, <2>1 DEF TaskInv, Running
  <2>. QED BY <1>2, <2>2 DEF OrphanInv
<1>. QED BY <1>1, <1>2, InitInv, TaskInvStep, OrphanInvStep, PTL DEF Spec, OrphansReaped

=============================================================================
