------------------------------ MODULE DPClient ------------------------------
(***************************************************************************)
(* DPLBAsyncMPClient (vllm/v1/engine/core_client.py): the client of one    *)
(* API server that balances requests over data-parallel engines, routes    *)
(* aborts, and scales the number of engines up and down (elastic EP).      *)
(*                                                                         *)
(* Its coroutines (requests, the stats task, the output task, a scaling    *)
(* under way) interleave at their awaits.  The engines are kept to what    *)
(* the client depends on: their input queues, the requests they hold, and  *)
(* reinitialize_distributed, commit_prepared_elastic_ep and the switch     *)
(* from core.py.  Waves are left to DPWaves.                               *)
(***************************************************************************)
EXTENDS Integers, Sequences, FiniteSets

CONSTANTS
  Requests,     \* each is sent at most once
  Named,        \* those that name their engine
  InitSize,     \* data_parallel_size at the start
  MaxSize,      \* elastic_ep_max_dp_size
  InitStart,    \* eng_start_index, as the requests served before left it
  Experts,      \* logical experts of the model
  InitExperts,  \* physical experts at the start
  MaxScalings,  \* bound: scalings prepared
  MaxFailures   \* bound: calls of a scaling that fail

ASSUME DPClientAssumption ==
  /\ IsFiniteSet(Requests)
  /\ InitSize \in Nat \ {0, 1} /\ MaxSize \in Nat /\ InitSize <= MaxSize
  /\ InitStart \in 0..(InitSize - 1)
  /\ Experts \in Nat \ {0} /\ InitExperts \in Nat /\ InitExperts >= Experts
  /\ InitExperts % InitSize = 0
  /\ MaxScalings \in Nat /\ MaxFailures \in Nat

Engines == 0..(MaxSize - 1)
None == MaxSize
Sizes == 1..MaxSize

VARIABLES
  core,      \* len(core_engines): the engines routed to are 0..core-1
  lb,        \* lb_engines: per engine, its waiting and running requests
  ranks,     \* len(engine_ranks_managed)
  start,     \* eng_start_index
  flight,    \* reqs_in_flight
  inflight,  \* engine_inflight
  req,       \* per request, what its caller has seen
  queue,     \* per engine, its input queue
  held,      \* per engine, the requests its scheduler holds
  eng,       \* per engine, its life, pause and eep_scaling_state
  outs,      \* finished_requests on the way to the client
  known,     \* engines the coordinator knows
  news,      \* the coordinator's last snapshot, not yet read
  marker,    \* SCALE_ELASTIC_EP markers on the way to the stats task
  scale,     \* the scaling under way, the engines that did not answer, what failed
  prepared,  \* _prepared_elastic_ep (0 is None)
  switched,  \* RECONFIGURE_FINISHED resolved the future awaited
  removing,  \* eep_scaling_cache: engines whose SHUTDOWN_COMPLETE is awaited
  experts,   \* num_experts + num_redundant_experts
  nScalings

vars == <<core, lb, ranks, start, flight, inflight, req, queue, held, eng, outs, known,
          news, marker, scale, prepared, switched, removing, experts, nScalings>>
routing == <<core, lb, ranks, start>>
engines == <<queue, held, eng>>
requests == <<flight, inflight, req, outs>>
scaling == <<scale, prepared, switched, removing, experts, nScalings>>
stats == <<known, news, marker>>

EngineState ==
  [life : {"none", "starting", "up", "gone"},
   paused : BOOLEAN,
   eep : {"none", "preparing", "ready", "committed"}]

\* Type invariant: the client's tables, the engines and the scaling under way.
TypeOK ==
  /\ core \in Sizes /\ ranks \in Sizes /\ known \in Sizes
  /\ lb \in Seq(Nat) /\ start \in Nat
  /\ flight \in [Requests -> Engines \cup {None}]
  /\ inflight \in [Engines -> 0..Cardinality(Requests)]
  /\ req \in [Requests -> {"new", "sent", "aborted", "ended"}]
  /\ held \in [Engines -> SUBSET Requests]
  /\ eng \in [Engines -> EngineState]
  /\ outs \subseteq Requests
  /\ scale.to \in Sizes
  /\ scale.pc \in {"none", "prepare", "pause", "commit", "switch", "resume"}
  /\ prepared \in {0} \cup Sizes
  /\ switched \in BOOLEAN
  /\ removing \subseteq Engines
  /\ nScalings \in 0..MaxScalings

-----------------------------------------------------------------------------
(* Requests.                                                               *)

\* get_core_engine_for_request: an engine's load is the snapshot's or, if
\* greater, this client's exact count.  KV caches are less than half full, so
\* waiting requests carry no penalty.
Load(e) == IF inflight[e] > lb[e + 1] THEN inflight[e] ELSE lb[e + 1]

Scan(i) == (start + i) % Len(lb)

\* The first engine with the least load, from eng_start_index on.
ChosenEngine ==
  LET places == 0..(Len(lb) - 1)
  IN  Scan(CHOOSE i \in places :
             \A j \in places : \/ Load(Scan(i)) < Load(Scan(j))
                               \/ Load(Scan(i)) = Load(Scan(j)) /\ i <= j)

Send(e, m) ==
  queue' = IF eng[e].life = "gone" THEN queue
           ELSE [queue EXCEPT ![e] = Append(@, m)]

SendEach(m) ==
  queue' = [e \in Engines |->
              IF eng[e].life = "gone" THEN queue[e] ELSE queue[e] \o m[e]]

OldEngines == 0..(core - 1)

\* add_request_async: to the engine with the least load, or to the one that the
\* request names (its data_parallel_rank, or a late interaction's).
ClientAdd(r) ==
  /\ req[r] = "new"
  /\ \E e \in Engines :
         /\ \/ /\ r \notin Named /\ e = ChosenEngine
               /\ lb' = [lb EXCEPT ![e + 1] = @ + 1]
               /\ start' = (start + 1) % Len(lb)
            \/ r \in Named /\ e \in OldEngines /\ UNCHANGED <<lb, start>>
         /\ req' = [req EXCEPT ![r] = "sent"]
         /\ flight' = [flight EXCEPT ![r] = e]
         /\ inflight' = [inflight EXCEPT ![e] = @ + 1]
         /\ Send(e, [type |-> "ADD", req |-> r])
  /\ UNCHANGED <<core, ranks, held, eng, outs, stats, scaling>>

\* abort_requests_async: to the engine the request was sent to, if it still runs
ClientAbort(r) ==
  /\ req[r] = "sent"
  /\ req' = [req EXCEPT ![r] = "aborted"]
  /\ IF flight[r] = None THEN UNCHANGED queue
     ELSE Send(flight[r], [type |-> "ABORT", req |-> r])
  /\ UNCHANGED <<routing, flight, inflight, held, eng, outs, stats, scaling>>

\* Mutant: every finished request is counted down, known or not.
OutputCountsTwice(r) ==
  /\ r \in outs
  /\ outs' = outs \ {r}
  /\ req' = [req EXCEPT ![r] = "ended"]
  /\ inflight' = [inflight EXCEPT ![flight[r]] = @ - 1]
  /\ UNCHANGED <<routing, flight, engines, stats, scaling>>

\* process_engine_outputs
ClientOutput(r) ==
  /\ r \in outs
  /\ outs' = outs \ {r}
  /\ req' = [req EXCEPT ![r] = "ended"]
  /\ flight' = [flight EXCEPT ![r] = None]
  /\ inflight' = IF flight[r] = None THEN inflight
                 ELSE [inflight EXCEPT ![flight[r]] = @ - 1]
  /\ UNCHANGED <<routing, engines, stats, scaling>>

-----------------------------------------------------------------------------
(* The stats task and the coordinator.                                     *)

\* _maybe_publish_request_counts: what every engine last told the coordinator
RequestCounts == [i \in 1..known |-> Cardinality(held[i - 1])]

Publish ==
  /\ news = <<>>
  /\ RequestCounts # lb /\ news' = RequestCounts
  /\ UNCHANGED <<routing, requests, engines, known, marker, scaling>>

\* The snapshot is global; only the engines managed count.
ReadSnapshot ==
  /\ news # <<>>
  /\ lb' = SubSeq(news, 1, IF ranks < Len(news) THEN ranks ELSE Len(news))
  /\ news' = <<>>
  /\ UNCHANGED <<core, ranks, start, requests, engines, known, marker, scaling>>

ReadMarker ==
  /\ marker # <<>>
  /\ LET n == Head(marker)
     IN  /\ ranks' = n
         /\ lb' = [i \in 1..n |-> IF i <= Len(lb) THEN lb[i] ELSE 0]
         /\ known' = n
  /\ marker' = Tail(marker)
  /\ UNCHANGED <<core, start, requests, engines, news, scaling>>

-----------------------------------------------------------------------------
(* Scaling: prepare_elastic_ep and commit_elastic_ep.                      *)

\* num_physical_experts * new_data_parallel_size // cur_data_parallel_size
NewExperts(n) == (experts * n) \div core

Added(n) == core..(n - 1)
Kept(n) == 0..((IF n < core THEN n ELSE core) - 1)
Removed(n) == n..(core - 1)
Up(n) == n > core

ToEach(S, m) == [e \in Engines |-> IF e \in S THEN <<m>> ELSE <<>>]

PrepareTo(n) ==
  /\ scale.pc = "none" /\ prepared = 0
  /\ nScalings < MaxScalings /\ nScalings' = nScalings + 1
  /\ n # core /\ NewExperts(n) >= Experts
  /\ marker = <<>> /\ removing = {}   \* the scaling before is over
  /\ SendEach(ToEach(Kept(n), [type |-> "REINIT"]))
  /\ eng' = [e \in Engines |->
               IF e \in Added(n) THEN [life |-> "starting", paused |-> FALSE, eep |-> "preparing"]
               ELSE eng[e]]
  /\ scale' = [pc |-> "prepare", to |-> n, wait |-> {}, failed |-> {},
                experts |-> NewExperts(n)]
  /\ UNCHANGED <<routing, requests, held, stats, prepared, switched, removing, experts>>

\* prepare_elastic_ep with _prepare_scale_up_elastic_ep and
\* _prepare_scale_down_elastic_ep: the engines that stay prepare the switch,
\* new ones start; no request goes to them.
Prepare(n) == n <= MaxSize /\ PrepareTo(n)

Prepared ==
  /\ scale.pc = "prepare" /\ scale.failed = {}
  /\ \A e \in Kept(scale.to) \cup Added(scale.to) : eng[e].eep = "ready"
  /\ prepared' = scale.to
  /\ scale' = [scale EXCEPT !.pc = "none"]
  /\ UNCHANGED <<routing, requests, engines, stats, switched, removing, experts, nScalings>>

Fails(e) ==
  /\ Cardinality(scale.failed) < MaxFailures
  /\ scale' = [scale EXCEPT !.failed = @ \cup {e}]

\* prepare_elastic_ep raises, its new engines not started or their ready keys not
\* there in time: nothing is prepared, and requests go on.
PrepareFails ==
  /\ scale.pc = "prepare" /\ Fails(None)
  /\ UNCHANGED <<routing, requests, engines, stats, prepared, switched, removing,
                 experts, nScalings>>

\* Mutant: snapshots still count the engines that are removed.
SurvivingRanksKept == ranks

SurvivingRanks == prepared

\* commit_elastic_ep up to the pause: all engines keep their requests, except
\* that the ones removed abort theirs.  Routing to those stops at once.
Commit ==
  /\ scale.pc = "none" /\ prepared # 0
  /\ scale' = [scale EXCEPT !.pc = "pause", !.wait = OldEngines]
  /\ SendEach([e \in Engines |->
       IF e \notin OldEngines THEN <<>>
       ELSE <<[type |-> "PAUSE",
               mode |-> IF e \in Removed(prepared) THEN "abort" ELSE "keep"]>>])
  /\ IF Up(prepared) THEN UNCHANGED <<core, lb, ranks, removing>>
     ELSE /\ core' = prepared
          /\ lb' = SubSeq(lb, 1, IF prepared < Len(lb) THEN prepared ELSE Len(lb))
          /\ ranks' = SurvivingRanks
          /\ removing' = Removed(prepared)
  /\ switched' = FALSE
  /\ UNCHANGED <<start, requests, held, eng, stats, prepared, experts, nScalings>>

\* All have paused: the ones that stay are told to switch, the others to leave.
CommitSwitch ==
  /\ scale.pc = "pause" /\ scale.wait = {}
  /\ SendEach([e \in Engines |->
       IF e \in removing THEN <<[type |-> "LEAVE"]>>
       ELSE IF e \in OldEngines THEN <<[type |-> "COMMIT"]>> ELSE <<>>])
  /\ scale' = [scale EXCEPT !.pc = "commit", !.wait = OldEngines \cup removing]
  /\ UNCHANGED <<routing, requests, held, eng, stats, prepared, switched, removing,
                 experts, nScalings>>

\* All have answered.  A scale down tells the stats task its size already.
CommitAnswered ==
  /\ scale.pc = "commit" /\ scale.wait = {}
  /\ marker' = IF Up(scale.to) THEN marker ELSE Append(marker, scale.to)
  /\ scale' = [scale EXCEPT !.pc = "switch"]
  /\ UNCHANGED <<routing, requests, engines, known, news, prepared, switched, removing,
                 experts, nScalings>>

ResumeAll ==
  /\ core' = scale.to
  /\ marker' = IF Up(scale.to) THEN Append(marker, scale.to) ELSE marker
  /\ SendEach(ToEach(0..(scale.to - 1), [type |-> "RESUME"]))
  /\ scale' = [scale EXCEPT !.pc = "resume", !.wait = 0..(scale.to - 1)]
  /\ UNCHANGED <<lb, ranks, start, requests, held, eng, known, news, prepared, switched,
                 removing, experts, nScalings>>

\* Mutant: only a scale up resumes the engines.
CommitResumeUpOnly ==
  /\ scale.pc = "switch" /\ switched /\ scale.failed = {}
  /\ \/ Up(scale.to) /\ ResumeAll
     \/ /\ ~ Up(scale.to)
        /\ scale' = [scale EXCEPT !.pc = "resume"]
        /\ UNCHANGED <<routing, requests, engines, stats, prepared, switched, removing,
                       experts, nScalings>>

\* RECONFIGURE_FINISHED has come and the new engines are ready: route to them
\* and resume everywhere.
CommitResume == scale.pc = "switch" /\ switched /\ scale.failed = {} /\ ResumeAll

\* _wait_for_new_engine_ready times out: commit_elastic_ep raises, the engines
\* stay paused and the preparation stays, so no other scaling can begin.
CommitFails ==
  /\ scale.pc = "switch" /\ Up(scale.to) /\ Fails(None)
  /\ UNCHANGED <<routing, requests, engines, stats, prepared, switched, removing,
                 experts, nScalings>>

CommitDone ==
  /\ scale.pc = "resume" /\ scale.wait = {}
  /\ experts' = scale.experts
  /\ prepared' = 0
  /\ scale' = [scale EXCEPT !.pc = "none"]
  /\ UNCHANGED <<routing, requests, engines, stats, switched, removing, nScalings>>

-----------------------------------------------------------------------------
(* The engines.                                                            *)

Answered(e) == scale' = [scale EXCEPT !.wait = @ \ {e}]

\* An engine answers a call of the scaling with an exception.  The client's
\* gather raises and nothing follows; the other engines still do as they were
\* told.
CallFails(e) ==
  /\ queue[e] # <<>> /\ eng[e].life = "up"
  /\ Head(queue[e]).type \notin {"ADD", "ABORT"}
  /\ queue' = [queue EXCEPT ![e] = Tail(@)]
  /\ Fails(e)
  /\ UNCHANGED <<routing, requests, held, eng, stats, prepared, switched, removing,
                 experts, nScalings>>

\* pause_scheduler: what it finishes; _send_abort_outputs tells the client.
AbortedByPause(e, mode) == IF mode = "abort" THEN held[e] ELSE {}

\* _handle_client_request
Receive(e) ==
  /\ queue[e] # <<>> /\ eng[e].life = "up"
  /\ queue' = [queue EXCEPT ![e] = Tail(@)]
  /\ LET m == Head(queue[e])
         aborted == AbortedByPause(e, m.mode)
     IN  \/ /\ m.type = "ADD"
            /\ held' = [held EXCEPT ![e] = @ \cup {m.req}]
            /\ UNCHANGED <<eng, outs, scale>>
         \/ /\ m.type = "ABORT"
            /\ held' = [held EXCEPT ![e] = @ \ {m.req}]
            /\ outs' = outs \cup (held[e] \cap {m.req})
            /\ UNCHANGED <<eng, scale>>
         \/ /\ m.type = "PAUSE"
            /\ held' = [held EXCEPT ![e] = @ \ aborted]
            /\ outs' = outs \cup aborted
            /\ eng' = [eng EXCEPT ![e].paused = TRUE]
            /\ Answered(e)
         \/ /\ m.type = "RESUME"
            /\ eng' = [eng EXCEPT ![e].paused = FALSE]
            /\ Answered(e) /\ UNCHANGED <<held, outs>>
         \/ /\ m.type = "REINIT" /\ eng[e].eep = "none"
            /\ eng' = [eng EXCEPT ![e].eep = "preparing"]
            /\ UNCHANGED <<held, outs, scale>>
         \/ /\ m.type = "COMMIT" /\ eng[e].eep = "ready"
            /\ eng' = [eng EXCEPT ![e].eep = "committed"]
            /\ Answered(e) /\ UNCHANGED <<held, outs>>
         \/ /\ m.type = "LEAVE" /\ eng[e].eep = "none"
            /\ eng' = [eng EXCEPT ![e].eep = "committed"]
            /\ Answered(e) /\ UNCHANGED <<held, outs>>
  /\ UNCHANGED <<routing, flight, inflight, req, stats, prepared, switched, removing,
                 experts, nScalings>>

\* A request runs to its end; a paused engine schedules nothing.
Finish(e, r) ==
  /\ r \in held[e] /\ ~ eng[e].paused /\ eng[e].life = "up"
  /\ held' = [held EXCEPT ![e] = @ \ {r}]
  /\ outs' = outs \cup {r}
  /\ UNCHANGED <<routing, flight, inflight, req, queue, eng, stats, scaling>>

\* ElasticEPScalingState.progress: the new groups are formed once all who will
\* be in them take part, and each stores its eep_ready.
Progress ==
  /\ scale.pc = "prepare"
  /\ \A e \in 0..(scale.to - 1) : eng[e].eep = "preparing"
  /\ eng' = [e \in Engines |->
       IF e < scale.to THEN [eng[e] EXCEPT !.eep = "ready"] ELSE eng[e]]
  /\ UNCHANGED <<routing, requests, queue, held, stats, scaling>>

Members == {e \in Engines : eng[e].life \in {"starting", "up"}}

\* The switch, once all take part; engine 0 sends RECONFIGURE_FINISHED.
Switch ==
  /\ ~ switched
  /\ \A e \in Members :
       eng[e].eep = IF eng[e].life = "starting" THEN "ready" ELSE "committed"
  /\ eng' = [e \in Engines |->
       IF e \in Members \ removing
       THEN [life |-> "up", paused |-> eng[e].paused, eep |-> "none"] ELSE eng[e]]
  /\ switched' = TRUE
  /\ UNCHANGED <<routing, requests, queue, held, stats, scale, prepared, removing,
                 experts, nScalings>>

\* A removed engine sends SHUTDOWN_COMPLETE and exits; after the last one the
\* client gives their resources back.
Leave(e) ==
  /\ switched /\ e \in removing /\ eng[e].life = "up"
  /\ eng' = [eng EXCEPT ![e].life = "gone", ![e].eep = "none"]
  /\ queue' = [queue EXCEPT ![e] = <<>>]
  /\ held' = [held EXCEPT ![e] = {}]
  /\ removing' = removing \ {e}
  /\ UNCHANGED <<routing, requests, stats, scale, prepared, switched, experts, nScalings>>

-----------------------------------------------------------------------------
\* DPAsyncMPClient.__init__: no engine has requests, no marker is on its way
InitStats ==
  /\ core = InitSize /\ ranks = InitSize /\ known = InitSize
  /\ lb = [i \in 1..InitSize |-> 0]
  /\ news = <<>> /\ marker = <<>>
  /\ removing = {}

Init ==
  /\ InitStats
  /\ start = InitStart
  /\ flight = [r \in Requests |-> None]
  /\ inflight = [e \in Engines |-> 0]
  /\ req = [r \in Requests |-> "new"]
  /\ queue = [e \in Engines |-> <<>>]
  /\ held = [e \in Engines |-> {}]
  /\ eng = [e \in Engines |->
       [life |-> IF e < InitSize THEN "up" ELSE "none", paused |-> FALSE, eep |-> "none"]]
  /\ outs = {}
  /\ scale = [pc |-> "none", to |-> InitSize, wait |-> {}, failed |-> {},
              experts |-> InitExperts]
  /\ prepared = 0 /\ switched = TRUE
  /\ experts = InitExperts /\ nScalings = 0

Caller == \E r \in Requests : ClientAdd(r) \/ ClientAbort(r)
Operator == Commit \/ \E n \in 1..(MaxSize + 1) : Prepare(n)
OutputTask == \E r \in Requests : ClientOutput(r)
Scaling ==
  \/ Prepared \/ CommitSwitch \/ CommitAnswered \/ CommitResume \/ CommitDone
Engine(e) == Receive(e) \/ Leave(e) \/ \E r \in Requests : Finish(e, r)

\* Everything has been asked for and answered.
AtRest ==
  /\ \A r \in Requests : req[r] = "ended"
  /\ scale.pc = "none" \/ scale.failed # {}
  /\ UNCHANGED vars

Next ==
  \/ Caller \/ Operator \/ OutputTask \/ ReadSnapshot \/ ReadMarker
  \/ Scaling \/ PrepareFails \/ CommitFails \/ Publish \/ Progress \/ Switch \/ AtRest
  \/ \E e \in Engines : Engine(e) \/ CallFails(e)

\* Coroutines and engine loops run on; callers and operator need not, and no
\* call need fail.
Fairness ==
  /\ WF_vars(OutputTask) /\ WF_vars(ReadSnapshot) /\ WF_vars(ReadMarker)
  /\ WF_vars(Scaling) /\ WF_vars(Progress) /\ WF_vars(Switch)
  /\ \A e \in Engines : WF_vars(Engine(e))

Spec == Init /\ [][Next]_vars /\ Fairness

-----------------------------------------------------------------------------
(* Properties.                                                             *)

\* engine_inflight ("exact per-engine count") is the number of requests sent to
\* an engine and not seen to end, whatever aborts, duplicates and removed
\* engines do; and each such request is somewhere on its way to that end.
InflightExact ==
  /\ \A e \in Engines : inflight[e] = Cardinality({r \in Requests : flight[r] = e})
  /\ \A r \in Requests : flight[r] # None =>
       \/ r \in outs \cup held[flight[r]]
       \/ \E i \in DOMAIN queue[flight[r]] :
            queue[flight[r]][i].type = "ADD" /\ queue[flight[r]][i].req = r

\* get_core_engine_for_request indexes core_engines with a position of
\* lb_engines: whatever snapshot the stats task read last, and whatever
\* scaling is under way or has failed, that is an engine that serves and is not
\* leaving; and so is every engine that a request may name.
RoutesToServing ==
  /\ Len(lb) \in 1..core
  /\ eng[ChosenEngine].life = "up" /\ ChosenEngine \notin removing
  /\ \A e \in OldEngines : eng[e].life = "up" /\ e \notin removing

\* "Scaling keeps physical experts per engine fixed".
ExpertsPerEngineFixed ==
  scale.pc = "none" => experts * InitSize = InitExperts * core

\* Engines run requests only in the setup their peers run: while one engine
\* has switched and resumed, none of the others is still to switch.
ResumedAfterSwitch ==
  \A e \in Engines : eng[e].eep = "committed" /\ e \notin removing => eng[e].paused

\* Elastic scaling changes clients and engines together: states have their types
\* (TypeOK), requests are routed to engines that serve (RoutesToServing), the
\* experts follow the engines (ExpertsPerEngineFixed) and no engine resumes before
\* its peers switched (ResumedAfterSwitch): scale_elastic_ep.
ScalesTogether ==
  TypeOK /\ RoutesToServing /\ ExpertsPerEngineFixed /\ ResumedAfterSwitch

CommitFailed == scale.pc # "prepare" /\ scale.failed # {}

\* A request handed to the client ends, scalings notwithstanding, unless a
\* commit failed and left engines paused; a failed preparation harms none.  (Each
\* request is sent once and stays ended, so that it ends is that it has ended
\* from some time on.)
EveryRequestEnds ==
  <>[](CommitFailed \/ \A r \in Requests : req[r] \in {"new", "ended"})
=============================================================================
