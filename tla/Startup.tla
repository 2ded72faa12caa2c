------------------------------ MODULE Startup -------------------------------
(***************************************************************************)
(* Start-up: MPClient launches engine-core processes (core_client.py),     *)
(* each shakes hands, builds its executor, sizes and allocates the KV      *)
(* cache, warms up and captures its graphs (core.py, gpu_worker.py, the    *)
(* model runner and the DFlash speculator), and the client serves once     *)
(* every engine has answered.                                              *)
(*                                                                         *)
(* A collective RPC returns when every worker has answered, so it is one   *)
(* step of its engine.  Engines, the client and the coordinator            *)
(* interleave, and a process may die between any two steps.  Memory is     *)
(* counted in KV-cache blocks, a block holds one token.                    *)
(***************************************************************************)
EXTENDS Integers, FiniteSets, FiniteSetsExt

CONSTANTS
  NumEngines,   \* data_parallel_size
  NumRanks,     \* tensor_parallel_size
  Setups,       \* configurations started
  Requested,    \* requested_memory of every worker
  FreeMemory,   \* possible values of init_snapshot.free_memory
  Usages,       \* possible values of profile_result.non_kv_cache_memory
  GraphSizes,   \* possible values of the CUDA graph memory estimate
  FullWorkspace,\* the largest workspace a run asks for
  ModelLen,     \* max_model_len as configured
  MaxFaults     \* bound: processes that die by themselves

Engines == 0..(NumEngines - 1)
Ranks == 0..(NumRanks - 1)

\* moe: a MoE model under data parallelism, with its group and coordinator
\* graphs: cudagraph_mode is not NONE; eager: enforce_eager
\* estimate: VLLM_MEMORY_PROFILER_ESTIMATE_CUDAGRAPHS
\* reserved: kv_cache_memory_bytes (0 is None); autofit: max_model_len is -1
\* dflash: the speculative method
\* prefill: gdn_prefill_backend ("none": the model has no GDN layers); qla: the
\* device and the model are what FlashQLA-SM75 was written for
ASSUME StartupAssumption ==
  /\ NumEngines \in Nat \ {0} /\ NumRanks \in Nat \ {0}
  /\ Setups \subseteq [moe : BOOLEAN, graphs : BOOLEAN, eager : BOOLEAN, estimate : BOOLEAN,
                       reserved : Nat, autofit : BOOLEAN, dflash : BOOLEAN,
                       prefill : {"none", "auto", "flashqla_sm75"}, qla : BOOLEAN]
  /\ Requested \in Nat /\ FreeMemory \subseteq Nat /\ Usages \subseteq Nat
  /\ GraphSizes \subseteq Nat
  /\ FullWorkspace \in Nat \ {0} /\ ModelLen \in Nat \ {0} /\ MaxFaults \in Nat

VARIABLES
  setup,   \* the configuration
  at,      \* per engine, where its start-up stands
  len,     \* per engine, its max_model_len
  worker,  \* per engine and rank, the worker and its model runner
  sent,    \* messages on their way, <<kind, engine>>
  client,  \* MPClient: its phase, the engines heard of and its vllm_config
  why,     \* per engine, why it died
  faults

vars == <<setup, at, len, worker, sent, client, why, faults>>

\* The steps of an engine in the order the code takes them
Path == <<"spawned", "hello", "connected", "grouped", "joined", "device", "loaded", "laidout",
          "profiled", "sized", "cached", "warm", "graphs", "drafted", "captured", "settled",
          "built", "threads", "ready", "serving">>
Alive(e) == at[e] # "dead"

\* A worker before init_device.  workspace is the size of the workspace, and
\* with it its address: it moves when it grows.  captured is the workspace
\* the CUDA graphs point into (0: no graphs).  width and draftWidth are the
\* lengths the block tables of the runner and of the drafter were made for.
NewWorker ==
  [len |-> ModelLen, layout |-> "unset", draft |-> "unset", reads |-> "unset",
   usage |-> 0, graph |-> 0, blocks |-> 0, width |-> 0, draftWidth |-> 0, workspace |-> 0,
   captured |-> 0, locked |-> FALSE, tuned |-> "no"]

Init ==
  /\ setup \in Setups
  /\ at = [e \in Engines |-> "spawned"]
  /\ len = [e \in Engines |-> ModelLen]
  /\ worker = [e \in Engines |-> [r \in Ranks |-> NewWorker]]
  /\ sent = {}
  /\ client = [phase |-> "launch", hello |-> {}, ready |-> {}, heard |-> {},
               len |-> ModelLen, blocks |-> 0]
  /\ why = [e \in Engines |-> "none"]
  /\ faults = 0

Goes(e, to) == at' = [at EXCEPT ![e] = to] /\ UNCHANGED <<setup, why, faults>>

\* An exception in EngineCoreProc.__init__: engine_core is still None, so no
\* ENGINE_CORE_DEAD is sent and the process ends
Raises(e, reason) ==
  /\ at' = [at EXCEPT ![e] = "dead"]
  /\ why' = [why EXCEPT ![e] = reason]
  /\ UNCHANGED <<setup, len, worker, sent, client, faults>>

-----------------------------------------------------------------------------
(* The handshake *)

\* startup_handshake registers with the front end
Hello(e) ==
  /\ at[e] = "spawned"
  /\ Goes(e, "hello")
  /\ sent' = sent \cup {<<"HELLO", e>>}
  /\ UNCHANGED <<len, worker, client>>

\* It receives the init message and adopts its parallel configuration
Connected(e) ==
  /\ at[e] = "hello" /\ <<"INIT", e>> \in sent
  /\ Goes(e, "connected")
  /\ sent' = sent \ {<<"INIT", e>>}
  /\ UNCHANGED <<len, worker, client>>

\* HANDSHAKE_TIMEOUT_MINS pass without one
HandshakeTimesOut(e) ==
  at[e] = "hello" /\ <<"INIT", e>> \notin sent /\ Raises(e, "no init message")

\* _init_data_parallel: the ranks of a MoE model meet in stateless_init_dp_group
MeetsGroup(e) ==
  setup.moe => \A o \in Engines : at[o] \notin {"spawned", "hello", "dead"}
InitDataParallel(e) ==
  /\ at[e] = "connected" /\ MeetsGroup(e)
  /\ Goes(e, "grouped")
  /\ UNCHANGED <<len, worker, sent, client>>

-----------------------------------------------------------------------------
(* The executor and its workers *)

\* init_worker_distributed_environment.  It comes before the memory snapshot,
\* so that the communicators' buffers are not taken for free memory; the
\* ranks of all engines of a MoE model form one world.
MeetsWorld(e) ==
  setup.moe => \A o \in Engines : at[o] \notin {"spawned", "hello", "connected", "dead"}
InitDistributed(e) ==
  /\ at[e] = "grouped" /\ MeetsWorld(e)
  /\ Goes(e, "joined")
  /\ UNCHANGED <<len, worker, sent, client>>

\* The rest of init_device: the snapshot, against which request_memory raises
\* when the device has too little free, and the model runner
InitDevice(e) ==
  /\ at[e] = "joined"
  /\ \/ /\ Goes(e, "device")
        /\ UNCHANGED <<len, worker, sent, client>>
     \/ /\ \E free \in FreeMemory : free < Requested
        /\ Raises(e, "memory")

\* load_model: the weights, then the drafter, whose attention layers hold a
\* copy of the cache configuration whose layout nobody has resolved yet
LoadModel(e) ==
  /\ at[e] = "device"
  /\ Goes(e, "loaded")
  /\ UNCHANGED <<len, worker, sent, client>>

\* Mutant: the layout is left for the allocation to find.
ResolveLayoutLate(e) ==
  /\ at[e] = "loaded"
  /\ Goes(e, "laidout")
  /\ UNCHANGED <<len, worker, sent, client>>

\* _initialize_kv_caches resolves the layout before the profiling, which may
\* allocate a small KV cache, and tells the workers
ResolveLayout(e) ==
  /\ at[e] = "loaded"
  /\ Goes(e, "laidout")
  /\ worker' = [worker EXCEPT ![e] = [r \in Ranks |-> [@[r] EXCEPT !.layout = "resolved"]]]
  /\ UNCHANGED <<len, sent, client>>

\* sync_attention_cache_layout at the top of initialize_kv_cache hands the
\* layout to the drafter's copies
Draft(w) == IF setup.dflash THEN w.layout ELSE w.draft

\* Mutant: the drafter keeps the block tables it was handed first.
SetAttnOnce(w) ==
  [w EXCEPT !.draftWidth = IF setup.dflash /\ @ = 0 THEN w.width ELSE @]

\* set_attn hands the drafter the block tables just made
SetAttn(w) == [w EXCEPT !.draftWidth = IF setup.dflash THEN w.width ELSE @]

\* What initialize_kv_cache records: the layout every attention layer reads,
\* and block tables as wide as the length the runner knows
Allocated(w) ==
  SetAttn([w EXCEPT !.draft = Draft(w), !.reads = w.layout, !.width = w.len])

\* A run asks for a workspace; it is moved when it has to grow
Grown(w, size) == [w EXCEPT !.workspace = Max({@, size})]
Demands == [Ranks -> 1..FullWorkspace]

\* _resolve_gdn_prefill_backend on the devices this repository is for
PrefillBackend ==
  IF setup.prefill = "flashqla_sm75" /\ setup.qla THEN "flashqla_sm75" ELSE "triton"

\* _warmup_prefill_kernels: the profiling run has no attention metadata, so a
\* GDN layer runs its prefill kernels on made-up tensors, to have them tuned
\* while there is memory.  A failure is only logged, but raised for FlashQLA.
WarmsUp == setup.prefill # "none"
Tuned(w, fails) == [w EXCEPT !.tuned = IF ~WarmsUp THEN @ ELSE IF fails THEN "failed" ELSE "yes"]

\* profile_run, and profile_cudagraph_memory with its own small KV cache.  (The
\* opt-in start-up plan of an earlier run, a file outside the model, is not
\* applied; it would turn the configuration into one with `reserved`.)
ProfilesGraphs == setup.reserved = 0 /\ setup.graphs
Profiled(w, usage, graph, size) ==
  LET ran == Grown([w EXCEPT !.usage = IF setup.reserved = 0 THEN usage ELSE @], size)
  IN  IF ProfilesGraphs THEN Allocated([ran EXCEPT !.graph = graph]) ELSE ran

Measures(e) ==
  \E usage \in [Ranks -> Usages], graph \in [Ranks -> GraphSizes], size \in Demands,
     fails \in SUBSET Ranks :
    LET after == [r \in Ranks |->
          Profiled(Tuned(worker[e][r], r \in fails), usage[r], graph[r], size[r])]
    IN  IF WarmsUp /\ PrefillBackend = "flashqla_sm75" /\ fails # {}
          THEN Raises(e, "kernel")
          ELSE IF ProfilesGraphs /\ \E r \in Ranks : after[r].reads = "unset"
          THEN Raises(e, "layout unresolved")
          ELSE /\ Goes(e, "profiled")
               /\ worker' = [worker EXCEPT ![e] = after]
               /\ UNCHANGED <<len, sent, client>>

\* determine_available_memory.  Its assertion fails when another process on a
\* device has freed memory since the snapshot.
Profile(e) ==
  /\ at[e] = "laidout"
  /\ \/ Measures(e)
     \/ setup.reserved = 0 /\ Raises(e, "others freed memory")

\* VLLM_MEMORY_PROFILER_ESTIMATE_CUDAGRAPHS opts in to counting the estimate
Estimate(w) == IF setup.estimate THEN w.graph ELSE 0

\* What determine_available_memory returns
Available(w) ==
  IF setup.reserved > 0 THEN setup.reserved ELSE Requested - w.usage - Estimate(w)

\* get_kv_cache_configs gives every worker the blocks the smallest one can
\* hold; a sequence of max_model_len must fit, or is shortened to fit
NumBlocks(e) == Min({Available(worker[e][r]) : r \in Ranks})
Fits(e) == NumBlocks(e) > 0 /\ (setup.autofit \/ NumBlocks(e) >= len[e])
FittedLen(e) == IF setup.autofit THEN Min({len[e], NumBlocks(e)}) ELSE len[e]

\* update_max_model_len, on every worker and its runner
UpdateMaxModelLen(e, w) == [w EXCEPT !.len = FittedLen(e)]

\* The rest of _initialize_kv_caches before the allocation.  A drafter that
\* has registered no attention layer of its own is refused.
Configure(e) ==
  /\ at[e] = "profiled"
  /\ \/ /\ Fits(e)
        /\ Goes(e, "sized")
        /\ len' = [len EXCEPT ![e] = FittedLen(e)]
        /\ worker' = [worker EXCEPT ![e] = [r \in Ranks |->
             UpdateMaxModelLen(e, [@[r] EXCEPT !.blocks = NumBlocks(e)])]]
        /\ UNCHANGED <<sent, client>>
     \/ ~Fits(e) /\ Raises(e, "memory")
     \/ Fits(e) /\ setup.dflash /\ Raises(e, "no draft layers")

\* initialize_from_config, and initialize_kv_cache under it
InitializeFromConfig(e) ==
  /\ at[e] = "sized"
  /\ LET after == [r \in Ranks |-> Allocated(worker[e][r])]
     IN  IF \E r \in Ranks : after[r].reads = "unset"
           THEN Raises(e, "layout unresolved")
           ELSE /\ Goes(e, "cached")
                /\ worker' = [worker EXCEPT ![e] = after]
                /\ UNCHANGED <<len, sent, client>>

-----------------------------------------------------------------------------
(* Warm-up and capture *)

\* compile_or_warm_up_model up to the capture: the dummy runs of the compile
\* sizes, kernel_warmup and warmup_kernels, whose batches are the largest.  The
\* KV cache is there now: kernels not yet tuned may run out of memory.
Warmed(w) == Grown(w, FullWorkspace)
WarmUp(e) ==
  /\ at[e] = "cached"
  /\ \/ /\ Goes(e, "warm")
        /\ worker' = [worker EXCEPT ![e] = [r \in Ranks |-> Warmed(@[r])]]
        /\ UNCHANGED <<len, sent, client>>
     \/ /\ WarmsUp /\ \E r \in Ranks : worker[e][r].tuned # "yes"
        /\ Raises(e, "tuning")

\* capture_model: the graphs of the model, then the drafter's, in the workspace
\* lane of the drafter, which for DFlash is the target's lane 0; then the lock
Captures == setup.graphs /\ ~setup.eager
Overruns(w, size) == w.locked /\ size > w.workspace

CaptureModel(e) ==
  /\ at[e] = "warm"
  /\ IF Captures
       THEN \E size \in Demands :
              /\ Goes(e, "graphs")
              /\ worker' = [worker EXCEPT ![e] = [r \in Ranks |->
                   LET ran == Grown(@[r], size[r])
                   IN  [ran EXCEPT !.captured = ran.workspace]]]
       ELSE Goes(e, "captured") /\ UNCHANGED worker
  /\ UNCHANGED <<len, sent, client>>

CaptureDraft(e) ==
  /\ at[e] = "graphs"
  /\ \E size \in Demands :
       worker' = [worker EXCEPT ![e] = [r \in Ranks |->
         [(IF setup.dflash THEN Grown(@[r], size[r]) ELSE @[r]) EXCEPT !.locked = TRUE]]]
  /\ Goes(e, "drafted")
  /\ UNCHANGED <<len, sent, client>>

\* The end of capture_model exercises DFlash's paths outside the graphs
DflashWarmUp(e) ==
  /\ at[e] = "drafted"
  /\ \/ /\ \E size \in Demands :
             setup.dflash /\ \E r \in Ranks : Overruns(worker[e][r], size[r])
        /\ Raises(e, "workspace locked")
     \/ Goes(e, "captured") /\ UNCHANGED <<len, worker, sent, client>>

\* The rest of compile_or_warm_up_model: seed, monitors and the frozen heap
FinishWarmUp(e) ==
  /\ at[e] = "captured"
  /\ Goes(e, "settled")
  /\ UNCHANGED <<len, worker, sent, client>>

\* The rest of EngineCore.__init__: scheduler, connector, queues, auto-sleep
Build(e) ==
  /\ at[e] = "settled"
  /\ Goes(e, "built")
  /\ UNCHANGED <<len, worker, sent, client>>

\* The input thread subscribes at the coordinator and sends the ready
\* response on the client's input socket, before the handshake's READY
StartThreads(e) ==
  /\ at[e] = "built"
  /\ Goes(e, "threads")
  /\ sent' = sent \cup {<<"response", e>>}
  /\ UNCHANGED <<len, worker, client>>

\* ready_event: without a coordinator at once, otherwise when the coordinator
\* has every engine's subscription
CoordinatorReady ==
  setup.moe => \A o \in Engines : at[o] \in {"threads", "ready", "serving"}
Ready(e) ==
  /\ at[e] = "threads" /\ CoordinatorReady
  /\ Goes(e, "ready")
  /\ sent' = sent \cup {<<"READY", e>>}
  /\ UNCHANGED <<len, worker, client>>

\* run_busy_loop
BeginServing(e) ==
  /\ at[e] = "ready"
  /\ Goes(e, "serving")
  /\ UNCHANGED <<len, worker, sent, client>>

\* execute_model on a serving engine
ServeStep(e) ==
  /\ at[e] = "serving" /\ client.phase = "up"
  /\ \E size \in Demands :
       IF \E r \in Ranks : Overruns(worker[e][r], size[r])
         THEN Raises(e, "workspace locked")
         ELSE /\ worker' = [worker EXCEPT ![e] = [r \in Ranks |-> Grown(@[r], size[r])]]
              /\ UNCHANGED <<setup, at, len, sent, client, why, faults>>

-----------------------------------------------------------------------------
(* The client *)

\* wait_for_engine_startup answers a HELLO
AnswerHello(e) ==
  /\ client.phase = "launch" /\ <<"HELLO", e>> \in sent
  /\ client' = [client EXCEPT !.hello = @ \cup {e}]
  /\ sent' = (sent \ {<<"HELLO", e>>}) \cup {<<"INIT", e>>}
  /\ UNCHANGED <<setup, at, len, worker, why, faults>>

\* It leaves when every engine has sent READY
NoteReady(e) ==
  /\ client.phase = "launch" /\ <<"READY", e>> \in sent
  /\ client' = [client EXCEPT !.ready = @ \cup {e},
                              !.phase = IF @ = "launch" /\ client.ready \cup {e} = Engines
                                          THEN "wait" ELSE @]
  /\ sent' = sent \ {<<"READY", e>>}
  /\ UNCHANGED <<setup, at, len, worker, why, faults>>

\* _apply_ready_response
Applied(c, e) ==
  [c EXCEPT !.len = Min({@, len[e]}), !.blocks = @ + worker[e][0].blocks]

\* MPClient.__init__ reads the ready responses, then starts the monitor
ReadResponse(e) ==
  /\ client.phase = "wait" /\ <<"response", e>> \in sent
  /\ LET heard == client.heard \cup {e}
     IN  client' = [Applied(client, e) EXCEPT
                      !.heard = heard, !.phase = IF heard = Engines THEN "up" ELSE @]
  /\ sent' = sent \ {<<"response", e>>}
  /\ UNCHANGED <<setup, at, len, worker, why, faults>>

\* An exception in __init__ runs the finalizer, which stops every engine:
\* a process died during the launch; VLLM_ENGINE_READY_TIMEOUT_S passed
ClientFails ==
  /\ client' = [client EXCEPT !.phase = "closing"]
  /\ UNCHANGED <<setup, at, len, worker, sent, why, faults>>
LaunchFails == client.phase = "launch" /\ (\E e \in Engines : ~Alive(e)) /\ ClientFails
ReadyTimesOut ==
  /\ client.phase = "wait" /\ ~\E e \in Engines : <<"response", e>> \in sent
  /\ ClientFails

\* Mutant: only the first process is watched.
MonitorSeesFirst == client.phase = "up" /\ ~Alive(0) /\ ClientFails

\* The monitor thread finds a process that ended
MonitorSees == client.phase = "up" /\ (\E e \in Engines : ~Alive(e)) /\ ClientFails

\* engine_manager.shutdown in the finalizer
Killed(e) ==
  /\ client.phase = "closing" /\ Alive(e)
  /\ at' = [at EXCEPT ![e] = "dead"]
  /\ why' = [why EXCEPT ![e] = "killed"]
  /\ UNCHANGED <<setup, len, worker, sent, client, faults>>

Closed ==
  /\ client.phase = "closing" /\ \A e \in Engines : ~Alive(e)
  /\ client' = [client EXCEPT !.phase = "failed"]
  /\ UNCHANGED <<setup, at, len, worker, sent, why, faults>>

-----------------------------------------------------------------------------
\* A process dies: out of memory, a bad driver, an operator.  Messages still
\* in its sockets may go with it.
Fault(e) ==
  /\ Alive(e) /\ faults < MaxFaults
  /\ at' = [at EXCEPT ![e] = "dead"]
  /\ why' = [why EXCEPT ![e] = "fault"]
  /\ faults' = faults + 1
  /\ \E lost \in SUBSET {m \in sent : m[2] = e /\ m[1] # "INIT"} : sent' = sent \ lost
  /\ UNCHANGED <<setup, len, worker, client>>

EngineStep(e) ==
  \/ Hello(e) \/ Connected(e) \/ InitDataParallel(e) \/ InitDistributed(e) \/ InitDevice(e)
  \/ LoadModel(e) \/ ResolveLayout(e) \/ Profile(e) \/ Configure(e) \/ InitializeFromConfig(e)
  \/ WarmUp(e) \/ CaptureModel(e) \/ CaptureDraft(e) \/ DflashWarmUp(e) \/ FinishWarmUp(e)
  \/ Build(e) \/ StartThreads(e) \/ Ready(e) \/ BeginServing(e)

ClientStep ==
  \/ \E e \in Engines : AnswerHello(e) \/ NoteReady(e) \/ ReadResponse(e) \/ Killed(e)
  \/ LaunchFails \/ ReadyTimesOut \/ MonitorSees \/ Closed

Next ==
  \/ \E e \in Engines : EngineStep(e) \/ ServeStep(e) \/ HandshakeTimesOut(e) \/ Fault(e)
  \/ ClientStep

Spec == Init /\ [][Next]_vars

\* Processes keep running, and the client's timeouts and monitor act
FairSpec == Spec /\ WF_vars(ClientStep) /\ \A e \in Engines : WF_vars(EngineStep(e))

-----------------------------------------------------------------------------
(* Properties *)

Workers == UNION {{worker[e][r] : r \in Ranks} : e \in Engines}
Served == {e \in Engines : at[e] \in {"built", "threads", "ready", "serving"}}

\* Type invariant: every engine, its workers, the messages and the client.
TypeOK ==
  /\ setup \in Setups
  /\ at \in [Engines -> {Path[i] : i \in DOMAIN Path} \cup {"dead"}]
  /\ \A e \in Engines :
       /\ len[e] \in 1..ModelLen
       /\ \A r \in Ranks :
            /\ worker[e][r].len \in 1..ModelLen
            /\ worker[e][r].blocks \in Nat
            /\ worker[e][r].workspace \in 0..FullWorkspace
  /\ sent \subseteq {"HELLO", "INIT", "READY", "response"} \X Engines
  /\ client.phase \in {"launch", "wait", "up", "closing", "failed"}
  /\ faults \in 0..MaxFaults

\* Once an engine is built, its scheduler and every worker work with the same
\* max_model_len, the block tables, those the drafter was handed too, are made
\* for sequences of that length, and one fits in the KV cache, although the
\* profiling allocated a cache for the length before it was fitted:
\* update_max_model_len, initialize_kv_cache (gpu_worker.py, model_runner.py).
LengthsAgree ==
  \A e \in Served : \A r \in Ranks :
    /\ worker[e][r].len = len[e]
    /\ worker[e][r].width = len[e]
    /\ setup.dflash => worker[e][r].draftWidth = len[e]
    /\ worker[e][r].blocks >= len[e]

\* No layer of the target or of the drafter ever works on a KV cache in a
\* layout of its own: sm75_fa2_graph.sync_attention_cache_layout.
LayoutsAgree ==
  \A e \in Served : \A r \in Ranks :
    /\ worker[e][r].reads = worker[e][r].layout
    /\ setup.dflash => worker[e][r].draft = worker[e][r].reads

\* A worker holds what it profiled, its KV cache and its graphs within
\* requested_memory, whichever of the workers had the least to spare, unless
\* kv_cache_memory_bytes or the disabled estimate told it not to count them.
WithinRequested ==
  setup.reserved = 0 /\ (setup.estimate \/ ~setup.graphs) =>
    \A e \in Served : \A r \in Ranks :
      worker[e][r].usage + worker[e][r].blocks + worker[e][r].graph <= Requested

\* The captured graphs never point at a workspace that was moved since:
\* compile_or_warm_up_model ("A workspace resize after capture frees what the
\* graphs point at").
GraphsPointAtWorkspace ==
  \A w \in Workers : w.captured > 0 => w.captured = w.workspace

\* An engine that dies was killed, met a fault, had too little memory or was
\* not answered, or a kernel failed on it: the start-up never trips over its own
\* order (a layout read before it is resolved, a locked workspace asked to
\* grow, kernels tuned only when the KV cache has taken the memory).
OnlyFaultsKill ==
  \A e \in Engines :
    /\ why[e] \notin {"layout unresolved", "workspace locked"}
    /\ why[e] = "tuning" => \E r \in Ranks : worker[e][r].tuned = "failed"

\* The KV-cache blocks of some engines, each named by its engine and number
BlocksOf(some) == UNION {{e} \X (1..worker[e][0].blocks) : e \in some}

\* A client that is up admits no request longer than any engine can hold,
\* and counts the blocks of every engine once: _apply_ready_response.
ClientKnows ==
  client.phase = "up" =>
    /\ client.len = Min({len[e] : e \in Engines})
    /\ client.blocks = Cardinality(BlocksOf(Engines))

\* What start-up hands over fits together: types (TypeOK), one sequence length
\* everywhere (LengthsAgree), one cache layout (LayoutsAgree), a client that knows
\* both (ClientKnows), memory within the request (WithinRequested) and graphs that
\* point at live memory (GraphsPointAtWorkspace).
BuiltSoundly ==
  /\ TypeOK
  /\ LengthsAgree /\ LayoutsAgree /\ ClientKnows
  /\ WithinRequested /\ GraphsPointAtWorkspace

\* A start-up ends: with every engine serving, or, whichever engine failed
\* and whoever waits for it, with every process gone and the client told.
StartupEnds ==
  <>[](\/ client.phase = "up" /\ \A e \in Engines : at[e] = "serving"
       \/ client.phase = "failed" /\ \A e \in Engines : ~Alive(e))
=============================================================================
