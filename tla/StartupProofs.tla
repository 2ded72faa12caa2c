--------------------------- MODULE StartupProofs ----------------------------
(***************************************************************************)
(* Proofs about Startup: for every number of engines and ranks, every      *)
(* memory size and every configuration, what start-up hands over fits      *)
(* together (BuiltSoundly), and no engine dies of the order of its own     *)
(* start-up (OnlyFaultsKill).                                              *)
(*                                                                         *)
(* Both speak of an engine at the end of its path.  The inductive          *)
(* invariant SInv says what each stage of the path has settled: a worker's *)
(* record is followed from the stage that writes a field to the last one   *)
(* that reads it (WorkerInv), and the client's sums range over the engines *)
(* it has heard so far, none of which changes any more (ClientInv).        *)
(***************************************************************************)
EXTENDS Startup, FiniteSetTheorems, NaturalsInduction, WellFoundedInduction, TLAPS

-----------------------------------------------------------------------------
(* The inductive invariant.                                                *)

\* The stages from which on a fact is settled
FromThreads == {"threads", "ready", "serving"}
FromWarm == {"warm", "graphs", "drafted", "captured", "settled", "built"} \cup FromThreads
FromCached == {"cached"} \cup FromWarm
FromSized == {"sized"} \cup FromCached
FromProfiled == {"profiled"} \cup FromSized
FromLaidout == {"laidout"} \cup FromProfiled
Stages == {"spawned", "hello", "connected", "grouped", "joined", "device", "loaded"}
            \cup FromLaidout
Kinds == {"HELLO", "INIT", "READY", "response"}
Layouts == {"unset", "resolved"}
Reasons == {"none", "no init message", "memory", "kernel", "layout unresolved", "tuning",
            "others freed memory", "no draft layers", "workspace locked", "killed", "fault"}

Worker ==
  [len : 1..ModelLen, layout : Layouts, draft : Layouts, reads : Layouts,
   usage : Nat, graph : Nat, blocks : Nat, width : 0..ModelLen, draftWidth : 0..ModelLen,
   workspace : 0..FullWorkspace, captured : 0..FullWorkspace, locked : BOOLEAN,
   tuned : {"no", "yes", "failed"}]

\* What every variable ranges over.
Typed ==
  /\ setup \in Setups
  /\ at \in [Engines -> Stages \cup {"dead"}]
  /\ len \in [Engines -> 1..ModelLen]
  /\ worker \in [Engines -> [Ranks -> Worker]]
  /\ sent \subseteq Kinds \X Engines
  /\ client \in [phase : {"launch", "wait", "up", "closing", "failed"},
                 hello : SUBSET Engines, ready : SUBSET Engines, heard : SUBSET Engines,
                 len : 1..ModelLen, blocks : Nat]
  /\ why \in [Engines -> Reasons]
  /\ faults \in 0..MaxFaults

\* A worker w whose engine is at stage s and has fitted its length to l:
\* the layout is resolved before anything is allocated, the kernels are tuned
\* before the KV cache is, the length and the blocks are fitted before the block
\* tables are made, and a workspace that graphs point into, or that is
\* locked, is as large as any run asks for.
WorkerInv(w, s, l) ==
  /\ s \in FromLaidout => w.layout = "resolved"
  /\ s \in FromProfiled /\ WarmsUp => w.tuned # "no"
  /\ s \in FromSized => w.len = l /\ w.blocks >= l /\ w.blocks <= Available(w)
  /\ s \in FromCached =>
       /\ w.reads = w.layout /\ w.width = l
       /\ setup.dflash => w.draft = w.layout /\ w.draftWidth = l
  /\ s \in FromWarm => w.workspace = FullWorkspace
  /\ w.captured > 0 => w.captured = w.workspace /\ w.workspace = FullWorkspace
  /\ w.locked => w.workspace = FullWorkspace
  /\ ~setup.graphs => w.graph = 0

WorkersInv == \A e \in Engines : \A r \in Ranks : WorkerInv(worker[e][r], at[e], len[e])

\* An engine's ready response leaves it when it is built and is read once; the
\* client has the least length and all the blocks of those it has read.
ClientInv ==
  /\ \A e \in Engines :
       /\ <<"response", e>> \in sent => e \notin client.heard /\ at[e] \in FromThreads \cup {"dead"}
       /\ e \in client.heard => client.len <= len[e] /\ at[e] \in FromThreads \cup {"dead"}
  /\ client.len = ModelLen \/ \E e \in client.heard : client.len = len[e]
  /\ IsFiniteSet(BlocksOf(client.heard))
  /\ client.blocks = Cardinality(BlocksOf(client.heard))
  /\ client.phase = "up" => client.heard = Engines

\* An engine that has a reason to have died is dead.
DeadInv == \A e \in Engines : why[e] # "none" => at[e] = "dead"

SInv == Typed /\ WorkersInv /\ ClientInv /\ DeadInv /\ OnlyFaultsKill

-----------------------------------------------------------------------------
(* Lemmas on minima.                                                       *)

\* A non-empty set of natural numbers has a least element.
LEMMA LeastNat ==
  ASSUME NEW S \in SUBSET Nat, S # {}
  PROVE  \E x \in S : \A y \in S : x <= y
<1>. DEFINE R == OpToRel(<, Nat)
<1>1. IsWellFoundedOn(R, Nat)
  BY NatLessThanWellFounded
<1>2. PICK x \in S : \A y \in S : ~ (<<y, x>> \in R)
  <2>. HIDE DEF R
  <2>. QED BY <1>1, WFMin
<1>3. ASSUME NEW y \in S PROVE x <= y
  <2>1. <<y, x>> \in R <=> y < x
    BY DEF OpToRel
  <2>2. x \in Nat /\ y \in Nat
    OBVIOUS
  <2>. HIDE DEF R
  <2>3. ~ (y < x)
    BY <2>1, <1>2
  <2>. QED BY <2>2, <2>3
<1>. QED BY <1>3

\* Finitely many integers have a least one: the first place at which a
\* prefix has none would be one past a prefix that has one.
LEMMA LeastOfRanks ==
  ASSUME NEW n \in Nat \ {0}, NEW f, \A r \in 0..(n - 1) : f[r] \in Int
  PROVE  \E r \in 0..(n - 1) : \A q \in 0..(n - 1) : f[r] <= f[q]
<1>. DEFINE Has(k) == \E r \in 0..(k - 1) : \A q \in 0..(k - 1) : f[r] <= f[q]
            Bad == {k \in 1..n : ~Has(k)}
<1>1. SUFFICES Bad = {}
  <2>1. n \in 1..n
    OBVIOUS
  <2>. QED BY <1>1, <2>1
<1>2. SUFFICES ASSUME Bad # {} PROVE FALSE
  OBVIOUS
<1>3. PICK k \in Bad : \A j \in Bad : k <= j
  <2>1. Bad \in SUBSET Nat
    OBVIOUS
  <2>. HIDE DEF Bad
  <2>. QED BY <1>2, <2>1, LeastNat
<1>4. k # 1
  <2>1. f[0] \in Int
    OBVIOUS
  <2>2. Has(1)
    BY <2>1
  <2>. QED BY <2>2
<1>5. k - 1 \in 1..n /\ k - 1 \notin Bad
  <2>1. k \in 1..n
    OBVIOUS
  <2>2. k - 1 \in 1..n
    BY <2>1, <1>4
  <2>3. ~(k <= k - 1)
    BY <2>1
  <2>. HIDE DEF Bad
  <2>. QED BY <1>3, <2>2, <2>3
<1>6. PICK r \in 0..(k - 2) : \A q \in 0..(k - 2) : f[r] <= f[q]
  BY <1>5
<1>7. f[r] \in Int /\ f[k - 1] \in Int
  BY <1>6
<1>8. CASE f[r] <= f[k - 1]
  <2>1. \A q \in 0..(k - 1) : f[r] <= f[q]
    BY <1>6, <1>8
  <2>. QED BY <2>1
<1>9. CASE f[k - 1] < f[r]
  <2>1. \A q \in 0..(k - 1) : f[k - 1] <= f[q]
    <3>1. ASSUME NEW q \in 0..(k - 2) PROVE f[k - 1] <= f[q]
      <4>1. f[r] <= f[q] /\ f[q] \in Int
        BY <1>6
      <4>. QED BY <4>1, <1>7, <1>9
    <3>2. f[k - 1] <= f[k - 1]
      BY <1>7
    <3>. QED BY <3>1, <3>2
  <2>2. k - 1 \in 0..(k - 1)
    OBVIOUS
  <2>. QED BY <2>1, <2>2
<1>. QED BY <1>7, <1>8, <1>9

\* Min of a set that has a least integer.
LEMMA MinIs ==
  ASSUME NEW S \in SUBSET Int, NEW x \in S, \A y \in S : x <= y
  PROVE  Min(S) = x
<1>1. \A z \in S : (\A y \in S : z <= y) => z = x
  <2>1. ASSUME NEW z \in S, \A y \in S : z <= y PROVE z = x
    <3>1. z <= x /\ x <= z /\ z \in Int /\ x \in Int
      BY <2>1
    <3>. QED BY <3>1
  <2>. QED BY <2>1
<1>. QED BY <1>1 DEF Min

\* Min and Max of two numbers.
LEMMA MinOfTwo ==
  ASSUME NEW a \in Int, NEW b \in Int
  PROVE  Min({a, b}) = IF a <= b THEN a ELSE b
<1>1. CASE a <= b
  BY <1>1, MinIs
<1>2. CASE ~(a <= b)
  <2>1. Min({a, b}) = b
    BY <1>2, MinIs
  <2>. QED BY <1>2, <2>1
<1>. QED BY <1>1, <1>2

LEMMA MaxOfTwo ==
  ASSUME NEW a \in Int, NEW b \in Int
  PROVE  Max({a, b}) = IF a >= b THEN a ELSE b
<1>1. CASE a >= b
  <2>1. \A z \in {a, b} : (\A y \in {a, b} : z >= y) => z = a
    BY <1>1
  <2>. QED BY <1>1, <2>1 DEF Max
<1>2. CASE ~(a >= b)
  <2>1. \A z \in {a, b} : (\A y \in {a, b} : z >= y) => z = b
    BY <1>2
  <2>2. \A y \in {a, b} : b >= y
    BY <1>2
  <2>. QED BY <1>2, <2>1, <2>2 DEF Max
<1>. QED BY <1>1, <1>2

-----------------------------------------------------------------------------
(* Lemmas on a worker.                                                     *)

\* A run only makes the workspace grow, at most to the full size.
LEMMA GrownFacts ==
  ASSUME StartupAssumption, NEW w \in Worker, NEW size \in 1..FullWorkspace
  PROVE  LET g == Grown(w, size)
         IN  /\ g \in Worker
             /\ g = [w EXCEPT !.workspace = g.workspace]
             /\ g.workspace >= w.workspace /\ g.workspace >= size
             /\ size = FullWorkspace \/ w.workspace = FullWorkspace => g.workspace = FullWorkspace
<1>. DEFINE new == Max({w.workspace, size})
<1>1. w.workspace \in 0..FullWorkspace /\ w.workspace \in Int /\ size \in Int /\ FullWorkspace \in Int
  BY DEF StartupAssumption, Worker
<1>2. new = IF w.workspace >= size THEN w.workspace ELSE size
  BY <1>1, MaxOfTwo
<1>3. new \in 0..FullWorkspace /\ new >= w.workspace /\ new >= size
        /\ (size = FullWorkspace \/ w.workspace = FullWorkspace => new = FullWorkspace)
  BY <1>1, <1>2
<1>. HIDE DEF new
<1>4. Grown(w, size) = [w EXCEPT !.workspace = new]
  BY DEF Grown, new
<1>. QED BY <1>3, <1>4 DEF Worker

\* The blocks an engine takes are those of its poorest worker.
LEMMA NumBlocksFacts ==
  ASSUME StartupAssumption, setup \in Setups, NEW e \in Engines,
         worker \in [Engines -> [Ranks -> Worker]]
  PROVE  /\ NumBlocks(e) \in Int
         /\ \A r \in Ranks : NumBlocks(e) <= Available(worker[e][r])
<1>. DEFINE f == [r \in Ranks |-> Available(worker[e][r])]
<1>1. \A r \in Ranks : Available(worker[e][r]) \in Int
  <2>1. TAKE r \in Ranks
  <2>2. worker[e][r] \in Worker /\ worker[e][r].usage \in Nat /\ worker[e][r].graph \in Nat
    BY DEF Worker
  <2>3. setup.reserved \in Nat /\ Requested \in Nat
    BY DEF StartupAssumption
  <2>4. Estimate(worker[e][r]) \in Nat
    BY <2>2 DEF Estimate
  <2>. QED BY <2>2, <2>3, <2>4 DEF Available
<1>2. PICK r \in 0..(NumRanks - 1) : \A q \in 0..(NumRanks - 1) : f[r] <= f[q]
  <2>1. NumRanks \in Nat \ {0} /\ \A r \in 0..(NumRanks - 1) : f[r] \in Int
    BY <1>1 DEF StartupAssumption, Ranks
  <2>. HIDE DEF f
  <2>. QED BY <2>1, LeastOfRanks
<1>3. r \in Ranks /\ \A q \in Ranks : Available(worker[e][r]) <= Available(worker[e][q])
  BY <1>2 DEF Ranks
<1>4. NumBlocks(e) = Available(worker[e][r])
  <2>. DEFINE S == {Available(worker[e][q]) : q \in Ranks}
  <2>1. S \in SUBSET Int /\ Available(worker[e][r]) \in S
          /\ \A y \in S : Available(worker[e][r]) <= y
    BY <1>1, <1>3
  <2>2. NumBlocks(e) = Min(S)
    BY DEF NumBlocks
  <2>. HIDE DEF S
  <2>. QED BY <2>1, <2>2, MinIs
<1>. QED BY <1>1, <1>3, <1>4

-----------------------------------------------------------------------------
(* The shapes of a step.                                                   *)

\* The client's knowledge stays true when no response is sent and the
\* engines it has heard keep their length and their blocks.
LEMMA ClientKeeps ==
  ASSUME Typed, ClientInv, client' = client, at' \in [Engines -> Stages \cup {"dead"}],
         \A o \in client.heard : len'[o] = len[o] /\ worker'[o][0].blocks = worker[o][0].blocks,
         \A o \in Engines : <<"response", o>> \in sent' => <<"response", o>> \in sent,
         \A o \in Engines : at[o] \in FromThreads \cup {"dead"} => at'[o] \in FromThreads \cup {"dead"}
  PROVE  ClientInv'
<1>1. client.heard \subseteq Engines
  BY DEF Typed
<1>2. BlocksOf(client.heard)' = BlocksOf(client.heard)
  BY DEF BlocksOf
<1>3. \A e \in Engines :
       /\ <<"response", e>> \in sent' => e \notin client'.heard /\ at'[e] \in FromThreads \cup {"dead"}
       /\ e \in client'.heard => client'.len <= len'[e] /\ at'[e] \in FromThreads \cup {"dead"}
  BY <1>1 DEF ClientInv
<1>4. client'.len = ModelLen \/ \E e \in client'.heard : client'.len = len'[e]
  BY DEF ClientInv
<1>. QED BY <1>2, <1>3, <1>4 DEF ClientInv

\* A stage is one of those from which on a fact is settled as well as another.
SameStage(s, t) ==
  /\ s \in FromThreads => t \in FromThreads
  /\ t \in FromWarm => s \in FromWarm
  /\ t \in FromCached => s \in FromCached
  /\ t \in FromSized => s \in FromSized
  /\ t \in FromProfiled => s \in FromProfiled
  /\ t \in FromLaidout => s \in FromLaidout

\* A step that leaves the workers alone keeps WorkersInv if it settles nothing.
LEMMA WorkersKeep ==
  ASSUME Typed, WorkersInv, NEW e \in Engines, NEW t, UNCHANGED <<setup, len, worker>>,
         at' = [at EXCEPT ![e] = t], t = "dead" \/ SameStage(at[e], t)
  PROVE  WorkersInv'
<1>. SUFFICES ASSUME NEW o \in Engines, NEW r \in Ranks
              PROVE  WorkerInv(worker[o][r], at[o], len[o])'
  BY DEF WorkersInv
<1>1. WorkerInv(worker[o][r], at[o], len[o])
  BY DEF WorkersInv
<1>2. at'[o] = IF o = e THEN t ELSE at[o]
  BY DEF Typed
<1>3. /\ at'[o] \in FromWarm => at[o] \in FromWarm
      /\ at'[o] \in FromCached => at[o] \in FromCached
      /\ at'[o] \in FromSized => at[o] \in FromSized
      /\ at'[o] \in FromProfiled => at[o] \in FromProfiled
      /\ at'[o] \in FromLaidout => at[o] \in FromLaidout
  BY <1>2 DEF SameStage, FromLaidout, FromProfiled, FromSized, FromCached, FromWarm, FromThreads
<1>4. Available(worker[o][r])' = Available(worker[o][r]) /\ WarmsUp' = WarmsUp
  BY DEF Available, Estimate, WarmsUp
<1>. QED BY <1>1, <1>3, <1>4 DEF WorkerInv

\* An engine that only moves on, or only sends something else than a response.
LEMMA PlainStep ==
  ASSUME SInv, NEW e \in Engines, NEW t \in Stages, at[e] # "dead", Goes(e, t),
         UNCHANGED <<len, worker, client>>, SameStage(at[e], t),
         sent' \subseteq Kinds \X Engines,
         \A o \in Engines : <<"response", o>> \in sent' => <<"response", o>> \in sent
  PROVE  SInv'
<1>. USE DEF SInv
<1>1. at' = [at EXCEPT ![e] = t] /\ UNCHANGED <<setup, why, faults>>
  BY DEF Goes
<1>2. at' \in [Engines -> Stages \cup {"dead"}]
  BY <1>1 DEF Typed
<1>3. Typed'
  BY <1>1, <1>2 DEF Typed
<1>4. WorkersInv'
  BY <1>1, WorkersKeep
<1>5. ClientInv'
  <2>1. \A o \in Engines : at[o] \in FromThreads \cup {"dead"} => at'[o] \in FromThreads \cup {"dead"}
    BY <1>1 DEF SameStage, Typed
  <2>. QED BY <2>1, <1>2, ClientKeeps
<1>6. DeadInv'
  BY <1>1 DEF DeadInv, Typed
<1>7. OnlyFaultsKill'
  BY <1>1 DEF OnlyFaultsKill
<1>. QED BY <1>3, <1>4, <1>5, <1>6, <1>7

\* An engine that dies, for a reason it may have.
LEMMA DiesStep ==
  ASSUME SInv, NEW e \in Engines, NEW reason \in Reasons \ {"layout unresolved", "workspace locked"},
         reason = "tuning" => \E r \in Ranks : worker[e][r].tuned = "failed",
         at' = [at EXCEPT ![e] = "dead"], why' = [why EXCEPT ![e] = reason],
         UNCHANGED <<setup, len, worker, client>>, sent' \subseteq sent, faults' \in 0..MaxFaults
  PROVE  SInv'
<1>. USE DEF SInv
<1>2. at' \in [Engines -> Stages \cup {"dead"}] /\ why' \in [Engines -> Reasons]
  BY DEF Typed
<1>3. Typed'
  BY <1>2 DEF Typed
<1>4. WorkersInv'
  BY WorkersKeep
<1>5. ClientInv'
  <2>1. \A o \in Engines : at[o] \in FromThreads \cup {"dead"} => at'[o] \in FromThreads \cup {"dead"}
    BY DEF Typed
  <2>. QED BY <2>1, <1>2, ClientKeeps
<1>6. DeadInv'
  BY DEF DeadInv, Typed
<1>7. OnlyFaultsKill'
  BY DEF OnlyFaultsKill, Typed
<1>. QED BY <1>3, <1>4, <1>5, <1>6, <1>7

\* An exception is such a death.
LEMMA RaisesStep ==
  ASSUME SInv, NEW e \in Engines, NEW reason \in Reasons \ {"layout unresolved", "workspace locked"},
         reason = "tuning" => \E r \in Ranks : worker[e][r].tuned = "failed", Raises(e, reason)
  PROVE  SInv'
<1>1. /\ at' = [at EXCEPT ![e] = "dead"] /\ why' = [why EXCEPT ![e] = reason]
      /\ UNCHANGED <<setup, len, worker, client>> /\ sent' \subseteq sent /\ faults' \in 0..MaxFaults
  BY DEF Raises, SInv, Typed
<1>. QED BY <1>1, DiesStep

\* A live engine, not yet known to the client unless its length and blocks
\* stay, whose workers do something.
LEMMA WorkStep ==
  ASSUME SInv, NEW e \in Engines, NEW t \in Stages, NEW l \in 1..ModelLen,
         NEW after \in [Ranks -> Worker], at[e] # "dead", at[e] \in FromThreads => t \in FromThreads,
         \A r \in Ranks : WorkerInv(after[r], t, l),
         at' = [at EXCEPT ![e] = t], len' = [len EXCEPT ![e] = l],
         worker' = [worker EXCEPT ![e] = after],
         UNCHANGED <<setup, sent, client, why, faults>>,
         e \in client.heard => l = len[e] /\ after[0].blocks = worker[e][0].blocks
  PROVE  SInv'
<1>. USE DEF SInv
<1>1. at' \in [Engines -> Stages \cup {"dead"}] /\ len' \in [Engines -> 1..ModelLen]
        /\ worker' \in [Engines -> [Ranks -> Worker]]
  BY DEF Typed
<1>2. Typed'
  BY <1>1 DEF Typed
<1>3. WorkersInv'
  <2>. SUFFICES ASSUME NEW o \in Engines, NEW r \in Ranks
                PROVE  WorkerInv(worker[o][r], at[o], len[o])'
    BY DEF WorkersInv
  <2>. DEFINE w == worker'[o][r]
  <2>1. WorkerInv(w, at'[o], len'[o])
    <3>1. CASE o = e
      BY <3>1 DEF Typed
    <3>2. CASE o # e
      <4>1. w = worker[o][r] /\ at'[o] = at[o] /\ len'[o] = len[o]
        BY <3>2 DEF Typed
      <4>. HIDE DEF w
      <4>. QED BY <4>1 DEF WorkersInv
    <3>. QED BY <3>1, <3>2
  <2>2. Available(worker[o][r])' = Available(w) /\ WarmsUp' = WarmsUp
    BY DEF Available, Estimate, WarmsUp
  <2>. QED BY <2>1, <2>2 DEF WorkerInv
<1>4. ClientInv'
  <2>1. \A o \in Engines : at[o] \in FromThreads \cup {"dead"} => at'[o] \in FromThreads \cup {"dead"}
    BY DEF Typed
  <2>2. \A o \in client.heard : len'[o] = len[o] /\ worker'[o][0].blocks = worker[o][0].blocks
    <3>1. client.heard \subseteq Engines
      BY DEF Typed
    <3>. QED BY <3>1 DEF Typed
  <2>. QED BY <2>1, <2>2, <1>1, ClientKeeps
<1>5. DeadInv'
  BY DEF DeadInv, Typed
<1>6. OnlyFaultsKill'
  <2>1. why[e] = "none"
    BY DEF DeadInv
  <2>. QED BY <2>1 DEF OnlyFaultsKill, Typed
<1>. QED BY <1>2, <1>3, <1>4, <1>5, <1>6

-----------------------------------------------------------------------------
(* The steps of an engine.                                                 *)

\* Steps that leave the workers alone.
LEMMA QuietSteps ==
  ASSUME SInv, NEW e \in Engines,
         \/ Hello(e) \/ Connected(e) \/ InitDataParallel(e) \/ InitDistributed(e) \/ InitDevice(e)
         \/ LoadModel(e) \/ FinishWarmUp(e) \/ Build(e) \/ Ready(e) \/ BeginServing(e)
         \/ HandshakeTimesOut(e)
  PROVE  SInv'
<1>. USE DEF SameStage, FromLaidout, FromProfiled, FromSized, FromCached, FromWarm, FromThreads
<1>0. sent \subseteq Kinds \X Engines
  BY DEF SInv, Typed
<1>1. CASE Hello(e)
  <2>1. sent' \subseteq Kinds \X Engines
    BY <1>0, <1>1 DEF Hello, Kinds
  <2>2. \A o \in Engines : <<"response", o>> \in sent' => <<"response", o>> \in sent
    BY <1>1 DEF Hello
  <2>. QED BY <1>1, <2>1, <2>2, PlainStep DEF Hello, Stages
<1>2. CASE Connected(e)
  BY <1>0, <1>2, PlainStep DEF Connected, Stages
<1>3. CASE InitDataParallel(e)
  BY <1>0, <1>3, PlainStep DEF InitDataParallel, Stages
<1>4. CASE InitDistributed(e)
  BY <1>0, <1>4, PlainStep DEF InitDistributed, Stages
<1>5. CASE InitDevice(e)
  <2>1. CASE Raises(e, "memory")
    BY <2>1, RaisesStep DEF Reasons
  <2>2. CASE Goes(e, "device") /\ UNCHANGED <<len, worker, sent, client>>
    BY <1>0, <1>5, <2>2, PlainStep DEF InitDevice, Stages
  <2>. QED BY <1>5, <2>1, <2>2 DEF InitDevice
<1>6. CASE LoadModel(e)
  BY <1>0, <1>6, PlainStep DEF LoadModel, Stages
<1>7. CASE FinishWarmUp(e)
  BY <1>0, <1>7, PlainStep DEF FinishWarmUp, Stages
<1>8. CASE Build(e)
  BY <1>0, <1>8, PlainStep DEF Build, Stages
<1>9. CASE Ready(e)
  <2>1. sent' \subseteq Kinds \X Engines
    BY <1>0, <1>9 DEF Ready, Kinds
  <2>2. \A o \in Engines : <<"response", o>> \in sent' => <<"response", o>> \in sent
    BY <1>9 DEF Ready
  <2>. QED BY <1>9, <2>1, <2>2, PlainStep DEF Ready, Stages
<1>10. CASE BeginServing(e)
  BY <1>0, <1>10, PlainStep DEF BeginServing, Stages
<1>11. CASE HandshakeTimesOut(e)
  <2>1. Raises(e, "no init message")
    BY <1>11 DEF HandshakeTimesOut
  <2>. QED BY <2>1, RaisesStep DEF Reasons
<1>. QED BY <1>1, <1>2, <1>3, <1>4, <1>5, <1>6, <1>7, <1>8, <1>9, <1>10, <1>11

\* The layout is resolved.
LEMMA ResolveLayoutStep ==
  ASSUME SInv, NEW e \in Engines, ResolveLayout(e)
  PROVE  SInv'
<1>. DEFINE after == [r \in Ranks |-> [worker[e][r] EXCEPT !.layout = "resolved"]]
<1>0. worker \in [Engines -> [Ranks -> Worker]] /\ len \in [Engines -> 1..ModelLen]
  BY DEF SInv, Typed
<1>1. after \in [Ranks -> Worker]
  <2>1. ASSUME NEW r \in Ranks PROVE [worker[e][r] EXCEPT !.layout = "resolved"] \in Worker
    <3>1. worker[e][r] \in Worker
      BY <1>0
    <3>. QED BY <3>1 DEF Worker, Layouts
  <2>. QED BY <2>1
<1>2. ASSUME NEW r \in Ranks PROVE WorkerInv(after[r], "laidout", len[e])
  <2>1. WorkerInv(worker[e][r], at[e], len[e]) /\ worker[e][r] \in Worker
    BY <1>0 DEF SInv, WorkersInv
  <2>. QED BY <2>1 DEF WorkerInv, Worker, FromLaidout, FromProfiled, FromSized, FromCached,
                       FromWarm, FromThreads
<1>3. /\ at[e] # "dead" /\ at[e] \notin FromThreads /\ at' = [at EXCEPT ![e] = "laidout"]
      /\ worker' = [worker EXCEPT ![e] = after] /\ len' = [len EXCEPT ![e] = len[e]]
      /\ UNCHANGED <<setup, sent, client, why, faults>>
  BY <1>0 DEF ResolveLayout, Goes, FromThreads
<1>4. e \notin client.heard
  BY <1>3 DEF SInv, ClientInv
<1>. HIDE DEF after
<1>. QED BY <1>0, <1>1, <1>2, <1>3, <1>4, WorkStep DEF Stages, FromLaidout

\* initialize_kv_cache makes the block tables and hands the layout on.
LEMMA AllocatedFacts ==
  ASSUME StartupAssumption, setup \in Setups, NEW w \in Worker
  PROVE  LET a == Allocated(w)
         IN  /\ a \in Worker
             /\ a.reads = w.layout /\ a.layout = w.layout /\ a.width = w.len
             /\ setup.dflash => a.draft = w.layout /\ a.draftWidth = w.len
             /\ a.len = w.len /\ a.usage = w.usage /\ a.graph = w.graph /\ a.blocks = w.blocks
             /\ a.workspace = w.workspace /\ a.captured = w.captured /\ a.locked = w.locked
             /\ a.tuned = w.tuned
<1>1. w.len \in 0..ModelLen
  BY DEF Worker, StartupAssumption
<1>. QED BY <1>1 DEF Allocated, SetAttn, Draft, Worker

\* Profiling a worker.
LEMMA ProfiledFacts ==
  ASSUME StartupAssumption, setup \in Setups, NEW w \in Worker, NEW l \in 1..ModelLen,
         WorkerInv(w, "laidout", l), NEW fails, NEW usage \in Usages,
         NEW graph \in GraphSizes, NEW size \in 1..FullWorkspace
  PROVE  LET p == Profiled(Tuned(w, fails), usage, graph, size)
         IN  /\ p \in Worker /\ WorkerInv(p, "profiled", l)
             /\ ProfilesGraphs => p.reads = "resolved"
<1>. DEFINE v == Tuned(w, fails)
            u == [v EXCEPT !.usage = IF setup.reserved = 0 THEN usage ELSE @]
            g == Grown(u, size)
            p == Profiled(v, usage, graph, size)
<1>0. usage \in Nat /\ graph \in Nat
  BY DEF StartupAssumption
<1>1. v \in Worker /\ (WarmsUp => v.tuned # "no") /\ v.layout = w.layout /\ v.captured = w.captured
        /\ v.workspace = w.workspace /\ v.locked = w.locked /\ v.graph = w.graph
  BY DEF Tuned, Worker
<1>. HIDE DEF v
<1>2. u \in Worker /\ u.tuned = v.tuned /\ u.layout = v.layout /\ u.captured = v.captured
        /\ u.workspace = v.workspace /\ u.locked = v.locked /\ u.graph = v.graph
  BY <1>0, <1>1 DEF Worker
<1>. HIDE DEF u
<1>3. /\ g \in Worker /\ g = [u EXCEPT !.workspace = g.workspace] /\ g.workspace >= u.workspace
      /\ u.workspace = FullWorkspace => g.workspace = FullWorkspace
  BY <1>2, GrownFacts
<1>4. g.tuned = u.tuned /\ g.layout = u.layout /\ g.captured = u.captured
        /\ g.locked = u.locked /\ g.graph = u.graph
  BY <1>2, <1>3 DEF Worker
<1>. HIDE DEF g
<1>. DEFINE h == [g EXCEPT !.graph = graph]
<1>5. h \in Worker /\ h.tuned = g.tuned /\ h.layout = g.layout /\ h.captured = g.captured
        /\ h.workspace = g.workspace /\ h.locked = g.locked
  BY <1>0, <1>3 DEF Worker
<1>6. p = IF ProfilesGraphs THEN Allocated(h) ELSE g
  BY DEF Profiled, u, g
<1>. HIDE DEF h
<1>7. /\ p \in Worker /\ p.tuned = g.tuned /\ p.layout = g.layout /\ p.captured = g.captured
      /\ p.workspace = g.workspace /\ p.locked = g.locked
      /\ ProfilesGraphs => p.reads = g.layout
      /\ ~setup.graphs => p.graph = g.graph
  <2>1. CASE ProfilesGraphs
    BY <2>1, <1>5, <1>6, AllocatedFacts DEF ProfilesGraphs
  <2>2. CASE ~ProfilesGraphs
    BY <2>2, <1>3, <1>6
  <2>. QED BY <2>1, <2>2
<1>. HIDE DEF p
<1>8. p.captured > 0 => p.captured = p.workspace /\ p.workspace = FullWorkspace
  BY <1>1, <1>2, <1>3, <1>4, <1>7 DEF WorkerInv
<1>9. p.locked => p.workspace = FullWorkspace
  BY <1>1, <1>2, <1>3, <1>4, <1>7 DEF WorkerInv
<1>10. p.layout = "resolved" /\ (~setup.graphs => p.graph = 0) /\ (WarmsUp => p.tuned # "no")
  BY <1>1, <1>2, <1>4, <1>7 DEF WorkerInv, FromLaidout
<1>11. WorkerInv(p, "profiled", l)
  BY <1>8, <1>9, <1>10 DEF WorkerInv, FromSized, FromCached, FromWarm, FromThreads
<1>12. ProfilesGraphs => p.reads = "resolved"
  BY <1>7, <1>10
<1>. QED BY <1>7, <1>11, <1>12 DEF p, v

\* The profiling never finds the layout unresolved.
LEMMA MeasuresStep ==
  ASSUME StartupAssumption, SInv, NEW e \in Engines, at[e] = "laidout", Measures(e)
  PROVE  SInv'
<1>0. /\ worker \in [Engines -> [Ranks -> Worker]] /\ len \in [Engines -> 1..ModelLen]
      /\ setup \in Setups /\ at[e] = "laidout"
  BY DEF SInv, Typed
<1>1. PICK usage \in [Ranks -> Usages], graph \in [Ranks -> GraphSizes], size \in Demands,
           fails \in SUBSET Ranks :
       LET after == [r \in Ranks |->
             Profiled(Tuned(worker[e][r], r \in fails), usage[r], graph[r], size[r])]
       IN  IF WarmsUp /\ PrefillBackend = "flashqla_sm75" /\ fails # {}
             THEN Raises(e, "kernel")
             ELSE IF ProfilesGraphs /\ \E r \in Ranks : after[r].reads = "unset"
             THEN Raises(e, "layout unresolved")
             ELSE /\ Goes(e, "profiled")
                  /\ worker' = [worker EXCEPT ![e] = after]
                  /\ UNCHANGED <<len, sent, client>>
  BY DEF Measures
<1>. DEFINE after == [r \in Ranks |->
             Profiled(Tuned(worker[e][r], r \in fails), usage[r], graph[r], size[r])]
<1>2. ASSUME NEW r \in Ranks
      PROVE  /\ after[r] \in Worker /\ WorkerInv(after[r], "profiled", len[e])
             /\ ProfilesGraphs => after[r].reads = "resolved"
  <2>1. WorkerInv(worker[e][r], "laidout", len[e])
    BY <1>0 DEF SInv, WorkersInv
  <2>2. /\ usage[r] \in Usages /\ graph[r] \in GraphSizes /\ size[r] \in 1..FullWorkspace
        /\ worker[e][r] \in Worker /\ len[e] \in 1..ModelLen
    BY <1>0 DEF Demands
  <2>3. after[r] = Profiled(Tuned(worker[e][r], r \in fails), usage[r], graph[r], size[r])
    OBVIOUS
  <2>. HIDE DEF after
  <2>4. ASSUME NEW b, b = (r \in fails)
        PROVE  LET p == Profiled(Tuned(worker[e][r], b), usage[r], graph[r], size[r])
               IN  /\ p \in Worker /\ WorkerInv(p, "profiled", len[e])
                   /\ ProfilesGraphs => p.reads = "resolved"
    <3>. DEFINE w == worker[e][r]  l == len[e]  us == usage[r]  gr == graph[r]  si == size[r]
    <3>1. /\ w \in Worker /\ l \in 1..ModelLen /\ us \in Usages /\ gr \in GraphSizes
          /\ si \in 1..FullWorkspace /\ WorkerInv(w, "laidout", l) /\ setup \in Setups
      BY <1>0, <2>1, <2>2
    <3>. HIDE DEF w, l, us, gr, si
    <3>2. LET p == Profiled(Tuned(w, b), us, gr, si)
          IN  /\ p \in Worker /\ WorkerInv(p, "profiled", l)
              /\ ProfilesGraphs => p.reads = "resolved"
      BY <3>1, ProfiledFacts, SMT
    <3>. QED BY <3>2, Zenon DEF w, l, us, gr, si
  <2>5. LET p == Profiled(Tuned(worker[e][r], r \in fails), usage[r], graph[r], size[r])
        IN  /\ p \in Worker /\ WorkerInv(p, "profiled", len[e])
            /\ ProfilesGraphs => p.reads = "resolved"
    BY <2>4, Zenon
  <2>. QED BY <2>3, <2>5, Zenon
<1>3. after \in [Ranks -> Worker]
  BY <1>2
<1>4. CASE Raises(e, "kernel")
  BY <1>4, RaisesStep DEF Reasons
<1>5. CASE Goes(e, "profiled") /\ worker' = [worker EXCEPT ![e] = after]
             /\ UNCHANGED <<len, sent, client>>
  <2>1. /\ at[e] # "dead" /\ at[e] \notin FromThreads /\ at' = [at EXCEPT ![e] = "profiled"]
        /\ len' = [len EXCEPT ![e] = len[e]] /\ UNCHANGED <<setup, sent, client, why, faults>>
    BY <1>0, <1>5 DEF Goes, FromThreads
  <2>2. e \notin client.heard
    BY <2>1 DEF SInv, ClientInv
  <2>. HIDE DEF after
  <2>. QED BY <1>0, <1>2, <1>3, <1>5, <2>1, <2>2, WorkStep DEF Stages, FromLaidout, FromProfiled
<1>6. ~(ProfilesGraphs /\ \E r \in Ranks : after[r].reads = "unset")
  BY <1>2
<1>. HIDE DEF after
<1>7. Raises(e, "kernel") \/ (Goes(e, "profiled") /\ worker' = [worker EXCEPT ![e] = after]
                                /\ UNCHANGED <<len, sent, client>>)
  BY <1>1, <1>6 DEF after
<1>. QED BY <1>4, <1>5, <1>7

LEMMA ProfileStep ==
  ASSUME StartupAssumption, SInv, NEW e \in Engines, Profile(e)
  PROVE  SInv'
<1>1. CASE Measures(e)
  BY <1>1, MeasuresStep DEF Profile
<1>2. CASE Raises(e, "others freed memory")
  BY <1>2, RaisesStep DEF Reasons
<1>. QED BY <1>1, <1>2 DEF Profile

\* The length and the blocks are fitted to the poorest worker.
LEMMA ConfigureStep ==
  ASSUME StartupAssumption, SInv, NEW e \in Engines, Configure(e)
  PROVE  SInv'
<1>0. /\ worker \in [Engines -> [Ranks -> Worker]] /\ len \in [Engines -> 1..ModelLen]
      /\ setup \in Setups /\ at[e] = "profiled" /\ ModelLen \in Nat
  BY DEF SInv, Typed, Configure, StartupAssumption
<1>1. CASE Raises(e, "memory") \/ Raises(e, "no draft layers")
  <2>1. PICK reason \in {"memory", "no draft layers"} : Raises(e, reason)
    BY <1>1
  <2>. QED BY <2>1, RaisesStep DEF Reasons
<1>2. CASE /\ Fits(e)
           /\ Goes(e, "sized")
           /\ len' = [len EXCEPT ![e] = FittedLen(e)]
           /\ worker' = [worker EXCEPT ![e] = [r \in Ranks |->
                UpdateMaxModelLen(e, [@[r] EXCEPT !.blocks = NumBlocks(e)])]]
           /\ UNCHANGED <<sent, client>>
  <2>. DEFINE n == NumBlocks(e)  l == FittedLen(e)
              after == [r \in Ranks |-> UpdateMaxModelLen(e, [worker[e][r] EXCEPT !.blocks = n])]
  <2>1. n \in Int /\ n > 0 /\ (setup.autofit \/ n >= len[e]) /\ len[e] \in 1..ModelLen
    BY <1>0, <1>2, NumBlocksFacts DEF Fits
  <2>2. \A r \in Ranks : n <= Available(worker[e][r])
    BY <1>0, NumBlocksFacts
  <2>3. Min({len[e], n}) = IF len[e] <= n THEN len[e] ELSE n
    BY <2>1, MinOfTwo
  <2>. HIDE DEF n
  <2>4. l \in 1..ModelLen /\ l <= n /\ n \in Nat
    BY <1>0, <2>1, <2>3 DEF FittedLen, n
  <2>. HIDE DEF l
  <2>5. ASSUME NEW r \in Ranks
        PROVE  after[r] \in Worker /\ WorkerInv(after[r], "sized", l)
    <3>. DEFINE w == worker[e][r]  a == [w EXCEPT !.blocks = n, !.len = l]
    <3>1. w \in Worker /\ WorkerInv(w, "profiled", len[e]) /\ n <= Available(w)
      BY <1>0, <2>2 DEF SInv, WorkersInv
    <3>2. after[r] = a
      BY <3>1 DEF UpdateMaxModelLen, l, Worker
    <3>. HIDE DEF w
    <3>3. a \in Worker /\ a.blocks = n /\ a.len = l
      BY <2>4, <3>1 DEF Worker
    <3>4. /\ a.layout = w.layout /\ a.tuned = w.tuned /\ a.captured = w.captured /\ a.usage = w.usage
          /\ a.workspace = w.workspace /\ a.locked = w.locked /\ a.graph = w.graph
      BY <3>1 DEF Worker
    <3>5. Available(a) = Available(w)
      BY <3>4 DEF Available, Estimate
    <3>. HIDE DEF a
    <3>6. WorkerInv(a, "sized", l)
      BY <2>4, <3>1, <3>3, <3>4, <3>5 DEF WorkerInv, FromLaidout, FromProfiled, FromCached, FromWarm, FromThreads
    <3>. QED BY <3>2, <3>3, <3>6
  <2>6. after \in [Ranks -> Worker]
    BY <2>5
  <2>7. /\ at[e] # "dead" /\ at[e] \notin FromThreads /\ at' = [at EXCEPT ![e] = "sized"]
        /\ len' = [len EXCEPT ![e] = l] /\ worker' = [worker EXCEPT ![e] = after]
        /\ UNCHANGED <<setup, sent, client, why, faults>>
    BY <1>0, <1>2 DEF Goes, FromThreads, l, n
  <2>8. e \notin client.heard
    BY <2>7 DEF SInv, ClientInv
  <2>. HIDE DEF after
  <2>. QED BY <2>4, <2>5, <2>6, <2>7, <2>8, WorkStep
        DEF Stages, FromLaidout, FromProfiled, FromSized
<1>. QED BY <1>1, <1>2 DEF Configure

\* The allocation finds the layout resolved and makes tables for the fitted length.
LEMMA InitializeFromConfigStep ==
  ASSUME StartupAssumption, SInv, NEW e \in Engines, InitializeFromConfig(e)
  PROVE  SInv'
<1>0. /\ worker \in [Engines -> [Ranks -> Worker]] /\ len \in [Engines -> 1..ModelLen]
      /\ setup \in Setups /\ at[e] = "sized"
  BY DEF SInv, Typed, InitializeFromConfig
<1>. DEFINE after == [r \in Ranks |-> Allocated(worker[e][r])]
<1>1. ASSUME NEW r \in Ranks
      PROVE  /\ after[r] \in Worker /\ WorkerInv(after[r], "cached", len[e])
             /\ after[r].reads = "resolved"
  <2>. DEFINE w == worker[e][r]  a == Allocated(w)
  <2>1. w \in Worker /\ WorkerInv(w, "sized", len[e])
    BY <1>0 DEF SInv, WorkersInv
  <2>2. after[r] = a
    OBVIOUS
  <2>. HIDE DEF w
  <2>3. /\ a \in Worker
        /\ a.reads = w.layout /\ a.layout = w.layout /\ a.width = w.len
        /\ setup.dflash => a.draft = w.layout /\ a.draftWidth = w.len
        /\ a.len = w.len /\ a.usage = w.usage /\ a.graph = w.graph /\ a.blocks = w.blocks
        /\ a.workspace = w.workspace /\ a.captured = w.captured /\ a.locked = w.locked
        /\ a.tuned = w.tuned
    BY <1>0, <2>1, AllocatedFacts
  <2>. HIDE DEF a
  <2>4. Available(a) = Available(w)
    BY <2>3 DEF Available, Estimate
  <2>5. w.layout = "resolved" /\ w.len = len[e]
    BY <2>1 DEF WorkerInv, FromLaidout, FromProfiled, FromSized
  <2>6. WorkerInv(a, "cached", len[e])
    BY <2>1, <2>3, <2>4, <2>5 DEF WorkerInv, FromLaidout, FromProfiled, FromSized, FromCached, FromWarm, FromThreads
  <2>. QED BY <2>2, <2>3, <2>5, <2>6
<1>2. after \in [Ranks -> Worker]
  BY <1>1
<1>3. ~\E r \in Ranks : after[r].reads = "unset"
  BY <1>1
<1>4. /\ at[e] # "dead" /\ at[e] \notin FromThreads /\ at' = [at EXCEPT ![e] = "cached"]
      /\ len' = [len EXCEPT ![e] = len[e]] /\ worker' = [worker EXCEPT ![e] = after]
      /\ UNCHANGED <<setup, sent, client, why, faults>>
  BY <1>0, <1>3 DEF InitializeFromConfig, Goes, FromThreads
<1>5. e \notin client.heard
  BY <1>4 DEF SInv, ClientInv
<1>. HIDE DEF after
<1>. QED BY <1>0, <1>1, <1>2, <1>4, <1>5, WorkStep DEF Stages, FromLaidout, FromProfiled, FromSized, FromCached

\* A worker whose workspace has grown is as good as before, and stays where
\* its graphs point.
LEMMA GrownKeeps ==
  ASSUME StartupAssumption, NEW w \in Worker, NEW size \in 1..FullWorkspace, NEW s, NEW l,
         WorkerInv(w, s, l)
  PROVE  LET g == Grown(w, size)
         IN  /\ g \in Worker /\ WorkerInv(g, s, l) /\ g.blocks = w.blocks
             /\ g.captured = w.captured /\ g.locked = w.locked
<1>. DEFINE g == Grown(w, size)
<1>1. /\ g \in Worker /\ g = [w EXCEPT !.workspace = g.workspace]
      /\ g.workspace >= w.workspace
      /\ w.workspace = FullWorkspace => g.workspace = FullWorkspace
  BY GrownFacts
<1>. HIDE DEF g
<1>2. /\ g.len = w.len /\ g.layout = w.layout /\ g.draft = w.draft /\ g.reads = w.reads
      /\ g.usage = w.usage /\ g.graph = w.graph /\ g.blocks = w.blocks /\ g.width = w.width
      /\ g.draftWidth = w.draftWidth /\ g.captured = w.captured /\ g.locked = w.locked
      /\ g.tuned = w.tuned
  BY <1>1 DEF Worker
<1>3. Available(g) = Available(w)
  BY <1>2 DEF Available, Estimate
<1>4. WorkerInv(g, s, l)
  BY <1>1, <1>2, <1>3 DEF WorkerInv
<1>. QED BY <1>1, <1>2, <1>4 DEF g

\* The warm-up makes the workspace as large as any run asks for.
LEMMA WarmUpStep ==
  ASSUME StartupAssumption, SInv, NEW e \in Engines, WarmUp(e)
  PROVE  SInv'
<1>0. /\ worker \in [Engines -> [Ranks -> Worker]] /\ len \in [Engines -> 1..ModelLen]
      /\ setup \in Setups /\ at[e] = "cached" /\ FullWorkspace \in 1..FullWorkspace
  BY DEF SInv, Typed, WarmUp, StartupAssumption
<1>1. CASE WarmsUp /\ (\E r \in Ranks : worker[e][r].tuned # "yes") /\ Raises(e, "tuning")
  <2>1. PICK r \in Ranks : worker[e][r].tuned # "yes"
    BY <1>1
  <2>2. worker[e][r].tuned \in {"no", "yes", "failed"}
    BY <1>0 DEF Worker
  <2>3. worker[e][r].tuned # "no"
    BY <1>0, <1>1 DEF SInv, WorkersInv, WorkerInv, FromProfiled, FromSized, FromCached
  <2>. QED BY <1>1, <2>1, <2>2, <2>3, RaisesStep DEF Reasons
<1>2. CASE /\ Goes(e, "warm")
           /\ worker' = [worker EXCEPT ![e] = [r \in Ranks |-> Warmed(@[r])]]
           /\ UNCHANGED <<len, sent, client>>
  <2>. DEFINE after == [r \in Ranks |-> Warmed(worker[e][r])]
  <2>1. ASSUME NEW r \in Ranks
        PROVE  after[r] \in Worker /\ WorkerInv(after[r], "warm", len[e])
    <3>. DEFINE w == worker[e][r]  g == Grown(w, FullWorkspace)
    <3>1. w \in Worker /\ WorkerInv(w, "cached", len[e])
      BY <1>0 DEF SInv, WorkersInv
    <3>2. after[r] = g
      BY DEF Warmed
    <3>. HIDE DEF w
    <3>3. g \in Worker /\ WorkerInv(g, "cached", len[e])
      BY <1>0, <3>1, GrownKeeps
    <3>4. g.workspace = FullWorkspace
      BY <1>0, <3>1, GrownFacts
    <3>. HIDE DEF g
    <3>5. WorkerInv(g, "warm", len[e])
      BY <3>3, <3>4 DEF WorkerInv, FromLaidout, FromProfiled, FromSized, FromCached, FromWarm, FromThreads
    <3>. QED BY <3>2, <3>3, <3>5
  <2>2. after \in [Ranks -> Worker]
    BY <2>1
  <2>3. /\ at[e] # "dead" /\ at[e] \notin FromThreads /\ at' = [at EXCEPT ![e] = "warm"]
        /\ len' = [len EXCEPT ![e] = len[e]] /\ worker' = [worker EXCEPT ![e] = after]
        /\ UNCHANGED <<setup, sent, client, why, faults>>
    BY <1>0, <1>2 DEF Goes, FromThreads
  <2>4. e \notin client.heard
    BY <2>3 DEF SInv, ClientInv
  <2>. HIDE DEF after
  <2>. QED BY <1>0, <2>1, <2>2, <2>3, <2>4, WorkStep
        DEF Stages, FromLaidout, FromProfiled, FromSized, FromCached, FromWarm
<1>. QED BY <1>1, <1>2 DEF WarmUp

\* The graphs are captured in a workspace that has its full size.
LEMMA CaptureModelStep ==
  ASSUME StartupAssumption, SInv, NEW e \in Engines, CaptureModel(e)
  PROVE  SInv'
<1>0. /\ worker \in [Engines -> [Ranks -> Worker]] /\ len \in [Engines -> 1..ModelLen]
      /\ setup \in Setups /\ at[e] = "warm"
  BY DEF SInv, Typed, CaptureModel
<1>1. CASE ~Captures
  <2>1. Goes(e, "captured") /\ UNCHANGED <<len, worker, sent, client>>
    BY <1>1 DEF CaptureModel
  <2>2. sent \subseteq Kinds \X Engines
    BY DEF SInv, Typed
  <2>. QED BY <1>0, <2>1, <2>2, PlainStep DEF SameStage, Stages, FromLaidout, FromProfiled, FromSized,
                                     FromCached, FromWarm, FromThreads
<1>2. CASE Captures
  <2>1. PICK size \in Demands :
              /\ Goes(e, "graphs")
              /\ worker' = [worker EXCEPT ![e] = [r \in Ranks |->
                   LET ran == Grown(@[r], size[r])
                   IN  [ran EXCEPT !.captured = ran.workspace]]]
    BY <1>2 DEF CaptureModel
  <2>. DEFINE Run(r) == Grown(worker[e][r], size[r])
              after == [r \in Ranks |-> [Run(r) EXCEPT !.captured = Run(r).workspace]]
  <2>2. ASSUME NEW r \in Ranks
        PROVE  after[r] \in Worker /\ WorkerInv(after[r], "graphs", len[e])
    <3>. DEFINE w == worker[e][r]  g == Grown(w, size[r])  a == [g EXCEPT !.captured = g.workspace]
    <3>1. w \in Worker /\ WorkerInv(w, "warm", len[e]) /\ size[r] \in 1..FullWorkspace
      BY <1>0 DEF SInv, WorkersInv, Demands
    <3>2. after[r] = a
      OBVIOUS
    <3>. HIDE DEF w
    <3>3. g \in Worker /\ WorkerInv(g, "warm", len[e])
      BY <3>1, GrownKeeps
    <3>. HIDE DEF g
    <3>4. g.workspace = FullWorkspace
      BY <3>3 DEF WorkerInv, FromWarm
    <3>5. a \in Worker
      BY <3>3 DEF Worker
    <3>6. /\ a.len = g.len /\ a.layout = g.layout /\ a.draft = g.draft /\ a.reads = g.reads
          /\ a.usage = g.usage /\ a.graph = g.graph /\ a.blocks = g.blocks /\ a.width = g.width
          /\ a.draftWidth = g.draftWidth /\ a.workspace = g.workspace /\ a.captured = g.workspace
          /\ a.locked = g.locked /\ a.tuned = g.tuned
      BY <3>3 DEF Worker
    <3>7. Available(a) = Available(g)
      BY <3>6 DEF Available, Estimate
    <3>. HIDE DEF a
    <3>8. WorkerInv(a, "graphs", len[e])
      BY <3>3, <3>4, <3>6, <3>7 DEF WorkerInv, FromLaidout, FromProfiled, FromSized, FromCached, FromWarm, FromThreads
    <3>. QED BY <3>2, <3>5, <3>8
  <2>3. after \in [Ranks -> Worker]
    BY <2>2
  <2>4. /\ at[e] # "dead" /\ at[e] \notin FromThreads /\ at' = [at EXCEPT ![e] = "graphs"]
        /\ len' = [len EXCEPT ![e] = len[e]] /\ worker' = [worker EXCEPT ![e] = after]
        /\ UNCHANGED <<setup, sent, client, why, faults>>
    BY <1>0, <2>1 DEF CaptureModel, Goes, FromThreads
  <2>5. e \notin client.heard
    BY <2>4 DEF SInv, ClientInv
  <2>. HIDE DEF after
  <2>. QED BY <1>0, <2>2, <2>3, <2>4, <2>5, WorkStep
        DEF Stages, FromLaidout, FromProfiled, FromSized, FromCached, FromWarm
<1>. QED BY <1>1, <1>2

\* The drafter's graphs move nothing, and the workspace is locked at its full size.
LEMMA CaptureDraftStep ==
  ASSUME StartupAssumption, SInv, NEW e \in Engines, CaptureDraft(e)
  PROVE  SInv'
<1>0. /\ worker \in [Engines -> [Ranks -> Worker]] /\ len \in [Engines -> 1..ModelLen]
      /\ setup \in Setups /\ at[e] = "graphs"
  BY DEF SInv, Typed, CaptureDraft
<1>1. PICK size \in Demands :
       worker' = [worker EXCEPT ![e] = [r \in Ranks |->
         [(IF setup.dflash THEN Grown(@[r], size[r]) ELSE @[r]) EXCEPT !.locked = TRUE]]]
  BY DEF CaptureDraft
<1>. DEFINE Run(r) == IF setup.dflash THEN Grown(worker[e][r], size[r]) ELSE worker[e][r]
            after == [r \in Ranks |-> [Run(r) EXCEPT !.locked = TRUE]]
<1>2. ASSUME NEW r \in Ranks
      PROVE  after[r] \in Worker /\ WorkerInv(after[r], "drafted", len[e])
  <2>. DEFINE w == worker[e][r]  g == Run(r)  a == [g EXCEPT !.locked = TRUE]
  <2>1. w \in Worker /\ WorkerInv(w, "graphs", len[e]) /\ size[r] \in 1..FullWorkspace
    BY <1>0 DEF SInv, WorkersInv, Demands
  <2>2. after[r] = a
    OBVIOUS
  <2>3. g \in Worker /\ WorkerInv(g, "graphs", len[e])
    <3>. HIDE DEF w
    <3>1. Grown(w, size[r]) \in Worker /\ WorkerInv(Grown(w, size[r]), "graphs", len[e])
      BY <2>1, GrownKeeps
    <3>2. g = IF setup.dflash THEN Grown(w, size[r]) ELSE w
      BY DEF w
    <3>. HIDE DEF g
    <3>. QED BY <2>1, <3>1, <3>2
  <2>. HIDE DEF g
  <2>4. g.workspace = FullWorkspace
    BY <2>3 DEF WorkerInv, FromWarm
  <2>5. a \in Worker
    BY <2>3 DEF Worker
  <2>6. /\ a.len = g.len /\ a.layout = g.layout /\ a.draft = g.draft /\ a.reads = g.reads
        /\ a.usage = g.usage /\ a.graph = g.graph /\ a.blocks = g.blocks /\ a.width = g.width
        /\ a.draftWidth = g.draftWidth /\ a.workspace = g.workspace /\ a.captured = g.captured
        /\ a.tuned = g.tuned
    BY <2>3 DEF Worker
  <2>7. Available(a) = Available(g)
    BY <2>6 DEF Available, Estimate
  <2>. HIDE DEF a
  <2>8. WorkerInv(a, "drafted", len[e])
    BY <2>3, <2>4, <2>6, <2>7 DEF WorkerInv, FromLaidout, FromProfiled, FromSized, FromCached, FromWarm, FromThreads
  <2>. QED BY <2>2, <2>5, <2>8
<1>3. after \in [Ranks -> Worker]
  BY <1>2
<1>4. /\ at[e] # "dead" /\ at[e] \notin FromThreads /\ at' = [at EXCEPT ![e] = "drafted"]
      /\ len' = [len EXCEPT ![e] = len[e]] /\ worker' = [worker EXCEPT ![e] = after]
      /\ UNCHANGED <<setup, sent, client, why, faults>>
  BY <1>0, <1>1 DEF CaptureDraft, Goes, FromThreads
<1>5. e \notin client.heard
  BY <1>4 DEF SInv, ClientInv
<1>. HIDE DEF after
<1>. QED BY <1>0, <1>2, <1>3, <1>4, <1>5, WorkStep
      DEF Stages, FromLaidout, FromProfiled, FromSized, FromCached, FromWarm

\* A locked workspace is never asked for more than it has.
LEMMA NoOverrun ==
  ASSUME StartupAssumption, SInv, NEW e \in Engines, NEW r \in Ranks, NEW size \in 1..FullWorkspace
  PROVE  ~Overruns(worker[e][r], size)
<1>1. worker[e][r].locked => worker[e][r].workspace = FullWorkspace
  BY DEF SInv, WorkersInv, WorkerInv
<1>. QED BY <1>1 DEF Overruns, StartupAssumption

\* DFlash's paths outside the graphs fit in the locked workspace.
LEMMA DflashWarmUpStep ==
  ASSUME StartupAssumption, SInv, NEW e \in Engines, DflashWarmUp(e)
  PROVE  SInv'
<1>1. \A size \in Demands : ~\E r \in Ranks : Overruns(worker[e][r], size[r])
  BY NoOverrun DEF Demands
<1>2. at[e] = "drafted" /\ Goes(e, "captured") /\ UNCHANGED <<len, worker, sent, client>>
  BY <1>1 DEF DflashWarmUp
<1>3. sent \subseteq Kinds \X Engines
  BY DEF SInv, Typed
<1>. QED BY <1>2, <1>3, PlainStep DEF SameStage, Stages, FromLaidout, FromProfiled, FromSized,
                                   FromCached, FromWarm, FromThreads

\* So does every step of a serving engine.
LEMMA ServeStepStep ==
  ASSUME StartupAssumption, SInv, NEW e \in Engines, ServeStep(e)
  PROVE  SInv'
<1>0. /\ worker \in [Engines -> [Ranks -> Worker]] /\ len \in [Engines -> 1..ModelLen]
      /\ at[e] = "serving" /\ at \in [Engines -> Stages \cup {"dead"}]
  BY DEF SInv, Typed, ServeStep
<1>1. \A size \in Demands : ~\E r \in Ranks : Overruns(worker[e][r], size[r])
  BY NoOverrun DEF Demands
<1>2. PICK size \in Demands :
        /\ worker' = [worker EXCEPT ![e] = [r \in Ranks |-> Grown(@[r], size[r])]]
        /\ UNCHANGED <<setup, at, len, sent, client, why, faults>>
  BY <1>1 DEF ServeStep
<1>. DEFINE after == [r \in Ranks |-> Grown(worker[e][r], size[r])]
<1>3. ASSUME NEW r \in Ranks
      PROVE  /\ after[r] \in Worker /\ WorkerInv(after[r], "serving", len[e])
             /\ after[r].blocks = worker[e][r].blocks
  <2>. DEFINE w == worker[e][r]
  <2>1. w \in Worker /\ WorkerInv(w, "serving", len[e]) /\ size[r] \in 1..FullWorkspace
    BY <1>0 DEF SInv, WorkersInv, Demands
  <2>2. after[r] = Grown(w, size[r])
    OBVIOUS
  <2>. HIDE DEF w, after
  <2>3. after[r] \in Worker /\ WorkerInv(after[r], "serving", len[e]) /\ after[r].blocks = w.blocks
    BY <2>1, <2>2, GrownKeeps
  <2>. QED BY <2>3 DEF w
<1>4. after \in [Ranks -> Worker]
  BY <1>3
<1>5. /\ at' = [at EXCEPT ![e] = "serving"] /\ len' = [len EXCEPT ![e] = len[e]]
      /\ worker' = [worker EXCEPT ![e] = after] /\ UNCHANGED <<setup, sent, client, why, faults>>
  BY <1>0, <1>2
<1>6. 0 \in Ranks
  BY DEF Ranks, StartupAssumption
<1>. HIDE DEF after
<1>. QED BY <1>0, <1>3, <1>4, <1>5, <1>6, WorkStep
      DEF Stages, FromLaidout, FromProfiled, FromSized, FromCached, FromWarm, FromThreads

\* The ready response is sent by an engine whose length and blocks are final.
LEMMA StartThreadsStep ==
  ASSUME SInv, NEW e \in Engines, StartThreads(e)
  PROVE  SInv'
<1>. USE DEF SInv
<1>1. /\ at[e] = "built" /\ at' = [at EXCEPT ![e] = "threads"]
      /\ sent' = sent \cup {<<"response", e>>} /\ UNCHANGED <<setup, len, worker, client, why, faults>>
  BY DEF StartThreads, Goes
<1>2. at' \in [Engines -> Stages \cup {"dead"}]
  BY <1>1 DEF Typed, Stages, FromLaidout, FromProfiled, FromSized, FromCached, FromWarm, FromThreads
<1>3. sent' \subseteq Kinds \X Engines
  BY <1>1 DEF Typed, Kinds
<1>4. Typed'
  BY <1>1, <1>2, <1>3 DEF Typed
<1>5. WorkersInv'
  BY <1>1, WorkersKeep DEF SameStage, FromLaidout, FromProfiled, FromSized, FromCached, FromWarm, FromThreads
<1>6. e \notin client.heard
  BY <1>1 DEF ClientInv, FromThreads
<1>7. ClientInv'
  <2>1. ASSUME NEW o \in Engines
        PROVE  /\ <<"response", o>> \in sent' => o \notin client'.heard /\ at'[o] \in FromThreads \cup {"dead"}
               /\ o \in client'.heard => client'.len <= len'[o] /\ at'[o] \in FromThreads \cup {"dead"}
    <3>1. CASE o = e
      BY <1>1, <1>6, <3>1 DEF Typed, FromThreads
    <3>2. CASE o # e
      <4>1. at'[o] = at[o] /\ (<<"response", o>> \in sent' => <<"response", o>> \in sent)
        BY <1>1, <3>2 DEF Typed
      <4>. QED BY <1>1, <4>1 DEF ClientInv
    <3>. QED BY <3>1, <3>2
  <2>2. BlocksOf(client.heard)' = BlocksOf(client.heard)
    BY <1>1 DEF BlocksOf
  <2>3. client'.len = ModelLen \/ \E o \in client'.heard : client'.len = len'[o]
    BY <1>1 DEF ClientInv
  <2>. QED BY <1>1, <2>1, <2>2, <2>3 DEF ClientInv
<1>8. DeadInv'
  BY <1>1 DEF DeadInv, Typed
<1>9. OnlyFaultsKill'
  BY <1>1 DEF OnlyFaultsKill
<1>. QED BY <1>4, <1>5, <1>7, <1>8, <1>9

\* A process dies, and some of its messages with it.
LEMMA FaultStep ==
  ASSUME StartupAssumption, SInv, NEW e \in Engines, Fault(e)
  PROVE  SInv'
<1>1. faults' \in 0..MaxFaults
  BY DEF Fault, SInv, Typed, StartupAssumption
<1>2. sent' \subseteq sent
  BY DEF Fault
<1>. QED BY <1>1, <1>2, DiesStep DEF Fault, Reasons

-----------------------------------------------------------------------------
(* The steps of the client.                                                *)

\* A client that only changes its phase, or notes a HELLO or a READY.
LEMMA ClientMoves ==
  ASSUME SInv, UNCHANGED <<setup, at, len, worker, why, faults>>,
         sent' \subseteq Kinds \X Engines,
         \A o \in Engines : <<"response", o>> \in sent' => <<"response", o>> \in sent,
         client' \in [phase : {"launch", "wait", "up", "closing", "failed"},
                      hello : SUBSET Engines, ready : SUBSET Engines, heard : SUBSET Engines,
                      len : 1..ModelLen, blocks : Nat],
         client'.heard = client.heard, client'.len = client.len, client'.blocks = client.blocks,
         client'.phase # "up"
  PROVE  SInv'
<1>. USE DEF SInv
<1>1. Typed'
  BY DEF Typed
<1>2. WorkersInv'
  BY DEF WorkersInv, WorkerInv, Available, Estimate, WarmsUp
<1>3. BlocksOf(client.heard)' = BlocksOf(client.heard)
  BY DEF BlocksOf
<1>4. ClientInv'
  BY <1>3 DEF ClientInv
<1>5. DeadInv'
  BY DEF DeadInv
<1>6. OnlyFaultsKill'
  BY DEF OnlyFaultsKill
<1>. QED BY <1>1, <1>2, <1>4, <1>5, <1>6

\* The blocks of one more engine.
LEMMA OneMore ==
  ASSUME StartupAssumption, worker \in [Engines -> [Ranks -> Worker]],
         NEW H \in SUBSET Engines, NEW e \in Engines, e \notin H, IsFiniteSet(BlocksOf(H))
  PROVE  /\ IsFiniteSet(BlocksOf(H \cup {e}))
         /\ Cardinality(BlocksOf(H \cup {e})) = Cardinality(BlocksOf(H)) + worker[e][0].blocks
<1>. DEFINE n == worker[e][0].blocks  new == {e} \X (1..n)
<1>1. n \in Nat
  BY SMTT(40) DEF Ranks, StartupAssumption, Worker
<1>. HIDE DEF n
<1>2. IsFiniteSet({e}) /\ Cardinality({e}) = 1
  BY FS_Singleton
<1>3. IsFiniteSet(1..n) /\ Cardinality(1..n) = n
  BY <1>1, FS_Interval
<1>4. IsFiniteSet(new) /\ Cardinality(new) = n
  <2>1. IsFiniteSet({e} \X (1..n)) /\ Cardinality({e} \X (1..n)) = Cardinality({e}) * Cardinality(1..n)
    BY <1>2, <1>3, FS_Product
  <2>2. Cardinality({e}) * Cardinality(1..n) = n
    BY <1>1, <1>2, <1>3
  <2>. QED BY <2>1, <2>2
<1>5. BlocksOf(H) \cap new = {}
  BY DEF BlocksOf
<1>6. BlocksOf(H \cup {e}) = BlocksOf(H) \cup new
  BY DEF BlocksOf, n
<1>. HIDE DEF new
<1>7. Cardinality(BlocksOf(H)) \in Nat /\ Cardinality({}) = 0
  BY FS_CardinalityType, FS_EmptySet
<1>8. IsFiniteSet(BlocksOf(H) \cup new)
        /\ Cardinality(BlocksOf(H) \cup new) = Cardinality(BlocksOf(H)) + Cardinality(new)
                                                - Cardinality(BlocksOf(H) \cap new)
  BY <1>4, FS_Union
<1>9. Cardinality(BlocksOf(H \cup {e})) = Cardinality(BlocksOf(H)) + n
  <2>1. Cardinality(BlocksOf(H) \cap new) = 0
    BY <1>5, <1>7
  <2>2. Cardinality(BlocksOf(H) \cup new) = Cardinality(BlocksOf(H)) + n - 0
    BY <1>4, <1>8, <2>1
  <2>. DEFINE c == Cardinality(BlocksOf(H))
  <2>3. c \in Nat
    BY <1>7
  <2>. HIDE DEF c
  <2>4. c + n - 0 = c + n
    BY <1>1, <2>3
  <2>. QED BY <1>6, <2>2, <2>4 DEF c
<1>. QED BY <1>6, <1>8, <1>9 DEF n

\* _apply_ready_response takes each engine once.
LEMMA ReadResponseStep ==
  ASSUME StartupAssumption, SInv, NEW e \in Engines, ReadResponse(e)
  PROVE  SInv'
<1>. USE DEF SInv
<1>. DEFINE heard == client.heard \cup {e}
<1>0. /\ worker \in [Engines -> [Ranks -> Worker]] /\ len \in [Engines -> 1..ModelLen]
      /\ client \in [phase : {"launch", "wait", "up", "closing", "failed"},
                 hello : SUBSET Engines, ready : SUBSET Engines, heard : SUBSET Engines,
                 len : 1..ModelLen, blocks : Nat]
      /\ ModelLen \in Nat
  BY DEF Typed, StartupAssumption
<1>1. /\ <<"response", e>> \in sent /\ sent' = sent \ {<<"response", e>>}
      /\ UNCHANGED <<setup, at, len, worker, why, faults>>
  BY DEF ReadResponse
<1>2. client'.heard = heard /\ client'.len = Min({client.len, len[e]})
        /\ client'.blocks = client.blocks + worker[e][0].blocks
        /\ client'.phase = (IF heard = Engines THEN "up" ELSE client.phase)
        /\ client'.hello = client.hello /\ client'.ready = client.ready /\ client.phase = "wait"
  BY <1>0 DEF ReadResponse, Applied
<1>3. Min({client.len, len[e]}) = IF client.len <= len[e] THEN client.len ELSE len[e]
  BY <1>0, MinOfTwo
<1>4. worker[e][0].blocks \in Nat
  <2>1. 0 \in Ranks
    BY DEF Ranks, StartupAssumption
  <2>2. worker[e][0] \in Worker
    BY <1>0, <2>1
  <2>. QED BY <2>2 DEF Worker
<1>5. client' \in [phase : {"launch", "wait", "up", "closing", "failed"},
                 hello : SUBSET Engines, ready : SUBSET Engines, heard : SUBSET Engines,
                 len : 1..ModelLen, blocks : Nat]
  <2>1. client' = [phase |-> client'.phase, hello |-> client'.hello, ready |-> client'.ready,
                   heard |-> client'.heard, len |-> client'.len, blocks |-> client'.blocks]
    BY <1>0 DEF ReadResponse, Applied
  <2>. QED BY <1>0, <1>2, <1>3, <1>4, <2>1
<1>6. Typed'
  BY <1>1, <1>5 DEF Typed
<1>7. WorkersInv'
  BY <1>1 DEF WorkersInv, WorkerInv, Available, Estimate, WarmsUp
<1>8. e \notin client.heard /\ at[e] \in FromThreads \cup {"dead"}
  BY <1>1 DEF ClientInv
<1>9. ClientInv'
  <2>1. ASSUME NEW o \in Engines
        PROVE  /\ <<"response", o>> \in sent' => o \notin client'.heard /\ at'[o] \in FromThreads \cup {"dead"}
               /\ o \in client'.heard => client'.len <= len'[o] /\ at'[o] \in FromThreads \cup {"dead"}
    <3>1. CASE o = e
      BY <1>0, <1>1, <1>2, <1>3, <1>8, <3>1
    <3>2. CASE o # e
      <4>1. /\ <<"response", o>> \in sent => o \notin client.heard /\ at[o] \in FromThreads \cup {"dead"}
            /\ o \in client.heard => client.len <= len[o] /\ at[o] \in FromThreads \cup {"dead"}
        BY DEF ClientInv
      <4>. QED BY <1>0, <1>1, <1>2, <1>3, <3>2, <4>1
    <3>. QED BY <3>1, <3>2
  <2>2. client'.len = ModelLen \/ \E o \in client'.heard : client'.len = len'[o]
    <3>1. CASE client'.len = len[e]
      BY <1>1, <1>2, <3>1
    <3>2. CASE client'.len = client.len
      BY <1>1, <1>2, <3>2 DEF ClientInv
    <3>. QED BY <1>2, <1>3, <3>1, <3>2
  <2>3. client.heard \in SUBSET Engines /\ IsFiniteSet(BlocksOf(client.heard))
    BY <1>0 DEF ClientInv
  <2>4. /\ IsFiniteSet(BlocksOf(heard))
        /\ Cardinality(BlocksOf(heard)) = Cardinality(BlocksOf(client.heard)) + worker[e][0].blocks
    BY <1>0, <1>8, <2>3, OneMore
  <2>5. BlocksOf(client.heard)' = BlocksOf(heard)
    BY <1>1, <1>2 DEF BlocksOf
  <2>6. client.blocks = Cardinality(BlocksOf(client.heard))
    BY DEF ClientInv
  <2>7. client'.phase = "up" => client'.heard = Engines
    BY <1>2
  <2>. QED BY <1>2, <2>1, <2>2, <2>4, <2>5, <2>6, <2>7 DEF ClientInv
<1>10. DeadInv' /\ OnlyFaultsKill'
  BY <1>1 DEF DeadInv, OnlyFaultsKill
<1>. QED BY <1>6, <1>7, <1>9, <1>10

\* The other steps of the client.
LEMMA ClientSteps ==
  ASSUME StartupAssumption, SInv, ClientStep
  PROVE  SInv'
<1>. DEFINE C == [phase : {"launch", "wait", "up", "closing", "failed"},
                 hello : SUBSET Engines, ready : SUBSET Engines, heard : SUBSET Engines,
                 len : 1..ModelLen, blocks : Nat]
<1>0. client \in C /\ sent \subseteq Kinds \X Engines
  BY DEF SInv, Typed
<1>1. ASSUME NEW e \in Engines, AnswerHello(e) PROVE SInv'
  <2>1. client' \in C /\ client'.heard = client.heard /\ client'.len = client.len
          /\ client'.blocks = client.blocks /\ client'.phase # "up"
    BY <1>0, <1>1 DEF AnswerHello
  <2>2. sent' \subseteq Kinds \X Engines
    BY <1>0, <1>1 DEF AnswerHello, Kinds
  <2>3. \A o \in Engines : <<"response", o>> \in sent' => <<"response", o>> \in sent
    BY <1>1 DEF AnswerHello
  <2>. QED BY <1>1, <2>1, <2>2, <2>3, ClientMoves DEF AnswerHello
<1>2. ASSUME NEW e \in Engines, NoteReady(e) PROVE SInv'
  <2>1. client' \in C /\ client'.heard = client.heard /\ client'.len = client.len
          /\ client'.blocks = client.blocks /\ client'.phase # "up"
    BY <1>0, <1>2 DEF NoteReady
  <2>. QED BY <1>0, <1>2, <2>1, ClientMoves DEF NoteReady
<1>3. ASSUME NEW e \in Engines, Killed(e) PROVE SInv'
  <2>1. faults' \in 0..MaxFaults
    BY <1>3 DEF Killed, SInv, Typed
  <2>. QED BY <1>3, <2>1, DiesStep DEF Killed, Reasons
<1>4. ASSUME ClientFails PROVE SInv'
  <2>1. client' \in C /\ client'.heard = client.heard /\ client'.len = client.len
          /\ client'.blocks = client.blocks /\ client'.phase # "up"
    BY <1>0, <1>4 DEF ClientFails
  <2>. QED BY <1>0, <1>4, <2>1, ClientMoves DEF ClientFails
<1>5. ASSUME Closed PROVE SInv'
  <2>1. client' \in C /\ client'.heard = client.heard /\ client'.len = client.len
          /\ client'.blocks = client.blocks /\ client'.phase # "up"
    BY <1>0, <1>5 DEF Closed
  <2>. QED BY <1>0, <1>5, <2>1, ClientMoves DEF Closed
<1>. QED BY <1>1, <1>2, <1>3, <1>4, <1>5, ReadResponseStep
      DEF ClientStep, LaunchFails, ReadyTimesOut, MonitorSees

-----------------------------------------------------------------------------
(* The theorems.                                                           *)

\* Nothing is settled at first.
LEMMA InitSInv ==
  ASSUME StartupAssumption, Init
  PROVE  SInv
<1>. USE DEF Init
<1>1. NewWorker \in Worker
  BY DEF NewWorker, Worker, StartupAssumption, Layouts
<1>2. Typed
  <2>1. at \in [Engines -> Stages \cup {"dead"}] /\ why \in [Engines -> Reasons]
    BY DEF Stages, Reasons
  <2>2. worker \in [Engines -> [Ranks -> Worker]] /\ len \in [Engines -> 1..ModelLen]
    BY <1>1 DEF StartupAssumption
  <2>3. client \in [phase : {"launch", "wait", "up", "closing", "failed"},
                 hello : SUBSET Engines, ready : SUBSET Engines, heard : SUBSET Engines,
                 len : 1..ModelLen, blocks : Nat]
    BY DEF StartupAssumption
  <2>. QED BY <2>1, <2>2, <2>3 DEF Typed, StartupAssumption
<1>3. WorkersInv
  <2>1. ASSUME NEW e \in Engines, NEW r \in Ranks PROVE worker[e][r] = NewWorker /\ at[e] = "spawned"
    OBVIOUS
  <2>2. WorkerInv(NewWorker, "spawned", ModelLen)
    BY DEF WorkerInv, NewWorker, FromLaidout, FromProfiled, FromSized, FromCached, FromWarm, FromThreads
  <2>. QED BY <2>1, <2>2 DEF WorkersInv
<1>4. ClientInv
  <2>1. BlocksOf(client.heard) = {}
    BY DEF BlocksOf
  <2>. QED BY <2>1, FS_EmptySet DEF ClientInv
<1>5. DeadInv /\ OnlyFaultsKill
  BY DEF DeadInv, OnlyFaultsKill
<1>. QED BY <1>2, <1>3, <1>4, <1>5 DEF SInv

\* Every step keeps the inductive invariant.
LEMMA NextSInv ==
  ASSUME StartupAssumption, SInv, [Next]_vars
  PROVE  SInv'
<1>1. ASSUME NEW e \in Engines, EngineStep(e) PROVE SInv'
  BY <1>1, QuietSteps, ResolveLayoutStep, ProfileStep, ConfigureStep, InitializeFromConfigStep,
     WarmUpStep, CaptureModelStep, CaptureDraftStep, DflashWarmUpStep, StartThreadsStep DEF EngineStep
<1>2. ASSUME NEW e \in Engines, ServeStep(e) \/ HandshakeTimesOut(e) \/ Fault(e) PROVE SInv'
  BY <1>2, ServeStepStep, QuietSteps, FaultStep
<1>3. CASE UNCHANGED vars
  <2>. USE <1>3 DEF vars, SInv
  <2>1. Typed'
    BY DEF Typed
  <2>2. WorkersInv'
    BY DEF WorkersInv, WorkerInv, Available, Estimate, WarmsUp
  <2>3. BlocksOf(client.heard)' = BlocksOf(client.heard)
    BY DEF BlocksOf
  <2>4. ClientInv'
    BY <2>3 DEF ClientInv
  <2>5. DeadInv'
    BY DEF DeadInv
  <2>6. OnlyFaultsKill'
    BY DEF OnlyFaultsKill
  <2>. QED BY <2>1, <2>2, <2>4, <2>5, <2>6
<1>. QED BY <1>1, <1>2, <1>3, ClientSteps DEF Next

\* What each stage of start-up has settled stays settled, for every engine,
\* worker and configuration.
THEOREM SInvAlways == Spec => []SInv
<1>1. Init => SInv
  BY InitSInv, StartupAssumption
<1>2. SInv /\ [Next]_vars => SInv'
  BY NextSInv, StartupAssumption
<1>. QED BY <1>1, <1>2, PTL DEF Spec

\* No engine ever dies of the order of its own start-up: no layout is read
\* before it is resolved, no locked workspace asked to grow, no kernel tuned only
\* when the KV cache has taken the memory.
THEOREM AlwaysOnlyFaultsKill == Spec => []OnlyFaultsKill
<1>1. SInv => OnlyFaultsKill
  BY DEF SInv
<1>. QED BY <1>1, SInvAlways, PTL

\* The inductive invariant implies the type invariant the runs check.
LEMMA SInvTyped ==
  ASSUME StartupAssumption, SInv
  PROVE  TypeOK
<1>1. Stages \cup {"dead"} \subseteq {Path[i] : i \in DOMAIN Path} \cup {"dead"}
  <2>1. DOMAIN Path = 1..20
    BY DEF Path
  <2>2. /\ Path[1] = "spawned" /\ Path[2] = "hello" /\ Path[3] = "connected" /\ Path[4] = "grouped"
        /\ Path[5] = "joined" /\ Path[6] = "device" /\ Path[7] = "loaded" /\ Path[8] = "laidout"
        /\ Path[9] = "profiled" /\ Path[10] = "sized" /\ Path[11] = "cached" /\ Path[12] = "warm"
        /\ Path[13] = "graphs" /\ Path[14] = "drafted" /\ Path[15] = "captured" /\ Path[16] = "settled"
        /\ Path[17] = "built" /\ Path[18] = "threads" /\ Path[19] = "ready" /\ Path[20] = "serving"
    BY DEF Path
  <2>. DEFINE All == {Path[i] : i \in DOMAIN Path}
  <2>3. \A i \in 1..20 : Path[i] \in All
    BY <2>1
  <2>. HIDE DEF All
  <2>4. FromLaidout \subseteq All
    BY <2>2, <2>3 DEF FromLaidout, FromProfiled, FromSized, FromCached, FromWarm, FromThreads
  <2>5. {"spawned", "hello", "connected", "grouped", "joined", "device", "loaded"} \subseteq All
    BY <2>2, <2>3
  <2>. QED BY <2>4, <2>5 DEF Stages, All
<1>2. at \in [Engines -> {Path[i] : i \in DOMAIN Path} \cup {"dead"}]
  BY <1>1 DEF SInv, Typed
<1>3. \A e \in Engines :
       /\ len[e] \in 1..ModelLen
       /\ \A r \in Ranks :
            /\ worker[e][r].len \in 1..ModelLen
            /\ worker[e][r].blocks \in Nat
            /\ worker[e][r].workspace \in 0..FullWorkspace
  BY DEF SInv, Typed, Worker
<1>4. client.phase \in {"launch", "wait", "up", "closing", "failed"}
  BY DEF SInv, Typed
<1>. QED BY <1>2, <1>3, <1>4 DEF TypeOK, SInv, Typed, Kinds

\* It implies that what an engine hands over fits together.
LEMMA SInvBuilt ==
  ASSUME StartupAssumption, SInv
  PROVE  LengthsAgree /\ LayoutsAgree /\ WithinRequested /\ GraphsPointAtWorkspace
<1>1. ASSUME NEW e \in Served, NEW r \in Ranks
      PROVE  /\ e \in Engines /\ at[e] \in FromWarm /\ at[e] \in FromCached /\ at[e] \in FromSized
             /\ worker[e][r] \in Worker /\ WorkerInv(worker[e][r], at[e], len[e])
  BY DEF SInv, Typed, WorkersInv, Served, FromSized, FromCached, FromWarm, FromThreads
<1>2. LengthsAgree
  BY <1>1 DEF LengthsAgree, WorkerInv
<1>3. LayoutsAgree
  BY <1>1 DEF LayoutsAgree, WorkerInv
<1>4. WithinRequested
  <2>. SUFFICES ASSUME setup.reserved = 0, setup.estimate \/ ~setup.graphs,
                       NEW e \in Served, NEW r \in Ranks
                PROVE  worker[e][r].usage + worker[e][r].blocks + worker[e][r].graph <= Requested
    BY DEF WithinRequested
  <2>. DEFINE w == worker[e][r]
  <2>1. w.usage \in Nat /\ w.blocks \in Nat /\ w.graph \in Nat /\ Requested \in Nat
    BY <1>1 DEF Worker, StartupAssumption
  <2>2. w.blocks <= Available(w) /\ (~setup.graphs => w.graph = 0)
    BY <1>1 DEF WorkerInv
  <2>3. Estimate(w) = w.graph
    BY <2>2 DEF Estimate
  <2>. HIDE DEF w
  <2>4. w.blocks <= Requested - w.usage - w.graph
    BY <2>2, <2>3 DEF Available
  <2>5. w.usage + w.blocks + w.graph <= Requested
    BY <2>1, <2>4
  <2>. QED BY <2>5 DEF w
<1>5. GraphsPointAtWorkspace
  BY DEF SInv, WorkersInv, WorkerInv, GraphsPointAtWorkspace, Workers
<1>. QED BY <1>2, <1>3, <1>4, <1>5

\* It implies that a client that is up knows the least length and all blocks.
LEMMA SInvClient ==
  ASSUME StartupAssumption, SInv
  PROVE  ClientKnows
<1>. SUFFICES ASSUME client.phase = "up" PROVE /\ client.len = Min({len[e] : e \in Engines})
                                               /\ client.blocks = Cardinality(BlocksOf(Engines))
  BY DEF ClientKnows
<1>1. client.heard = Engines /\ client.blocks = Cardinality(BlocksOf(Engines))
  BY DEF SInv, ClientInv
<1>2. len \in [Engines -> 1..ModelLen] /\ ModelLen \in Nat /\ 0 \in Engines
  BY DEF SInv, Typed, StartupAssumption, Engines
<1>. DEFINE S == {len[e] : e \in Engines}
<1>3. \A y \in S : client.len <= y
  BY <1>1 DEF SInv, ClientInv
<1>4. client.len \in S
  <2>1. CASE client.len = ModelLen
    <3>1. len[0] \in 1..ModelLen /\ client.len <= len[0]
      BY <1>2, <1>3
    <3>2. client.len = len[0]
      BY <1>2, <2>1, <3>1
    <3>. QED BY <1>2, <3>2
  <2>. QED BY <1>1, <2>1 DEF SInv, ClientInv
<1>5. S \in SUBSET Int
  BY <1>2
<1>. HIDE DEF S
<1>6. client.len = Min(S)
  BY <1>3, <1>4, <1>5, MinIs
<1>. QED BY <1>1, <1>6 DEF S

\* What start-up hands over always fits together: one length in the
\* scheduler, the workers and the block tables, one cache layout, memory within
\* the request, graphs that point at live memory, and a client that knows both.
THEOREM AlwaysBuiltSoundly == Spec => []BuiltSoundly
<1>1. SInv => BuiltSoundly
  BY SInvTyped, SInvBuilt, SInvClient, StartupAssumption DEF BuiltSoundly
<1>. QED BY <1>1, SInvAlways, PTL

=============================================================================
