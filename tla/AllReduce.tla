----------------------------- MODULE AllReduce -----------------------------
(***************************************************************************)
(* The collectives of a tensor-parallel group on Turing cards: how each    *)
(* rank builds its communicators, how it picks one for a call, and the     *)
(* exchange of the fp8 all-reduce (FireflyAllReduce), in which ranks meet  *)
(* through flags in shared memory and wait for an EXACT sequence number.   *)
(*                                                                         *)
(* Ranks are separate processes: every decision is taken by a rank alone,  *)
(* from what it sees, and a rank that decides otherwise than its peers     *)
(* leaves them waiting.  A value is abstracted to the set of inputs summed *)
(* in it; `ok' says that no step of the arithmetic was spoilt (two parts   *)
(* quantised with different scales, a part counted twice, a saturation).   *)
(* Collectives of libraries (gloo, NCCL, the custom kernels) are matched   *)
(* by their order in each rank and complete when every rank has joined.    *)
(***************************************************************************)
EXTENDS Integers, FiniteSets, Sequences, FiniteSetsExt

CONSTANTS
    Setups,         \* [world, p2p, linked, prefer, graphInput, plan] records
    ChunkCap,       \* elements one data slot holds (_CHUNK_BYTES)
    FireflyMin,     \* VLLM_FIREFLY_AR_MIN_SIZE
    CustomMax,      \* CustomAllreduce.max_size
    Leftovers,      \* may /dev/shm hold a segment of a killed process
    MaxFaults       \* bound on failed set-up steps

ASSUME BoundsAssumption ==
    /\ ChunkCap \in Nat \ {0}
    /\ FireflyMin \in Nat /\ CustomMax \in Nat /\ MaxFaults \in Nat
    /\ Leftovers \subseteq BOOLEAN

VARIABLES
    setup,      \* the group: its size, links, environment and program of calls
    at,         \* rank -> where its process is
    gathers,    \* rank -> collectives of the CPU group it has entered
    custom,     \* rank -> [on, inputs]: CustomAllreduce and its graph inputs
    firefly,    \* rank -> [on, backend, base]: FireflyAllReduce
    name,       \* what the shared-memory name denotes: a segment or "none"
    mem,        \* area -> flags, amaxes and data slots of every rank
    sent,       \* library -> rank -> the calls it has joined, in order
    call,       \* rank -> its call: number, chunk, round, seq, scale, sums
    out,        \* rank -> the results of its calls, in order
    faults      \* set-up steps that have failed

vars == <<setup, at, gathers, custom, firefly, name, mem, sent, call, out, faults>>

Libraries == {"custom", "nccl"}
Areas == {"device", "stale", "fresh"}
Segments == {"stale", "fresh"}
Ranks == 0 .. (setup.world - 1)
AllRanks == 0 .. 3

Value(terms, ok) == [terms |-> terms, ok |-> ok]
Nothing == Value({}, TRUE)

NewArea == [scale |-> [r \in AllRanks |-> 0], data |-> [r \in AllRanks |-> 0],
            barrier |-> [r \in AllRanks |-> 0], amax |-> [r \in AllRanks |-> 0],
            slot |-> [r \in AllRanks |-> [value |-> Nothing, scale |-> 0]]]

\* Flags nobody has cleared: device memory fresh from cudaMalloc, or the flags at
\* which an earlier run stopped; they may match a sequence number
Garbage == [NewArea EXCEPT !.scale = [r \in AllRanks |-> 1],
                           !.data = [r \in AllRanks |-> 1],
                           !.barrier = [r \in AllRanks |-> 1]]

Init ==
    /\ setup \in Setups
    /\ name \in {IF l THEN "stale" ELSE "none" : l \in Leftovers}
    /\ at = [r \in AllRanks |-> "start"]
    /\ gathers = [r \in AllRanks |-> 0]
    /\ custom = [r \in AllRanks |-> [on |-> FALSE, inputs |-> {}]]
    /\ firefly = [r \in AllRanks |-> [on |-> FALSE, backend |-> "shm", base |-> "none"]]
    /\ mem = [a \in Areas |-> IF a = "fresh" THEN NewArea ELSE Garbage]
    /\ sent = [l \in Libraries |-> [r \in AllRanks |-> <<>>]]
    /\ call = [r \in AllRanks |-> [n |-> 0, chunk |-> 0, round |-> 0, seq |-> 1,
                                   peer |-> 0, scale |-> 0,
                                   work |-> Nothing, sum |-> Nothing]]
    /\ out = [r \in AllRanks |-> <<>>]
    /\ faults = 0

Goes(r, from, to) == at[r] = from /\ at' = [at EXCEPT ![r] = to]

Fails(r) == faults < MaxFaults /\ faults' = faults + 1

\* A failure of its own, or what an earlier one brings about
Follows(r) == Fails(r) \/ (faults > 0 /\ UNCHANGED faults)

(***************************************************************************)
(* Set-up                                                                  *)
(***************************************************************************)
\* The ranks of the CPU group join its collectives in the same order
Enter(r) == gathers' = [gathers EXCEPT ![r] = @ + 1]
Gathered(r) == \A other \in Ranks : gathers[other] >= gathers[r]

\* CustomAllreduce.__init__ up to its buffers: not on more than two cards
\* without NVLink, and not without peer access
CanCustom == (setup.world = 2 \/ setup.linked) /\ setup.p2p

InitCustom(r) ==
    /\ IF CanCustom THEN Goes(r, "start", "customGather") /\ Enter(r)
                    ELSE Goes(r, "start", "firefly") /\ UNCHANGED gathers
    /\ UNCHANGED <<setup, custom, firefly, name, mem, sent, call, out, faults>>

\* create_shared_buffer for the metadata and the staging buffer: allocate,
\* exchange the handles, open the peers' (the two exchanges are one here)
CustomBuffers(r) ==
    /\ Goes(r, "customGather", "firefly")
    /\ Gathered(r)
    /\ custom' = [custom EXCEPT ![r].on = TRUE]
    /\ UNCHANGED <<setup, gathers, firefly, name, mem, sent, call, out, faults>>

\* _select_backend, _select_backend_n
Backend == CASE setup.prefer = "p2p" -> "p2p"
             [] setup.prefer = "shm" -> "shm"
             [] OTHER -> IF setup.p2p THEN "p2p" ELSE "shm"

SelectBackend(r) ==
    /\ firefly' = [firefly EXCEPT ![r].backend = Backend]
    /\ IF Backend = "p2p" THEN Goes(r, "firefly", "p2pGather") /\ Enter(r)
                          ELSE Goes(r, "firefly", "shm") /\ UNCHANGED gathers
    /\ UNCHANGED <<setup, custom, name, mem, sent, call, out, faults>>

\* The extension does not compile in this process: it will not use Firefly
LoadFails(r) ==
    /\ Goes(r, "firefly", "built")
    /\ Fails(r)
    /\ Enter(r)
    /\ UNCHANGED <<setup, custom, firefly, name, mem, sent, call, out>>

\* _init_p2p, _init_p2p_butterfly: exchange the buffers, then clear the flags
\* of this rank's buffer and of every peer's, which the peers clear as well
InitP2P(r) ==
    /\ Goes(r, "p2pGather", "zero")
    /\ Gathered(r)
    /\ firefly' = [firefly EXCEPT ![r].base = "device"]
    /\ UNCHANGED <<setup, gathers, custom, name, mem, sent, call, out, faults>>

ZeroMeta(r) ==
    /\ Goes(r, "zero", "built")
    /\ mem' = [mem EXCEPT !["device"] = NewArea]
    /\ firefly' = [firefly EXCEPT ![r].on = TRUE]
    /\ Enter(r)
    /\ UNCHANGED <<setup, custom, name, sent, call, out, faults>>

\* The buffer cannot be allocated here: this rank alone turns to shared memory
P2PFails(r) ==
    /\ Goes(r, "firefly", "shm")
    /\ Backend = "p2p"
    /\ Fails(r)
    /\ firefly' = [firefly EXCEPT ![r].backend = "shm"]
    /\ UNCHANGED <<setup, gathers, custom, name, mem, sent, call, out>>

\* A peer's handle cannot be opened, or the flags not be cleared: likewise, but
\* the peers have had this rank's handle and go on
P2POpenFails(r) ==
    /\ \/ Goes(r, "p2pGather", "shm") /\ Gathered(r)
       \/ Goes(r, "zero", "shm")
    /\ Fails(r)
    /\ firefly' = [firefly EXCEPT ![r].backend = "shm", ![r].base = "none"]
    /\ UNCHANGED <<setup, gathers, custom, name, mem, sent, call, out>>

\* _init_shm, _init_shm_n on rank 0: _unlink_shm, then create.  An attempt that
\* finds a name it could not remove changes nothing and is repeated.
UnlinkStale(r) ==
    /\ r = 0
    /\ Goes(r, "shm", "create")
    /\ name' = "none"
    /\ UNCHANGED <<setup, gathers, custom, firefly, mem, sent, call, out, faults>>

CreateSegment(r) ==
    /\ r = 0
    /\ Goes(r, "create", "register")
    /\ name' = "fresh"
    /\ mem' = [mem EXCEPT !["fresh"] = NewArea]
    /\ firefly' = [firefly EXCEPT ![r].base = "fresh"]
    /\ UNCHANGED <<setup, gathers, custom, sent, call, out, faults>>

\* Ten attempts have not removed the name
CreateTimesOut(r) ==
    /\ r = 0
    /\ Goes(r, "shm", "built")
    /\ name # "none"
    /\ Fails(r)
    /\ Enter(r)
    /\ UNCHANGED <<setup, custom, firefly, name, mem, sent, call, out>>

\* SharedMemory raises anything else (no space left, a segment that rank 0 has
\* not given its size yet): nothing catches it, the worker fails
SegmentFails(r) ==
    /\ \/ r = 0 /\ Goes(r, "create", "failed")
       \/ r # 0 /\ name # "none" /\ Goes(r, "shm", "failed")
    /\ Fails(r)
    /\ UNCHANGED <<setup, gathers, custom, firefly, name, mem, sent, call, out>>

\* Mutant: no retry, a rank that comes first gives up
AttachOnce(r) ==
    /\ r # 0
    /\ Goes(r, "shm", IF name = "none" THEN "built" ELSE "register")
    /\ firefly' = [firefly EXCEPT ![r].base = name]
    /\ IF name = "none" THEN Enter(r) ELSE UNCHANGED gathers
    /\ UNCHANGED <<setup, custom, name, mem, sent, call, out, faults>>

\* The other ranks retry until the name denotes a segment, whichever it is
AttachSegment(r) ==
    /\ r # 0
    /\ Goes(r, "shm", "register")
    /\ name # "none"
    /\ firefly' = [firefly EXCEPT ![r].base = name]
    /\ UNCHANGED <<setup, gathers, custom, name, mem, sent, call, out, faults>>

\* 400 attempts of 50 ms were not enough
AttachTimesOut(r) ==
    /\ r # 0
    /\ Goes(r, "shm", "built")
    /\ name = "none"
    /\ Follows(r)
    /\ Enter(r)
    /\ UNCHANGED <<setup, custom, firefly, name, mem, sent, call, out>>

\* cudaHostRegister; a failure unmaps the segment and leaves its name
Register(r) ==
    /\ Goes(r, "register", "built")
    /\ firefly' = [firefly EXCEPT ![r].on = TRUE]
    /\ Enter(r)
    /\ UNCHANGED <<setup, custom, name, mem, sent, call, out, faults>>

RegisterFails(r) ==
    /\ Goes(r, "register", "built")
    /\ Fails(r)
    /\ firefly' = [firefly EXCEPT ![r].base = "none"]
    /\ Enter(r)
    /\ UNCHANGED <<setup, custom, name, mem, sent, call, out>>

(***************************************************************************)
(* Choosing a communicator                                                 *)
(***************************************************************************)
Plan == setup.plan
Call(n) == Plan[n]

\* Little is gained on more than two cards without NVLink
ShouldCustomAR(c) == (setup.world = 2 \/ setup.linked) /\ c.size < CustomMax
ShouldCustomAllGather(c) == setup.linked /\ c.size \in 1 .. CustomMax
ShouldCustomReduceScatter(c) ==
    setup.linked /\ c.size % setup.world = 0 /\ c.size \in 1 .. CustomMax

TakesCustom(r, c) ==
    /\ custom[r].on
    /\ CASE c.op = "reduce" -> ShouldCustomAR(c)
         [] c.op = "gather" -> ShouldCustomAllGather(c)
         [] c.op = "scatter" -> ShouldCustomReduceScatter(c)

\* should_firefly_ar
TakesFirefly(r, c) ==
    firefly[r].on /\ c.op = "reduce" /\ c.half /\ c.size >= FireflyMin

\* CudaCommunicator.all_reduce: the first that fits.  A caller of
\* custom_all_gather and custom_reduce_scatter turns to NCCL when they decline
Dispatch(r, c) == CASE TakesCustom(r, c) -> "custom"
                    [] ~TakesCustom(r, c) /\ TakesFirefly(r, c) -> "firefly"
                    [] OTHER -> "nccl"

\* _use_registered_graph_inputs: full graphs only, unless forced
RegisteredInput(c) ==
    CASE setup.graphInput = "registered" -> TRUE
      [] setup.graphInput = "staging" -> FALSE
      [] OTHER -> c.graph = "full"

\* Every other group is created by collectives after this one, so no rank
\* leaves the set-up before all have built their communicators.  capture()
\* records the inputs of graphs and then exchanges their addresses.
Capture(r) ==
    /\ Goes(r, "built", "capture")
    /\ Gathered(r)
    /\ custom' = [custom EXCEPT ![r].inputs =
           {n \in DOMAIN Plan : /\ Call(n).graph # "none"
                                /\ Dispatch(r, Call(n)) = "custom"
                                /\ RegisteredInput(Call(n))}]
    /\ Enter(r)
    /\ UNCHANGED <<setup, firefly, name, mem, sent, call, out, faults>>

\* register_graph_buffers; the private buffers of piecewise graphs cannot be
\* exported to another process, and the worker fails on them
Exportable(n) == Call(n).graph = "full"

RegisterGraphBuffers(r) ==
    /\ Gathered(r)
    /\ Goes(r, "capture", IF \A n \in custom[r].inputs : Exportable(n)
                          THEN "idle" ELSE "failed")
    /\ UNCHANGED <<setup, gathers, custom, firefly, name, mem, sent, call, out, faults>>

Chunks(n) == (Call(n).size + ChunkCap - 1) \div ChunkCap

\* What rank r contributes to call n: all of it, or one chunk
Contribution(r, n) == {<<r, n, chunk>> : chunk \in 1 .. Chunks(n)}

\* Enter the next call of the program
StartCall(r) ==
    LET n == call[r].n + 1
        to == Dispatch(r, Call(n))
    IN  /\ at[r] = "idle"
        /\ n \in DOMAIN Plan
        /\ at' = [at EXCEPT ![r] = IF to = "firefly" THEN "publish" ELSE to]
        /\ call' = [call EXCEPT ![r].n = n, ![r].chunk = 1, ![r].sum = Nothing]
        /\ sent' = IF to = "firefly" THEN sent
                   ELSE [sent EXCEPT ![to][r] = Append(@, n)]
        /\ UNCHANGED <<setup, gathers, custom, firefly, name, mem, out, faults>>

Returns(r, value) == out' = [out EXCEPT ![r] = Append(@, value)]

\* A library's collective: this rank's k-th call meets everyone's k-th call
Meets(r, library) ==
    LET k == Len(sent[library][r])
    IN  /\ Goes(r, library, "idle")
        /\ \A other \in Ranks : Len(sent[library][other]) >= k
        /\ Returns(r, Value(UNION {Contribution(other, sent[library][other][k])
                                    : other \in Ranks}, TRUE))
        /\ UNCHANGED <<setup, gathers, custom, firefly, name, mem, sent, call, faults>>

\* custom_all_reduce, custom_all_gather, custom_reduce_scatter
CustomCall(r) == Meets(r, "custom")

\* pynccl_comm's all_reduce, all_gather and reduce_scatter
NcclCall(r) == Meets(r, "nccl")

(***************************************************************************)
(* The exchange of FireflyAllReduce (firefly_allreduce.cu)                 *)
(***************************************************************************)
Area(r) == mem[firefly[r].base]
Post(r, field, value) == mem' = [mem EXCEPT ![firefly[r].base][field][r] = value]

\* rank ^ offset
Partner(r) == LET offset == 2 ^ call[r].round
              IN  IF (r \div offset) % 2 = 0 THEN r + offset ELSE r - offset

Peers(r) == Ranks \ {r}
Amax(r, n) == IF (r + n) % setup.world = 0 THEN 2 ELSE 1

\* The largest magnitude a scale represents: the amax of two cards, N times it
\* for more, because their partial sums are quantised again
Representable(amax) == IF setup.world = 2 THEN amax ELSE amax * setup.world

Magnitude(value) == MapThenSumSet(LAMBDA t : Amax(t[1], t[2]), value.terms)

Exchanging == <<setup, gathers, custom, firefly, name, sent, faults>>

\* Copy the chunk, write this rank's amax and publish it (st.release)
PublishScale(r) ==
    /\ Goes(r, "publish", "scale")
    /\ mem' = [mem EXCEPT ![firefly[r].base].amax[r] = Amax(r, call[r].n),
                          ![firefly[r].base].scale[r] = call[r].seq]
    /\ call' = [call EXCEPT ![r].work = Value({<<r, call[r].n, call[r].chunk>>}, TRUE),
                            ![r].scale = Amax(r, call[r].n),
                            ![r].round = 0,
                            ![r].peer = Min(Peers(r))]
    /\ UNCHANGED <<Exchanging, out>>

\* Wait for the next peer's flag to EQUAL seq, then read its amax
SeeScale(r) ==
    LET peer == call[r].peer
        later == {p \in Peers(r) : p > peer}
    IN  /\ Goes(r, "scale", IF later = {} THEN "quant" ELSE "scale")
        /\ Area(r).scale[peer] = call[r].seq
        /\ call' = [call EXCEPT
               ![r].scale = Max({@, Area(r).amax[peer]}),
               ![r].peer = IF later = {} THEN @ ELSE Min(later)]
        /\ UNCHANGED <<Exchanging, mem, out>>

\* ar_quant: the partial sum into this rank's slot
Quant(r) ==
    /\ Goes(r, "quant", "data")
    /\ Post(r, "slot", [scale |-> call[r].scale,
                        value |-> Value(call[r].work.terms,
                                        /\ call[r].work.ok
                                        /\ Magnitude(call[r].work)
                                             <= Representable(call[r].scale))])
    /\ UNCHANGED <<Exchanging, call, out>>

\* ar_set_spin: publish the data flag, then wait for the partner's
SetData(r) ==
    /\ Goes(r, "data", "dataSpin")
    /\ Post(r, "data", call[r].seq)
    /\ UNCHANGED <<Exchanging, call, out>>

SeeData(r) ==
    /\ Goes(r, "dataSpin", "sum")
    /\ Area(r).data[Partner(r)] = call[r].seq
    /\ UNCHANGED <<Exchanging, mem, call, out>>

\* ar_dequant_sum: own part plus the partner's, both with this rank's scale
DequantSum(r) ==
    LET mine == Area(r).slot[r]
        theirs == Area(r).slot[Partner(r)]
    IN  /\ Goes(r, "sum", "barrier")
        /\ call' = [call EXCEPT ![r].work =
               Value(mine.value.terms \cup theirs.value.terms,
                     /\ mine.value.ok /\ theirs.value.ok
                     /\ mine.scale = call[r].scale /\ theirs.scale = call[r].scale
                     /\ mine.value.terms \cap theirs.value.terms = {})]
        /\ UNCHANGED <<Exchanging, mem, out>>

SetBarrier(r) ==
    /\ Goes(r, "barrier", "barrierSpin")
    /\ Post(r, "barrier", call[r].seq)
    /\ UNCHANGED <<Exchanging, call, out>>

\* ar_bump_seq
BumpSeq(r) == call[r].seq + 1

LastRound(r) == 2 ^ (call[r].round + 1) >= setup.world

\* all_reduce loops over the chunks of a message larger than a slot
MoreChunks(r) == call[r].chunk < Chunks(call[r].n)

\* Mutant: no rank waits for its partner to have read
BarrierSkipped(r) == TRUE

BarrierSeen(r) == Area(r).barrier[Partner(r)] = call[r].seq

\* The partner has read this rank's slot: next round, next chunk, or return
SeeBarrier(r) ==
    LET total == Value(call[r].sum.terms \cup call[r].work.terms,
                       call[r].sum.ok /\ call[r].work.ok)
    IN  /\ at[r] = "barrierSpin"
        /\ BarrierSeen(r)
        /\ IF ~LastRound(r)
           THEN /\ Goes(r, "barrierSpin", "quant")
                /\ call' = [call EXCEPT ![r].seq = BumpSeq(r), ![r].round = @ + 1]
                /\ UNCHANGED out
           ELSE IF MoreChunks(r)
           THEN /\ Goes(r, "barrierSpin", "publish")
                /\ call' = [call EXCEPT ![r].seq = BumpSeq(r), ![r].sum = total,
                                        ![r].chunk = @ + 1]
                /\ UNCHANGED out
           ELSE /\ Goes(r, "barrierSpin", "idle")
                /\ call' = [call EXCEPT ![r].seq = BumpSeq(r)]
                /\ Returns(r, total)
        /\ UNCHANGED <<Exchanging, mem>>

(***************************************************************************)
(* Tear-down                                                               *)
(***************************************************************************)
Finished(r) == at[r] \in {"idle", "gone"} /\ call[r].n = Len(Plan)

\* FireflyAllReduce.destroy: rank 0 removes the name if it still uses it
NameAfter(r) ==
    IF r = 0 /\ firefly[r].on /\ firefly[r].backend = "shm" THEN "none" ELSE name

\* CudaCommunicator.destroy, once the engine has stopped every rank
Destroy(r) ==
    /\ at[r] = "idle"
    /\ \A other \in Ranks : Finished(other)
    /\ at' = [at EXCEPT ![r] = "gone"]
    /\ name' = NameAfter(r)
    /\ custom' = [custom EXCEPT ![r].on = FALSE]
    /\ firefly' = [firefly EXCEPT ![r].on = FALSE, ![r].base = "none"]
    /\ UNCHANGED <<setup, gathers, mem, sent, call, out, faults>>

Step(r) ==
    \/ InitCustom(r) \/ CustomBuffers(r) \/ SelectBackend(r)
    \/ InitP2P(r) \/ ZeroMeta(r)
    \/ UnlinkStale(r) \/ CreateSegment(r) \/ AttachSegment(r) \/ Register(r)
    \/ Capture(r) \/ RegisterGraphBuffers(r) \/ StartCall(r)
    \/ CustomCall(r) \/ NcclCall(r)
    \/ PublishScale(r) \/ SeeScale(r) \/ Quant(r) \/ SetData(r) \/ SeeData(r)
    \/ DequantSum(r) \/ SetBarrier(r) \/ SeeBarrier(r) \/ Destroy(r)

Fault(r) ==
    \/ LoadFails(r) \/ P2PFails(r) \/ P2POpenFails(r)
    \/ CreateTimesOut(r) \/ SegmentFails(r) \/ AttachTimesOut(r) \/ RegisterFails(r)

Next == \E r \in Ranks : Step(r) \/ Fault(r)

Spec == Init /\ [][Next]_vars

\* Each rank's process and stream keep running
FairSpec == Spec /\ \A r \in AllRanks : WF_vars(r \in Ranks /\ Step(r))

-----------------------------------------------------------------------------
Places == {"start", "custom", "customGather", "firefly", "p2pGather", "zero", "shm", "create",
           "register", "built", "capture", "failed", "idle", "nccl", "publish",
           "scale", "quant", "data", "dataSpin", "sum", "barrier", "barrierSpin", "gone"}

\* Type invariant; a call never runs past the chunks of its message
TypeOK ==
    /\ setup \in Setups
    /\ at \in [AllRanks -> Places]
    /\ gathers \in [AllRanks -> Nat]
    /\ name \in Segments \cup {"none"}
    /\ faults \in 0 .. MaxFaults
    /\ \A r \in AllRanks :
        /\ custom[r].on \in BOOLEAN /\ custom[r].inputs \subseteq DOMAIN Plan
        /\ firefly[r].on \in BOOLEAN
        /\ firefly[r].backend \in {"shm", "p2p"}
        /\ firefly[r].base \in Areas \cup {"none"}
        /\ call[r].n \in 0 .. Len(Plan)
        /\ call[r].n > 0 => call[r].chunk \in 1 .. Chunks(call[r].n)
        /\ call[r].seq \in Nat \ {0}
        /\ Len(out[r]) \in 0 .. call[r].n

\* A rank came before rank 0 had removed the segment of a killed process, and
\* mapped that: it never meets the others, and may take old flags for theirs
AttachedStale == \E r \in Ranks : firefly[r].base = "stale"

\* Every result a rank returns is the sum of exactly one contribution of every
\* rank, each that rank's input to the SAME call, quantised with one scale and
\* never beyond what the scale represents -- whatever failed during set-up,
\* however far the ranks drift apart, and although slots are reused by the next
\* round, chunk and call, unless a rank has mapped a dead segment, whose old flags
\* it may take for its peers' (firefly_ar_exchange, firefly_ar_butterfly)
SumExact == AttachedStale \/
    \A r \in Ranks : \A n \in DOMAIN out[r] :
        /\ out[r][n].ok
        /\ out[r][n].terms = UNION {Contribution(other, n) : other \in Ranks}

\* Ranks wait for a flag to EQUAL their sequence number, so a flag that has moved
\* past it is never seen: no peer publishes a later scale or data flag while a
\* rank still waits for this one, and between two cards no later barrier flag,
\* unless the rank looks at a dead segment
NotOvertaken ==
    \A r \in Ranks : firefly[r].base # "stale" =>
        /\ at[r] = "scale" => \A p \in Peers(r) : p >= call[r].peer =>
                                 Area(r).scale[p] <= call[r].seq
        /\ at[r] = "dataSpin" => Area(r).data[Partner(r)] <= call[r].seq
        /\ at[r] = "barrierSpin" /\ setup.world = 2 =>
               Area(r).barrier[Partner(r)] <= call[r].seq

\* A clean shutdown leaves no segment of its own behind for the next start to
\* trip on, unless a set-up step failed on the way
NameFreed == (\A r \in Ranks : at[r] = "gone") /\ faults = 0 => name # "fresh"

\* A partner's barrier flag has moved past the number a rank waits for, which
\* only happens when the group is larger than two: the rank spins for ever
Overtaken(r) == at[r] = "barrierSpin" /\ Area(r).barrier[Partner(r)] > call[r].seq

\* The exchange through shared flags is exact: types (TypeOK), every result the sum
\* of one contribution of each rank (SumExact), no flag overtaken while a rank
\* waits for it (NotOvertaken), no segment left behind (NameFreed).
ExchangeExact == TypeOK /\ SumExact /\ NotOvertaken /\ NameFreed

\* Every call returns and the group shuts down, unless a set-up step fails, a
\* rank has mapped a dead segment or a butterfly's barrier is overtaken, the only
\* ways a rank can be left behind: nobody waits for a rank that chose another
\* communicator or counts other chunks
EveryCallReturns ==
    <>( \/ faults > 0
        \/ AttachedStale
        \/ \E r \in Ranks : Overtaken(r)
        \/ \A r \in Ranks : at[r] = "gone")

=============================================================================
