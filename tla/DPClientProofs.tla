--------------------------- MODULE DPClientProofs ---------------------------
(***************************************************************************)
(* Proofs about DPClient, for any number of engines, requests and          *)
(* scalings: the in-flight counts are exact, and elastic scaling changes   *)
(* clients and engines together.  Both follow from one inductive           *)
(* invariant, DInv, which says for every phase of a scaling what every     *)
(* engine has been told, what it has done, and what is in its queue.       *)
(***************************************************************************)
EXTENDS DPClient, FiniteSetTheorems, SequenceTheorems, WellFoundedInduction, TLAPS

-----------------------------------------------------------------------------
(* The inductive invariant.                                                *)

Message ==
       [type : {"ADD", "ABORT"}, req : Requests]
  \cup [type : {"PAUSE"}, mode : {"abort", "keep"}]
  \cup [type : {"REINIT", "COMMIT", "LEAVE", "RESUME"}]

ScaleState ==
  [pc : {"none", "prepare", "pause", "commit", "switch", "resume"},
   to : Sizes, wait : SUBSET Engines, failed : SUBSET (Engines \cup {None}), experts : Nat]

\* What TypeOK leaves open: the queues, the snapshots and the scaling.
Typed ==
  /\ TypeOK
  /\ queue \in [Engines -> Seq(Message)]
  /\ news \in Seq(Nat)
  /\ scale \in ScaleState
  /\ experts \in Nat

Data == {"ADD", "ABORT"}

\* A queue without control messages, and one with a single one, of type t.
Clean(q) == \A i \in DOMAIN q : q[i].type \in Data

Once(q, t) ==
  \E k \in DOMAIN q : /\ q[k].type = t
                      /\ \A i \in DOMAIN q : i # k => q[i].type \in Data

\* Requests still queued at a removed engine come before the pause that aborts them.
Sealed(q) ==
  /\ \A i \in DOMAIN q : q[i].type = "PAUSE" => q[i].mode = "abort"
  /\ \A i \in DOMAIN q : q[i].type = "ADD" => \E k \in DOMAIN q : k > i /\ q[k].type = "PAUSE"

\* The control message that engine e has been sent in this phase and not read.
Due(e) ==
  IF e \in scale.failed THEN "nothing"
  ELSE IF scale.pc = "prepare" /\ e \in Kept(scale.to) /\ eng[e].eep = "none" THEN "REINIT"
  ELSE IF scale.pc = "pause" /\ e \in scale.wait THEN "PAUSE"
  ELSE IF scale.pc = "commit" /\ e \in scale.wait
       THEN IF e \in removing THEN "LEAVE" ELSE "COMMIT"
  ELSE IF scale.pc = "resume" /\ e \in scale.wait THEN "RESUME"
  ELSE "nothing"

QueueInv ==
  /\ \A e \in Engines : IF Due(e) = "nothing" THEN Clean(queue[e]) ELSE Once(queue[e], Due(e))
  /\ \A e \in removing : Sealed(queue[e])

\* The phases of a scaling, from the client's side.
Idle == scale.pc = "none" /\ prepared = 0
Preparing == scale.pc = "prepare" \/ (scale.pc = "none" /\ prepared # 0)
Committing == scale.pc \in {"pause", "commit", "switch"}

PhaseInv ==
  /\ scale.pc = "prepare" => prepared = 0
  /\ scale.pc # "prepare" /\ ~ Idle => prepared = scale.to
  /\ Idle \/ scale.pc = "resume" => core = scale.to /\ switched
  /\ Preparing => switched /\ core # scale.to /\ removing = {} /\ marker = <<>>
  /\ Committing => core = scale.to \/ (core < scale.to /\ removing = {} /\ marker = <<>>)
  /\ scale.pc = "pause" => ~ switched
  /\ scale.pc \in {"pause", "commit"} => marker = <<>>
  /\ scale.pc = "commit" /\ switched => scale.wait = {}
  /\ scale.pc = "pause" => scale.wait \subseteq OldEngines \cup removing
  /\ scale.pc = "commit" => scale.wait \subseteq OldEngines \cup removing
  /\ scale.pc = "resume" => scale.wait \subseteq OldEngines
  /\ scale.pc = "none" => scale.failed = {}
  /\ scale.pc \in {"pause", "commit", "resume"} => scale.failed \subseteq scale.wait

\* The client's tables: never longer than the engines routed to.
TableInv ==
  /\ Len(lb) \in 1..core /\ ranks <= core
  /\ marker \in {<<>>, <<core>>}

\* The engines: what they have done in each phase.
EngineInv ==
  /\ \A e \in Engines : e < core => eng[e].life = "up" /\ e \notin removing
  /\ \A e \in Engines : e < scale.to => eng[e].life \in {"starting", "up"} /\ e \notin removing
  /\ \A e \in removing : eng[e].life = "up"
  /\ \A e \in Engines : eng[e].life \in {"none", "gone"} => eng[e].eep = "none"
  /\ Idle \/ scale.pc = "resume" \/ (Committing /\ switched) =>
       \A e \in Engines : e < scale.to => eng[e].life = "up" /\ eng[e].eep = "none"
  /\ switched => \A e \in Engines \ removing : eng[e].eep # "committed"
  /\ scale.pc = "pause" => \A e \in Engines : eng[e].eep # "committed"
  /\ scale.pc = "commit" => \A e \in scale.wait : eng[e].eep # "committed"

\* Pauses: an engine that has answered is paused until all have switched.
PauseInv ==
  /\ scale.pc \in {"pause", "commit"} =>
       \A e \in OldEngines \cup removing :
          ~ (scale.pc = "pause" /\ e \in scale.wait) => eng[e].paused
  /\ ResumedAfterSwitch

\* Requests: one not sent is nowhere, one in flight is at its engine or on its
\* way back, and a removed engine that has paused holds none.
RequestInv ==
  /\ \A r \in Requests : req[r] = "new" => flight[r] = None
  /\ \A e \in removing : ~ (scale.pc = "pause" /\ e \in scale.wait) => held[e] = {}
  /\ InflightExact

PerEngine == InitExperts \div InitSize

\* Experts follow the engines, at PerEngine each.
ExpertInv ==
  /\ scale.experts = PerEngine * scale.to
  /\ scale.pc \in {"none", "prepare"} => experts = PerEngine * core

DInv ==
  /\ Typed /\ QueueInv /\ PhaseInv /\ TableInv /\ EngineInv /\ PauseInv
  /\ RequestInv /\ ExpertInv

-----------------------------------------------------------------------------
(* Lemmas on queues.                                                       *)

\* The fields of the messages.
LEMMA MessageFacts ==
  /\ \A r \in Requests, t \in Data : [type |-> t, req |-> r] \in Message
  /\ \A d \in {"abort", "keep"} : [type |-> "PAUSE", mode |-> d] \in Message
  /\ \A t \in {"REINIT", "COMMIT", "LEAVE", "RESUME"} : [type |-> t] \in Message
  /\ \A m \in Message : m.type \in Data => m.req \in Requests
BY DEF Message, Data

\* Reading a message moves the others up by one.
LEMMA TailFacts ==
  ASSUME NEW q \in Seq(Message), q # <<>>
  PROVE  /\ Tail(q) \in Seq(Message) /\ Head(q) \in Message /\ Head(q) = q[1]
         /\ Len(q) \in Nat \ {0} /\ DOMAIN q = 1..Len(q)
         /\ DOMAIN Tail(q) = 1..(Len(q) - 1)
         /\ \A i \in DOMAIN Tail(q) : i + 1 \in DOMAIN q /\ Tail(q)[i] = q[i + 1]
         /\ \A i \in DOMAIN q : i # 1 => i - 1 \in DOMAIN Tail(q) /\ Tail(q)[i - 1] = q[i]
OBVIOUS

\* Sending one adds it at the end.
LEMMA AppendFacts ==
  ASSUME NEW q \in Seq(Message), NEW m \in Message
  PROVE  /\ Append(q, m) \in Seq(Message) /\ q \o <<m>> = Append(q, m) /\ q \o << >> = q
         /\ Len(q) \in Nat /\ DOMAIN q = 1..Len(q)
         /\ DOMAIN Append(q, m) = DOMAIN q \cup {Len(q) + 1} /\ Len(q) + 1 \notin DOMAIN q
         /\ \A i \in DOMAIN q : Append(q, m)[i] = q[i] /\ i < Len(q) + 1
         /\ Append(q, m)[Len(q) + 1] = m
<1>1. q \o <<m>> = Append(q, m)
  BY AppendIsConcat
<1>2. q \o << >> = q
  BY ConcatEmptySeq
<1>. QED BY <1>1, <1>2

\* Data messages change nothing about the control messages under way.
LEMMA SendData ==
  ASSUME NEW q \in Seq(Message), NEW m \in Message, m.type \in Data
  PROVE  /\ Clean(q) => Clean(Append(q, m))
         /\ \A t : Once(q, t) => Once(Append(q, m), t)
         /\ Sealed(q) /\ m.type # "ADD" => Sealed(Append(q, m))
<1>. USE AppendFacts
<1>1. Clean(q) => Clean(Append(q, m))
  BY DEF Clean
<1>2. ASSUME NEW t, Once(q, t) PROVE Once(Append(q, m), t)
  BY <1>2 DEF Once
<1>3. ASSUME Sealed(q), m.type # "ADD" PROVE Sealed(Append(q, m))
  BY <1>3 DEF Sealed, Data
<1>. QED BY <1>1, <1>2, <1>3

\* A control message sent to a queue without one is the only one there, and the
\* pause that aborts is the last word to a removed engine.
LEMMA SendControl ==
  ASSUME NEW q \in Seq(Message), NEW m \in Message, Clean(q), m.type \notin Data
  PROVE  /\ Once(Append(q, m), m.type)
         /\ m.type = "PAUSE" => (m.mode = "abort" => Sealed(Append(q, m)))
         /\ m.type # "PAUSE" /\ Sealed(q) => Sealed(Append(q, m))
<1>. USE AppendFacts
<1>1. Once(Append(q, m), m.type)
  BY DEF Once, Clean
<1>2. ASSUME m.type = "PAUSE", m.mode = "abort" PROVE Sealed(Append(q, m))
  BY <1>2 DEF Sealed, Clean, Data
<1>3. ASSUME m.type # "PAUSE", Sealed(q) PROVE Sealed(Append(q, m))
  BY <1>3 DEF Sealed, Clean, Data
<1>. QED BY <1>1, <1>2, <1>3

\* Reading: a data message leaves the control message where it is, and the
\* control message is read once.
LEMMA Reading ==
  ASSUME NEW q \in Seq(Message), q # <<>>
  PROVE  /\ Clean(q) => Head(q).type \in Data /\ Clean(Tail(q))
         /\ \A t : t \notin Data /\ Once(q, t) =>
              /\ Head(q).type \in Data \cup {t}
              /\ Head(q).type \in Data => Once(Tail(q), t)
              /\ Head(q).type = t => Clean(Tail(q))
         /\ Sealed(q) => Sealed(Tail(q))
<1>. USE TailFacts
<1>1. Clean(q) => Head(q).type \in Data /\ Clean(Tail(q))
  BY DEF Clean
<1>2. ASSUME NEW t, t \notin Data, Once(q, t)
      PROVE /\ Head(q).type \in Data \cup {t}
            /\ Head(q).type \in Data => Once(Tail(q), t)
            /\ Head(q).type = t => Clean(Tail(q))
  <2>1. PICK k \in DOMAIN q : /\ q[k].type = t
                              /\ \A i \in DOMAIN q : i # k => q[i].type \in Data
    BY <1>2 DEF Once
  <2>2. CASE k = 1
    BY <2>1, <2>2, <1>2 DEF Clean
  <2>3. CASE k # 1
    <3>1. k - 1 \in DOMAIN Tail(q) /\ Tail(q)[k - 1].type = t
      BY <2>1, <2>3
    <3>2. \A i \in DOMAIN Tail(q) : i # k - 1 => Tail(q)[i].type \in Data
      BY <2>1, <2>3
    <3>3. Head(q).type \in Data
      BY <2>1, <2>3
    <3>. QED BY <3>1, <3>2, <3>3, <1>2 DEF Once
  <2>. QED BY <2>2, <2>3
<1>3. ASSUME Sealed(q) PROVE Sealed(Tail(q))
  <2>1. \A i \in DOMAIN Tail(q) : Tail(q)[i].type = "PAUSE" => Tail(q)[i].mode = "abort"
    BY <1>3 DEF Sealed
  <2>2. ASSUME NEW i \in DOMAIN Tail(q), Tail(q)[i].type = "ADD"
        PROVE \E k \in DOMAIN Tail(q) : k > i /\ Tail(q)[k].type = "PAUSE"
    <3>1. PICK k \in DOMAIN q : k > i + 1 /\ q[k].type = "PAUSE"
      BY <1>3, <2>2 DEF Sealed
    <3>2. k - 1 \in DOMAIN Tail(q) /\ Tail(q)[k - 1] = q[k] /\ k - 1 > i
      BY <3>1, <2>2
    <3>. QED BY <3>1, <3>2
  <2>. QED BY <2>1, <2>2 DEF Sealed
<1>. QED BY <1>1, <1>2, <1>3

\* A removed engine to which no pause is under way has no request queued.
LEMMA NoneQueued ==
  ASSUME NEW q \in Seq(Message), Sealed(q),
         Clean(q) \/ \E t \in {"LEAVE", "COMMIT", "RESUME", "REINIT"} : Once(q, t)
  PROVE  \A i \in DOMAIN q : q[i].type # "ADD"
<1>1. \A k \in DOMAIN q : q[k].type # "PAUSE"
  BY DEF Clean, Once, Data
<1>. QED BY <1>1 DEF Sealed

-----------------------------------------------------------------------------
(* Lemmas on routing.                                                      *)

\* A non-empty set of natural numbers has a least element.
LEMMA Least ==
  ASSUME NEW S \in SUBSET Nat, S # {}
  PROVE  \E x \in S : \A y \in S : x <= y
<1>. DEFINE R == OpToRel(<, Nat)
<1>1. IsWellFoundedOn(R, Nat)
  BY NatLessThanWellFounded
<1>2. PICK x \in S : \A y \in S : ~ (<<y, x>> \in R)
  <2>. HIDE DEF R
  <2>. QED BY <1>1, WFMin
<1>3. ASSUME NEW y \in S PROVE x <= y
  <2>1. <<y, x>> \in R <=> y < x
    BY DEF OpToRel
  <2>2. x \in Nat /\ y \in Nat
    OBVIOUS
  <2>. HIDE DEF R
  <2>3. ~ (y < x)
    BY <2>1, <1>2
  <2>. QED BY <2>2, <2>3
<1>. QED BY <1>3

\* get_core_engine_for_request always finds an engine of lb_engines.
LEMMA ChosenInTable ==
  ASSUME lb \in Seq(Nat), Len(lb) \in Nat \ {0}, start \in Nat,
         MaxSize \in Nat, Len(lb) <= MaxSize,
         inflight \in [Engines -> Nat]
  PROVE  ChosenEngine \in 0..(Len(lb) - 1)
<1>. DEFINE places == 0..(Len(lb) - 1)
            Best(i) == \A j \in places : \/ Load(Scan(i)) < Load(Scan(j))
                                         \/ Load(Scan(i)) = Load(Scan(j)) /\ i <= j
<1>1. \A i \in places : Scan(i) \in places
  BY DEF Scan
<1>2. \A i \in places : Load(Scan(i)) \in Nat
  <2>1. \A e \in places : Load(e) \in Nat
    BY DEF Load, Engines
  <2>. QED BY <1>1, <2>1
<1>3. PICK l \in {Load(Scan(i)) : i \in places} : \A y \in {Load(Scan(i)) : i \in places} : l <= y
  <2>1. {Load(Scan(i)) : i \in places} \in SUBSET Nat
    BY <1>2
  <2>2. {Load(Scan(i)) : i \in places} # {}
    <3>1. 0 \in places
      OBVIOUS
    <3>. QED BY <3>1
  <2>. QED BY <2>1, <2>2, Least
<1>4. PICK i \in {j \in places : Load(Scan(j)) = l} : \A j \in {k \in places : Load(Scan(k)) = l} : i <= j
  <2>. DEFINE T == {j \in places : Load(Scan(j)) = l}
  <2>1. T \in SUBSET Nat
    OBVIOUS
  <2>2. T # {}
    BY <1>3
  <2>. HIDE DEF T
  <2>3. \E x \in T : \A y \in T : x <= y
    BY <2>1, <2>2, Least
  <2>. QED BY <2>3 DEF T
<1>5. i \in places /\ Best(i)
  <2>1. ASSUME NEW j \in places
        PROVE \/ Load(Scan(i)) < Load(Scan(j))
              \/ Load(Scan(i)) = Load(Scan(j)) /\ i <= j
    <3>1. l <= Load(Scan(j)) /\ Load(Scan(j)) \in Nat /\ Load(Scan(i)) = l /\ l \in Nat
      BY <1>2, <1>3, <1>4
    <3>. QED BY <3>1, <1>4
  <2>. QED BY <2>1, <1>4
<1>6. (CHOOSE k \in places : Best(k)) \in places
  <2>. HIDE DEF Best, places
  <2>. QED BY <1>5
<1>. QED BY <1>1, <1>6 DEF ChosenEngine

-----------------------------------------------------------------------------
(* DInv is inductive.                                                      *)

\* What the assumptions on the constants say of engines, sizes and experts.
LEMMA Constants ==
  /\ MaxSize \in Nat \ {0} /\ InitSize \in 1..MaxSize
  /\ 0 \in Engines /\ None \notin Engines /\ Engines \subseteq Nat
  /\ \A n \in Sizes : n \in Nat /\ n >= 1 /\ n <= MaxSize
  /\ PerEngine \in Nat /\ InitExperts = PerEngine * InitSize /\ InitExperts \in Nat
<1>1. MaxSize \in Nat \ {0} /\ InitSize \in 1..MaxSize
  BY DPClientAssumption
<1>2. PerEngine \in Nat /\ InitExperts = PerEngine * InitSize /\ InitExperts \in Nat
  BY DPClientAssumption DEF PerEngine
<1>. QED BY <1>1, <1>2 DEF Engines, None, Sizes

\* Fewer engines are a part of more.
LEMMA FewerEngines ==
  \A x, y \in Nat : x <= y => 0..(x - 1) \subseteq 0..(y - 1)
OBVIOUS

\* Before the first request no engine has anything to do.
LEMMA InitDInv == Init => DInv
<1>. SUFFICES ASSUME Init PROVE DInv
  OBVIOUS
<1>. USE Constants DEF Init, InitStats
<1>1. Typed
  <2>1. lb \in Seq(Nat)
    BY IsASeq
  <2>2. 0 \in 0..Cardinality(Requests)
    BY FS_CardinalityType, DPClientAssumption
  <2>3. TypeOK
    BY <2>1, <2>2, DPClientAssumption DEF TypeOK, Sizes, EngineState
  <2>. QED BY <2>3 DEF Typed, ScaleState, Sizes
<1>2. QueueInv
  BY DEF QueueInv, Due, Clean
<1>3. PhaseInv /\ TableInv
  BY DEF PhaseInv, TableInv, Idle, Preparing, Committing
<1>4. EngineInv /\ PauseInv
  BY DEF EngineInv, PauseInv, ResumedAfterSwitch, Idle, Preparing, Committing
<1>5. InflightExact
  <2>1. \A e \in Engines : {r \in Requests : flight[r] = e} = {}
    OBVIOUS
  <2>. QED BY <2>1, FS_EmptySet DEF InflightExact
<1>6. RequestInv
  BY <1>5 DEF RequestInv
<1>7. ExpertInv
  BY DEF ExpertInv
<1>. QED BY <1>1, <1>2, <1>3, <1>4, <1>6, <1>7 DEF DInv

\* The parts of DInv that only a scaling or an engine disturbs.
LEMMA OthersKept ==
  ASSUME DInv, UNCHANGED <<core, eng, scale, prepared, switched, removing, experts, marker>>
  PROVE  /\ PhaseInv' /\ EngineInv' /\ PauseInv' /\ ExpertInv'
         /\ \A e \in Engines : Due(e)' = Due(e)
<1>1. \A e \in Engines : Due(e)' = Due(e)
  BY DEF Due, Kept
<1>2. PhaseInv'
  BY DEF DInv, PhaseInv, Idle, Preparing, Committing, OldEngines
<1>3. EngineInv'
  BY DEF DInv, EngineInv, Idle, Preparing, Committing
<1>4. PauseInv' /\ ExpertInv'
  BY DEF DInv, PauseInv, ResumedAfterSwitch, ExpertInv, OldEngines
<1>. QED BY <1>1, <1>2, <1>3, <1>4

\* A data message to one engine.
LEMMA SendOneStep ==
  ASSUME DInv, NEW e \in Engines, NEW m \in Message, m.type \in Data,
         m.type = "ADD" => e \notin removing, Send(e, m),
         UNCHANGED <<core, eng, scale, removing>>
  PROVE  /\ queue' \in [Engines -> Seq(Message)] /\ QueueInv'
         /\ eng[e].life # "gone" => queue' = [queue EXCEPT ![e] = Append(queue[e], m)]
         /\ \A f \in Engines : queue'[f] = queue[f] \/ queue'[f] = Append(queue[f], m)
<1>1. queue \in [Engines -> Seq(Message)]
  BY DEF DInv, Typed
<1>2. CASE eng[e].life = "gone"
  BY <1>1, <1>2 DEF Send, DInv, QueueInv, Due, Kept
<1>3. CASE eng[e].life # "gone"
  <2>1. queue' = [queue EXCEPT ![e] = Append(queue[e], m)]
    BY <1>3 DEF Send
  <2>2. Append(queue[e], m) \in Seq(Message)
    BY <1>1, AppendFacts
  <2>3. \A f \in Engines : Due(f)' = Due(f)
    BY DEF Due, Kept
  <2>4. ASSUME NEW f \in Engines
        PROVE  IF Due(f)' = "nothing" THEN Clean(queue'[f]) ELSE Once(queue'[f], Due(f)')
    <3>1. IF Due(f) = "nothing" THEN Clean(queue[f]) ELSE Once(queue[f], Due(f))
      BY DEF DInv, QueueInv
    <3>2. CASE f = e
      <4>1. queue'[f] = Append(queue[f], m)
        BY <2>1, <1>1, <3>2
      <4>. QED BY <3>1, <4>1, <2>3, <1>1, SendData
    <3>3. CASE f # e
      BY <3>1, <3>3, <2>1, <2>3, <1>1
    <3>. QED BY <3>2, <3>3
  <2>5. ASSUME NEW f \in removing PROVE Sealed(queue'[f])
    <3>1. Sealed(queue[f]) /\ f \in Engines
      BY DEF DInv, QueueInv, Typed, TypeOK
    <3>2. CASE f = e
      <4>1. queue'[f] = Append(queue[f], m) /\ m.type # "ADD"
        BY <2>1, <1>1, <3>2
      <4>. QED BY <3>1, <4>1, <1>1, SendData
    <3>3. CASE f # e
      BY <3>1, <3>3, <2>1, <1>1
    <3>. QED BY <3>2, <3>3
  <2>6. QueueInv'
    BY <2>4, <2>5 DEF QueueInv
  <2>. QED BY <1>1, <2>1, <2>2, <2>6
<1>. QED BY <1>2, <1>3

\* Where a request in flight is.
Queued(q, r) == \E i \in DOMAIN q : q[i].type = "ADD" /\ q[i].req = r

Placed(r) == r \in outs \cup held[flight[r]] \/ Queued(queue[flight[r]], r)

\* A message sent is added to the ones queued.
LEMMA QueuedAppend ==
  ASSUME NEW q \in Seq(Message), NEW m \in Message, NEW r
  PROVE  /\ Queued(q, r) => Queued(Append(q, m), r)
         /\ m.type = "ADD" => (m.req = r => Queued(Append(q, m), r))
BY AppendFacts DEF Queued

\* Only the message read is taken away.
LEMMA QueuedTail ==
  ASSUME NEW q \in Seq(Message), q # <<>>, NEW r, Queued(q, r)
  PROVE  Queued(Tail(q), r) \/ (Head(q).type = "ADD" /\ Head(q).req = r)
<1>1. PICK i \in DOMAIN q : q[i].type = "ADD" /\ q[i].req = r
  BY DEF Queued
<1>2. CASE i = 1
  BY <1>1, <1>2, TailFacts
<1>3. CASE i # 1
  <2>1. i - 1 \in DOMAIN Tail(q) /\ Tail(q)[i - 1] = q[i]
    BY <1>3, TailFacts
  <2>. QED BY <1>1, <2>1 DEF Queued
<1>. QED BY <1>2, <1>3

\* InflightExact in terms of Placed.
LEMMA InflightPlaced ==
  InflightExact <=>
    /\ \A e \in Engines : inflight[e] = Cardinality({r \in Requests : flight[r] = e})
    /\ \A r \in Requests : flight[r] # None => Placed(r)
BY Zenon DEF InflightExact, Placed, Queued

\* A request in flight is on its way at one of the engines.
LEMMA InFlight ==
  ASSUME DInv, NEW r \in Requests, flight[r] # None
  PROVE  Placed(r) /\ flight[r] \in Engines /\ queue[flight[r]] \in Seq(Message)
<1>1. flight[r] \in Engines /\ queue[flight[r]] \in Seq(Message)
  BY DEF DInv, Typed, TypeOK
<1>2. InflightExact
  BY DEF DInv, RequestInv
<1>. QED BY <1>1, <1>2, InflightPlaced

\* add_request_async preserves DInv.
LEMMA ClientAddStep ==
  ASSUME DInv, NEW r \in Requests, ClientAdd(r) PROVE DInv'
<1>. DEFINE m == [type |-> "ADD", req |-> r]
<1>1. Typed /\ TypeOK /\ TableInv
  BY DEF DInv, Typed
<1>2. ChosenEngine \in 0..(Len(lb) - 1)
  <2>1. inflight \in [Engines -> Nat] /\ Len(lb) \in Nat \ {0} /\ Len(lb) <= MaxSize
    <3>1. Cardinality(Requests) \in Nat
      BY DPClientAssumption, FS_CardinalityType
    <3>. QED BY <1>1, <3>1, Constants DEF TypeOK, TableInv, Sizes
  <2>. QED BY <2>1, <1>1, ChosenInTable, Constants DEF TypeOK
<1>. DEFINE Balanced(e) == /\ e = ChosenEngine
                           /\ lb' = [lb EXCEPT ![e + 1] = @ + 1] /\ start' = (start + 1) % Len(lb)
            Told(e) == e \in OldEngines /\ lb' = lb /\ start' = start
<1>4. PICK e \in Engines :
        /\ req[r] = "new" /\ req' = [req EXCEPT ![r] = "sent"]
        /\ Balanced(e) \/ Told(e)
        /\ flight' = [flight EXCEPT ![r] = e]
        /\ inflight' = [inflight EXCEPT ![e] = @ + 1]
        /\ Send(e, m)
        /\ UNCHANGED <<core, ranks, held, eng, outs, known, news, marker, scale, prepared,
                       switched, removing, experts, nScalings>>
  BY DEF ClientAdd, stats, scaling
<1>. HIDE DEF m
<1>3. /\ e \in Engines /\ e < core /\ e \notin removing /\ eng[e].life = "up"
      /\ Balanced(e) => e + 1 \in DOMAIN lb
  <2>1. core \in Nat /\ Len(lb) \in 1..core /\ DOMAIN lb = 1..Len(lb) /\ e \in Nat
    BY <1>1, Constants DEF TypeOK, TableInv, Sizes
  <2>2. Balanced(e) => e < core /\ e + 1 \in DOMAIN lb
    BY <2>1, <1>2
  <2>3. Told(e) => e < core
    BY <2>1 DEF OldEngines
  <2>4. e < core
    BY <1>4, <2>2, <2>3
  <2>. QED BY <2>2, <2>4 DEF DInv, EngineInv
<1>5. m \in Message /\ m.type \in Data /\ m.type = "ADD" /\ m.req = r
  BY MessageFacts DEF m, Data
<1>6. /\ queue' \in [Engines -> Seq(Message)] /\ QueueInv'
      /\ queue' = [queue EXCEPT ![e] = Append(queue[e], m)]
  BY <1>3, <1>4, <1>5, SendOneStep
<1>7. lb' \in Seq(Nat) /\ Len(lb') = Len(lb) /\ start' \in Nat
  <2>1. CASE Balanced(e)
    <3>1. lb[e + 1] + 1 \in Nat
      BY <2>1, <1>1, <1>3, ElementOfSeq DEF TypeOK
    <3>2. lb' \in Seq(Nat) /\ Len(lb') = Len(lb)
      BY <2>1, <3>1, <1>1, <1>3, ExceptSeq DEF TypeOK
    <3>3. start' \in Nat
      BY <2>1, <1>1, Constants DEF TypeOK, TableInv, Sizes
    <3>. QED BY <3>2, <3>3
  <2>2. CASE Told(e)
    BY <2>2, <1>1 DEF TypeOK
  <2>. QED BY <2>1, <2>2, <1>4
<1>. HIDE DEF Balanced, Told
<1>8. TableInv'
  BY <1>1, <1>4, <1>7 DEF TableInv
<1>9. flight[r] = None
  BY <1>4 DEF DInv, RequestInv
<1>10. InflightExact'
  <2>1. ASSUME NEW f \in Engines
        PROVE  inflight'[f] = Cardinality({x \in Requests : flight'[x] = f})
    <3>1. inflight[f] = Cardinality({x \in Requests : flight[x] = f})
      BY DEF DInv, RequestInv, InflightExact
    <3>2. IsFiniteSet({x \in Requests : flight[x] = f})
      BY DPClientAssumption, FS_Subset
    <3>3. CASE f = e
      <4>1. {x \in Requests : flight'[x] = f} = {x \in Requests : flight[x] = f} \cup {r}
        BY <1>1, <1>4, <3>3 DEF TypeOK
      <4>2. r \notin {x \in Requests : flight[x] = f}
        BY <1>9, Constants
      <4>3. Cardinality({x \in Requests : flight'[x] = f}) =
              Cardinality({x \in Requests : flight[x] = f}) + 1
        BY <4>1, <4>2, <3>2, FS_AddElement
      <4>4. inflight'[f] = inflight[f] + 1
        BY <1>1, <1>4, <3>3 DEF TypeOK
      <4>. QED BY <4>3, <4>4, <3>1
    <3>4. CASE f # e
      <4>1. {x \in Requests : flight'[x] = f} = {x \in Requests : flight[x] = f}
        BY <1>1, <1>4, <1>9, <3>4, Constants DEF TypeOK
      <4>. QED BY <4>1, <3>1, <3>4, <1>1, <1>4 DEF TypeOK
    <3>. QED BY <3>3, <3>4
  <2>2. ASSUME NEW x \in Requests, flight'[x] # None PROVE Placed(x)'
    <3>1. CASE x = r
      <4>1. flight'[x] = e
        BY <3>1, <1>1, <1>4 DEF TypeOK
      <4>2. queue'[e] = Append(queue[e], m) /\ queue[e] \in Seq(Message)
        BY <1>6, <1>1, <1>3 DEF Typed
      <4>. QED BY <4>1, <4>2, <1>5, <3>1, QueuedAppend DEF Placed
    <3>2. CASE x # r
      <4>1. flight'[x] = flight[x]
        BY <3>2, <1>1, <1>4 DEF TypeOK
      <4>. Placed(x) /\ flight[x] \in Engines
        BY <4>1, <2>2, InFlight
      <4>2. outs' = outs /\ held' = held
        BY <1>4
      <4>3. CASE flight[x] = e
        <5>1. queue'[e] = Append(queue[e], m) /\ queue[e] \in Seq(Message)
          BY <1>6, <1>1, <1>3 DEF Typed
        <5>. QED BY <4>1, <4>2, <4>3, <5>1, <1>5, QueuedAppend DEF Placed
      <4>4. CASE flight[x] # e
        BY <4>1, <4>2, <4>4, <1>1, <1>6 DEF Placed, Typed
      <4>. QED BY <4>3, <4>4
    <3>. QED BY <3>1, <3>2
  <2>3. \A x \in Requests : flight'[x] # None => Placed(x)'
    BY <2>2
  <2>. QED BY <2>1, <2>3, Zenon DEF InflightExact, Placed, Queued
<1>11. inflight' \in [Engines -> 0..Cardinality(Requests)]
  <2>1. \A f \in Engines : Cardinality({x \in Requests : flight'[x] = f}) \in 0..Cardinality(Requests)
    BY DPClientAssumption, FS_Subset, FS_CardinalityType
  <2>2. inflight' \in [Engines -> Int]
    BY <1>1, <1>3, <1>4 DEF TypeOK
  <2>. QED BY <1>10, <2>1, <2>2 DEF InflightExact
<1>12. Typed'
  BY <1>1, <1>3, <1>4, <1>6, <1>7, <1>11, SMTT(40) DEF Typed, TypeOK
<1>13. RequestInv'
  BY <1>1, <1>4, <1>10, Constants DEF DInv, RequestInv, TypeOK
<1>14. PhaseInv' /\ EngineInv' /\ PauseInv' /\ ExpertInv'
  BY <1>4, OthersKept
<1>. QED BY <1>6, <1>8, <1>12, <1>13, <1>14 DEF DInv

\* abort_requests_async preserves DInv.
LEMMA ClientAbortStep ==
  ASSUME DInv, NEW r \in Requests, ClientAbort(r) PROVE DInv'
<1>. DEFINE m == [type |-> "ABORT", req |-> r]
<1>1. Typed /\ TypeOK /\ TableInv
  BY DEF DInv, Typed
<1>2. /\ req[r] = "sent" /\ req' = [req EXCEPT ![r] = "aborted"]
      /\ flight[r] = None => queue' = queue
      /\ flight[r] # None => Send(flight[r], m)
      /\ UNCHANGED <<core, lb, ranks, start, flight, inflight, held, eng, outs, known, news,
                     marker, scale, prepared, switched, removing, experts, nScalings>>
  BY DEF ClientAbort, routing, stats, scaling
<1>3. m \in Message /\ m.type \in Data /\ m.type # "ADD"
  BY MessageFacts DEF Data
<1>. HIDE DEF m
<1>4. /\ queue' \in [Engines -> Seq(Message)] /\ QueueInv'
      /\ \A f \in Engines : queue'[f] = queue[f] \/ queue'[f] = Append(queue[f], m)
  <2>1. CASE flight[r] = None
    BY <2>1, <1>1, <1>2 DEF DInv, QueueInv, Typed, Due, Kept
  <2>2. CASE flight[r] # None
    <3>1. flight[r] \in Engines
      BY <2>2, <1>1 DEF TypeOK
    <3>. QED BY <3>1, <2>2, <1>2, <1>3, SendOneStep
  <2>. QED BY <2>1, <2>2
<1>5. InflightExact'
  <2>1. ASSUME NEW x \in Requests, flight'[x] # None PROVE Placed(x)'
    <3>1. flight' = flight /\ outs' = outs /\ held' = held
      BY <1>2
    <3>2. Placed(x) /\ flight[x] \in Engines /\ queue[flight[x]] \in Seq(Message)
      BY <2>1, <3>1, InFlight
    <3>3. Queued(queue[flight[x]], x) => Queued(queue'[flight[x]], x)
      BY <3>2, <1>3, <1>4, QueuedAppend
    <3>. QED BY <3>1, <3>2, <3>3 DEF Placed
  <2>2. \A e \in Engines : inflight[e] = Cardinality({x \in Requests : flight[x] = e})
    BY DEF DInv, RequestInv, InflightExact
  <2>3. flight' = flight /\ inflight' = inflight
    BY <1>2
  <2>4. \A e \in Engines : inflight'[e] = Cardinality({x \in Requests : flight'[x] = e})
    BY <2>2, <2>3
  <2>5. \A x \in Requests : flight'[x] # None => Placed(x)'
    BY <2>1
  <2>. QED BY <2>4, <2>5, Zenon DEF InflightExact, Placed, Queued
<1>6. Typed' /\ TableInv'
  BY <1>1, <1>2, <1>4 DEF Typed, TypeOK, TableInv
<1>7. RequestInv'
  BY <1>1, <1>2, <1>5 DEF DInv, RequestInv, TypeOK
<1>8. PhaseInv' /\ EngineInv' /\ PauseInv' /\ ExpertInv'
  BY <1>2, OthersKept
<1>. QED BY <1>4, <1>6, <1>7, <1>8 DEF DInv

\* process_engine_outputs preserves DInv: a request is counted down once.
LEMMA ClientOutputStep ==
  ASSUME DInv, NEW r \in Requests, ClientOutput(r) PROVE DInv'
<1>1. Typed /\ TypeOK /\ TableInv
  BY DEF DInv, Typed
<1>2. /\ r \in outs /\ outs' = outs \ {r} /\ req' = [req EXCEPT ![r] = "ended"]
      /\ flight' = [flight EXCEPT ![r] = None]
      /\ inflight' = IF flight[r] = None THEN inflight
                     ELSE [inflight EXCEPT ![flight[r]] = @ - 1]
      /\ UNCHANGED <<core, lb, ranks, start, queue, held, eng, known, news,
                     marker, scale, prepared, switched, removing, experts, nScalings>>
  BY DEF ClientOutput, routing, engines, stats, scaling
<1>3. InflightExact'
  <2>1. ASSUME NEW f \in Engines
        PROVE  inflight'[f] = Cardinality({x \in Requests : flight'[x] = f})
    <3>1. inflight[f] = Cardinality({x \in Requests : flight[x] = f})
      BY DEF DInv, RequestInv, InflightExact
    <3>2. IsFiniteSet({x \in Requests : flight[x] = f})
      BY DPClientAssumption, FS_Subset
    <3>3. CASE f = flight[r]
      <4>1. {x \in Requests : flight'[x] = f} = {x \in Requests : flight[x] = f} \ {r}
        BY <1>1, <1>2, <3>3, Constants DEF TypeOK
      <4>2. r \in {x \in Requests : flight[x] = f}
        BY <3>3
      <4>3. Cardinality({x \in Requests : flight'[x] = f}) =
              Cardinality({x \in Requests : flight[x] = f}) - 1
        BY <4>1, <4>2, <3>2, FS_RemoveElement
      <4>4. inflight'[f] = inflight[f] - 1
        BY <1>1, <1>2, <3>3, Constants DEF TypeOK
      <4>. QED BY <4>3, <4>4, <3>1
    <3>4. CASE f # flight[r]
      <4>1. {x \in Requests : flight'[x] = f} = {x \in Requests : flight[x] = f}
        BY <1>1, <1>2, <3>4, Constants DEF TypeOK
      <4>. QED BY <4>1, <3>1, <3>4, <1>1, <1>2 DEF TypeOK
    <3>. QED BY <3>3, <3>4
  <2>2. ASSUME NEW x \in Requests, flight'[x] # None PROVE Placed(x)'
    <3>1. x # r /\ flight'[x] = flight[x]
      BY <2>2, <1>1, <1>2 DEF TypeOK
    <3>2. Placed(x)
      BY <3>1, <2>2, InFlight
    <3>. QED BY <3>1, <3>2, <1>2 DEF Placed
  <2>3. \A x \in Requests : flight'[x] # None => Placed(x)'
    BY <2>2
  <2>. QED BY <2>1, <2>3, Zenon DEF InflightExact, Placed, Queued
<1>4. inflight' \in [Engines -> 0..Cardinality(Requests)]
  <2>1. \A f \in Engines : Cardinality({x \in Requests : flight'[x] = f}) \in 0..Cardinality(Requests)
    BY DPClientAssumption, FS_Subset, FS_CardinalityType
  <2>2. inflight' \in [Engines -> Int]
    BY <1>1, <1>2 DEF TypeOK
  <2>. QED BY <1>3, <2>1, <2>2 DEF InflightExact
<1>5. Typed' /\ TableInv'
  BY <1>1, <1>2, <1>4 DEF Typed, TypeOK, TableInv
<1>6. RequestInv'
  BY <1>1, <1>2, <1>3 DEF DInv, RequestInv, TypeOK
<1>7. PhaseInv' /\ EngineInv' /\ PauseInv' /\ ExpertInv' /\ \A e \in Engines : Due(e)' = Due(e)
  BY <1>2, OthersKept
<1>8. QueueInv'
  BY <1>2, <1>7 DEF DInv, QueueInv
<1>. QED BY <1>5, <1>6, <1>7, <1>8 DEF DInv

\* Counting engines' requests gives natural numbers.
LEMMA CountsType ==
  ASSUME TypeOK PROVE RequestCounts \in Seq(Nat) /\ Len(RequestCounts) = known
<1>1. known \in Nat /\ \A i \in 1..known : i - 1 \in Engines
  BY Constants DEF TypeOK, Sizes, Engines
<1>2. \A i \in 1..known : Cardinality(held[i - 1]) \in Nat
  BY <1>1, DPClientAssumption, FS_Subset, FS_CardinalityType DEF TypeOK
<1>. QED BY <1>1, <1>2 DEF RequestCounts

\* Publishing and reading snapshots and markers preserves DInv.
LEMMA StatsStep ==
  ASSUME DInv, Publish \/ ReadSnapshot \/ ReadMarker PROVE DInv'
<1>1. Typed /\ TypeOK /\ TableInv /\ core \in Nat /\ ranks \in Nat /\ ranks >= 1
  BY DEF DInv, Typed, TypeOK, Sizes
<1>2. UNCHANGED <<core, start, flight, inflight, req, queue, held, eng, outs, scale, prepared,
                  switched, removing, experts, nScalings>>
  BY DEF Publish, ReadSnapshot, ReadMarker, routing, requests, engines, scaling
<1>3. /\ lb' \in Seq(Nat) /\ Len(lb') \in 1..core /\ ranks' \in Sizes /\ ranks' <= core
      /\ known' \in Sizes /\ news' \in Seq(Nat)
      /\ marker' \in {<<>>, <<core>>} /\ (marker = <<>> => marker' = <<>>)
  <2>1. CASE Publish
    BY <2>1, <1>1, CountsType DEF Publish, routing, Typed, TypeOK, TableInv
  <2>2. CASE ReadSnapshot
    <3>. DEFINE n == IF ranks < Len(news) THEN ranks ELSE Len(news)
    <3>1. news \in Seq(Nat) /\ Len(news) >= 1 /\ Len(news) \in Nat
      BY <2>2, <1>1 DEF ReadSnapshot, Typed
    <3>2. n \in 1..Len(news) /\ n <= ranks
      BY <3>1, <1>1
    <3>3. SubSeq(news, 1, n) \in Seq(Nat) /\ Len(SubSeq(news, 1, n)) = n
      BY <3>1, <3>2
    <3>4. lb' = SubSeq(news, 1, n) /\ news' = <<>> /\ UNCHANGED <<ranks, known, marker>>
      BY <2>2 DEF ReadSnapshot
    <3>. QED BY <3>2, <3>3, <3>4, <1>1 DEF TableInv, TypeOK
  <2>3. CASE ReadMarker
    <3>1. marker = <<core>> /\ Head(marker) = core /\ Tail(marker) = <<>>
      <4>1. marker = <<core>>
        BY <2>3, <1>1 DEF ReadMarker, TableInv
      <4>2. <<core>> \in Seq(Nat) /\ <<core>> # <<>> /\ Len(<<core>>) = 1 /\ <<core>>[1] = core
        BY <1>1
      <4>3. Tail(<<core>>) \in Seq(Nat) /\ Len(Tail(<<core>>)) = 0 /\ Head(<<core>>) = core
        BY <4>2, HeadTailProperties
      <4>4. Tail(<<core>>) = <<>>
        BY <4>3, EmptySeq
      <4>. QED BY <4>1, <4>3, <4>4
    <3>2. /\ lb' = [i \in 1..core |-> IF i <= Len(lb) THEN lb[i] ELSE 0]
          /\ ranks' = core /\ known' = core /\ news' = news /\ marker' = <<>>
      BY <2>3, <3>1 DEF ReadMarker
    <3>3. \A i \in 1..core : (IF i <= Len(lb) THEN lb[i] ELSE 0) \in Nat
      BY <1>1, ElementOfSeq DEF TypeOK
    <3>4. lb' \in Seq(Nat) /\ Len(lb') = core
      BY <3>2, <3>3, <1>1
    <3>. QED BY <3>2, <3>4, <1>1 DEF Typed, TypeOK, Sizes
  <2>. QED BY <2>1, <2>2, <2>3
<1>4. Typed' /\ TableInv'
  BY <1>1, <1>2, <1>3 DEF Typed, TypeOK, TableInv
<1>5. PhaseInv'
  BY <1>2, <1>3 DEF DInv, PhaseInv, Idle, Preparing, Committing, OldEngines
<1>6. EngineInv' /\ PauseInv' /\ ExpertInv'
  BY <1>2 DEF DInv, EngineInv, PauseInv, ResumedAfterSwitch, ExpertInv, OldEngines, Idle,
              Preparing, Committing
<1>7. QueueInv' /\ RequestInv'
  BY <1>2 DEF DInv, QueueInv, RequestInv, InflightExact, Due, Kept
<1>. QED BY <1>4, <1>5, <1>6, <1>7 DEF DInv

-----------------------------------------------------------------------------
(* The steps of a scaling.                                                 *)

\* One control message each to the engines in S, none of which has one under way.
LEMMA ControlSent ==
  ASSUME DInv, \A e \in Engines : Due(e) = "nothing",
         NEW S \in SUBSET Engines, NEW c \in [Engines -> Message],
         \A e \in S : c[e].type \notin Data,
         queue' = [e \in Engines |-> IF e \in S THEN Append(queue[e], c[e]) ELSE queue[e]]
  PROVE  /\ queue' \in [Engines -> Seq(Message)]
         /\ \A e \in S : Once(queue'[e], c[e].type)
         /\ \A e \in Engines \ S : Clean(queue'[e])
         /\ \A e \in removing : (e \in S => c[e].type # "PAUSE") => Sealed(queue'[e])
         /\ \A e \in S : c[e].type = "PAUSE" /\ c[e].mode = "abort" => Sealed(queue'[e])
         /\ UNCHANGED <<flight, inflight, outs, held>> => InflightExact'
<1>1. queue \in [Engines -> Seq(Message)] /\ removing \subseteq Engines
  BY DEF DInv, Typed, TypeOK
<1>2. \A e \in Engines : Clean(queue[e])
  BY DEF DInv, QueueInv
<1>3. \A e \in S : queue'[e] = Append(queue[e], c[e]) /\ queue[e] \in Seq(Message) /\ c[e] \in Message
  BY <1>1
<1>4. \A e \in Engines \ S : queue'[e] = queue[e]
  OBVIOUS
<1>5. queue' \in [Engines -> Seq(Message)]
  BY <1>1, <1>3, AppendFacts
<1>6. \A e \in S : Once(queue'[e], c[e].type)
  BY <1>2, <1>3, SendControl
<1>7. \A e \in removing : Sealed(queue[e])
  BY DEF DInv, QueueInv
<1>8. ASSUME NEW e \in removing, e \in S => c[e].type # "PAUSE" PROVE Sealed(queue'[e])
  <2>1. CASE e \in S
    <3>1. /\ queue'[e] = Append(queue[e], c[e]) /\ queue[e] \in Seq(Message) /\ c[e] \in Message
          /\ Clean(queue[e]) /\ Sealed(queue[e]) /\ c[e].type \notin Data /\ c[e].type # "PAUSE"
      BY <2>1, <1>2, <1>3, <1>7, <1>8
    <3>. QED BY <3>1, SendControl
  <2>2. CASE e \notin S
    BY <2>2, <1>1, <1>4, <1>7
  <2>. QED BY <2>1, <2>2
<1>9. ASSUME NEW e \in S, c[e].type = "PAUSE", c[e].mode = "abort" PROVE Sealed(queue'[e])
  <2>1. /\ queue'[e] = Append(queue[e], c[e]) /\ queue[e] \in Seq(Message) /\ c[e] \in Message
        /\ Clean(queue[e]) /\ c[e].type \notin Data
    BY <1>2, <1>3, <1>9
  <2>. QED BY <2>1, <1>9, SendControl
<1>10. ASSUME UNCHANGED <<flight, inflight, outs, held>> PROVE InflightExact'
  <2>1. ASSUME NEW x \in Requests, flight'[x] # None PROVE Placed(x)'
    <3>1. flight' = flight /\ outs' = outs /\ held' = held
      BY <1>10
    <3>2. Placed(x) /\ flight[x] \in Engines /\ queue[flight[x]] \in Seq(Message)
      BY <2>1, <3>1, InFlight
    <3>3. Queued(queue[flight[x]], x) => Queued(queue'[flight[x]], x)
      BY <3>2, <1>3, <1>4, QueuedAppend
    <3>. QED BY <3>1, <3>2, <3>3 DEF Placed
  <2>2. \A e \in Engines : inflight[e] = Cardinality({x \in Requests : flight[x] = e})
    BY DEF DInv, RequestInv, InflightExact
  <2>3. flight' = flight /\ inflight' = inflight
    BY <1>10
  <2>4. \A e \in Engines : inflight'[e] = Cardinality({x \in Requests : flight'[x] = e})
    BY <2>2, <2>3
  <2>5. \A x \in Requests : flight'[x] # None => Placed(x)'
    BY <2>1
  <2>. QED BY <2>4, <2>5, Zenon DEF InflightExact, Placed, Queued
<1>. QED BY <1>2, <1>4, <1>5, <1>6, <1>8, <1>9, <1>10

\* What SendEach does when every engine it has something for is there.
LEMMA SentEach ==
  ASSUME queue \in [Engines -> Seq(Message)], NEW S \in SUBSET Engines,
         NEW c \in [Engines -> Message], NEW m, SendEach(m),
         \A e \in Engines : m[e] = IF e \in S THEN <<c[e]>> ELSE <<>>,
         \A e \in S : eng[e].life # "gone"
  PROVE  queue' = [e \in Engines |-> IF e \in S THEN Append(queue[e], c[e]) ELSE queue[e]]
<1>1. queue' = [e \in Engines |-> IF eng[e].life = "gone" THEN queue[e] ELSE queue[e] \o m[e]]
  BY DEF SendEach
<1>2. \A e \in Engines : queue[e] \o <<c[e]>> = Append(queue[e], c[e]) /\ queue[e] \o <<>> = queue[e]
  BY AppendFacts
<1>. QED BY <1>1, <1>2

\* The experts of n engines, when experts is PerEngine for each of core.
LEMMA NewExpertsExact ==
  ASSUME NEW n \in Nat, core \in Nat \ {0}, experts = PerEngine * core
  PROVE  NewExperts(n) = PerEngine * n /\ NewExperts(n) \in Nat
<1>1. PerEngine \in Nat
  BY Constants
<1>2. experts * n = (PerEngine * n) * core
  BY <1>1
<1>3. PerEngine * n \in Nat
  BY <1>1
<1>4. \A a \in Nat : (a * core) \div core = a
  OBVIOUS
<1>. QED BY <1>2, <1>3, <1>4 DEF NewExperts

\* prepare_elastic_ep preserves DInv.
LEMMA PrepareStep ==
  ASSUME DInv, NEW n \in 1..(MaxSize + 1), Prepare(n) PROVE DInv'
<1>1. Typed /\ TypeOK /\ TableInv /\ PhaseInv /\ EngineInv
  BY DEF DInv, Typed
<1>2. n \in Sizes /\ core \in Sizes /\ core \in Nat \ {0} /\ n \in Nat
  BY <1>1, Constants DEF Prepare, Sizes, TypeOK
<1>3. /\ scale.pc = "none" /\ prepared = 0 /\ n # core
      /\ nScalings < MaxScalings /\ nScalings' = nScalings + 1
      /\ marker = <<>> /\ removing = {}
      /\ SendEach(ToEach(Kept(n), [type |-> "REINIT"]))
      /\ eng' = [e \in Engines |-> IF e \in Added(n)
                   THEN [life |-> "starting", paused |-> FALSE, eep |-> "preparing"] ELSE eng[e]]
      /\ scale' = [pc |-> "prepare", to |-> n, wait |-> {}, failed |-> {}, experts |-> NewExperts(n)]
      /\ UNCHANGED <<core, lb, ranks, start, flight, inflight, req, outs, held, known, news,
                     marker, prepared, switched, removing, experts>>
  BY DEF Prepare, PrepareTo, routing, requests, stats
<1>4. core = scale.to /\ switched /\ \A e \in Engines : e < core => eng[e].life = "up" /\ eng[e].eep = "none"
  BY <1>1, <1>3 DEF PhaseInv, EngineInv, Idle
<1>5. \A e \in Kept(n) : e \in Engines /\ e < core /\ e < n
  BY <1>2, Constants DEF Kept, Engines, Sizes
<1>6. \A e \in Engines : e < core => eng'[e] = eng[e]
  BY <1>3, <1>2, Constants DEF Added
<1>7. \A e \in Engines : e < n /\ ~ (e < core) => e \in Added(n)
  BY <1>2, Constants DEF Added, Engines
<1>8. /\ scale'.pc = "prepare" /\ scale'.to = n /\ scale'.wait = {} /\ scale'.failed = {}
      /\ scale'.experts = NewExperts(n)
  BY <1>3
<1>9. NewExperts(n) = PerEngine * n /\ NewExperts(n) \in Nat
  BY <1>1, <1>2, <1>3, NewExpertsExact DEF DInv, ExpertInv
<1>10. /\ queue' \in [Engines -> Seq(Message)] /\ InflightExact'
       /\ \A e \in Kept(n) : Once(queue'[e], "REINIT")
       /\ \A e \in Engines \ Kept(n) : Clean(queue'[e])
  <2>. DEFINE c == [e \in Engines |-> [type |-> "REINIT"]]
  <2>1. queue' = [e \in Engines |-> IF e \in Kept(n) THEN Append(queue[e], c[e]) ELSE queue[e]]
    <3>. DEFINE m == ToEach(Kept(n), [type |-> "REINIT"])
    <3>1. \A e \in Engines : m[e] = IF e \in Kept(n) THEN <<c[e]>> ELSE <<>>
      BY DEF ToEach
    <3>2. c \in [Engines -> Message] /\ Kept(n) \in SUBSET Engines
      BY <1>5, MessageFacts
    <3>3. SendEach(m) /\ queue \in [Engines -> Seq(Message)]
      BY <1>1, <1>3 DEF Typed
    <3>4. \A e \in Kept(n) : eng[e].life # "gone"
      BY <1>4, <1>5
    <3>. HIDE DEF m, c
    <3>. QED BY <3>1, <3>2, <3>3, <3>4, SentEach
  <2>2. \A e \in Engines : Due(e) = "nothing"
    BY <1>3 DEF Due
  <2>3. Kept(n) \in SUBSET Engines /\ c \in [Engines -> Message] /\ \A e \in Kept(n) : c[e].type = "REINIT"
    BY <1>5, MessageFacts
  <2>4. "REINIT" \notin Data
    BY DEF Data
  <2>. HIDE DEF c
  <2>. QED BY <2>1, <2>2, <2>3, <2>4, <1>3, ControlSent
<1>11. QueueInv'
  <2>1. \A e \in Engines : Due(e)' = IF e \in Kept(n) THEN "REINIT" ELSE "nothing"
    <3>1. Kept(n)' = Kept(n)
      BY <1>3 DEF Kept
    <3>2. \A e \in Kept(n) : eng'[e].eep = "none"
      BY <1>4, <1>5, <1>6
    <3>. QED BY <3>1, <3>2, <1>8 DEF Due, Kept
  <2>. QED BY <2>1, <1>3, <1>10 DEF QueueInv
<1>12. Typed'
  <2>1. eng' \in [Engines -> EngineState]
    BY <1>1, <1>3 DEF TypeOK, EngineState
  <2>2. nScalings' \in 0..MaxScalings
    BY <1>1, <1>3, DPClientAssumption DEF TypeOK
  <2>3. scale' \in ScaleState
    BY <1>2, <1>3, <1>9 DEF ScaleState
  <2>. QED BY <1>1, <1>2, <1>3, <1>8, <1>10, <2>1, <2>2, <2>3 DEF Typed, TypeOK
<1>13. PhaseInv' /\ TableInv'
  BY <1>1, <1>3, <1>4, <1>8 DEF PhaseInv, TableInv, Idle, Preparing, Committing
<1>14. \A e \in Engines : eng'[e].eep # "committed"
  BY <1>1, <1>3, <1>4 DEF EngineInv
<1>15. EngineInv'
  <2>1. \A e \in Engines : e < n => eng'[e].life \in {"starting", "up"}
    BY <1>3, <1>4, <1>6, <1>7
  <2>2. \A e \in Engines : eng'[e].life \in {"none", "gone"} => eng'[e].eep = "none"
    BY <1>1, <1>3 DEF EngineInv
  <2>. QED BY <1>3, <1>4, <1>6, <1>8, <1>14, <2>1, <2>2 DEF EngineInv, Idle, Committing
<1>16. PauseInv' /\ ExpertInv'
  BY <1>3, <1>8, <1>9, <1>14 DEF PauseInv, ResumedAfterSwitch, DInv, ExpertInv
<1>17. RequestInv'
  BY <1>3, <1>10 DEF DInv, RequestInv
<1>. QED BY <1>11, <1>12, <1>13, <1>15, <1>16, <1>17 DEF DInv

\* The end of the preparation preserves DInv.
LEMMA PreparedStep ==
  ASSUME DInv, Prepared PROVE DInv'
<1>1. Typed /\ TypeOK /\ TableInv /\ PhaseInv /\ EngineInv
  BY DEF DInv, Typed
<1>2. /\ scale.pc = "prepare" /\ scale.failed = {}
      /\ \A e \in Kept(scale.to) \cup Added(scale.to) : eng[e].eep = "ready"
      /\ prepared' = scale.to /\ scale' = [scale EXCEPT !.pc = "none"]
      /\ UNCHANGED <<core, lb, ranks, start, flight, inflight, req, outs, queue, held, eng, known,
                     news, marker, switched, removing, experts, nScalings>>
  BY DEF Prepared, routing, requests, stats, engines
<1>3. /\ scale'.pc = "none" /\ scale'.to = scale.to /\ scale'.wait = scale.wait
      /\ scale'.failed = scale.failed /\ scale'.experts = scale.experts /\ scale' \in ScaleState
  BY <1>1, <1>2 DEF Typed, ScaleState
<1>4. prepared' # 0 /\ prepared' \in Sizes
  BY <1>1, <1>2, Constants DEF TypeOK
<1>5. \A e \in Engines : Due(e) = "nothing" /\ Due(e)' = "nothing"
  BY <1>2, <1>3 DEF Due
<1>6. QueueInv'
  BY <1>2, <1>5 DEF DInv, QueueInv
<1>7. Typed' /\ TableInv'
  BY <1>1, <1>2, <1>3, <1>4 DEF Typed, TypeOK, TableInv
<1>8. PhaseInv'
  BY <1>1, <1>2, <1>3, <1>4 DEF PhaseInv, Idle, Preparing, Committing
<1>9. EngineInv' /\ PauseInv'
  BY <1>1, <1>2, <1>3, <1>4 DEF DInv, EngineInv, PauseInv, ResumedAfterSwitch, Idle, Committing
<1>10. RequestInv' /\ ExpertInv'
  BY <1>2, <1>3 DEF DInv, RequestInv, InflightExact, ExpertInv
<1>. QED BY <1>6, <1>7, <1>8, <1>9, <1>10 DEF DInv

\* commit_elastic_ep up to the pause preserves DInv: routing to the removed
\* engines stops before they are told to abort.
LEMMA CommitStep ==
  ASSUME DInv, Commit PROVE DInv'
<1>1. Typed /\ TypeOK /\ TableInv /\ PhaseInv /\ EngineInv
  BY DEF DInv, Typed
<1>. DEFINE m == [e \in Engines |->
                   IF e \notin OldEngines THEN <<>>
                   ELSE <<[type |-> "PAUSE",
                           mode |-> IF e \in Removed(prepared) THEN "abort" ELSE "keep"]>>]
            c == [e \in Engines |->
                   [type |-> "PAUSE", mode |-> IF e \in Removed(prepared) THEN "abort" ELSE "keep"]]
<1>2. /\ scale.pc = "none" /\ prepared # 0
      /\ scale' = [scale EXCEPT !.pc = "pause", !.wait = OldEngines]
      /\ SendEach(m)
      /\ Up(prepared) => UNCHANGED <<core, lb, ranks, removing>>
      /\ ~ Up(prepared) => /\ core' = prepared
                           /\ lb' = SubSeq(lb, 1, IF prepared < Len(lb) THEN prepared ELSE Len(lb))
                           /\ ranks' = prepared
                           /\ removing' = Removed(prepared)
      /\ switched' = FALSE
      /\ UNCHANGED <<start, flight, inflight, req, outs, held, eng, known, news, marker,
                     prepared, experts, nScalings>>
  BY DEF Commit, SurvivingRanks, routing, requests, stats
<1>3. /\ prepared = scale.to /\ prepared \in Sizes /\ prepared \in Nat \ {0} /\ core \in Nat \ {0}
      /\ core <= MaxSize /\ prepared # core /\ switched /\ removing = {} /\ marker = <<>>
  BY <1>1, <1>2, Constants DEF PhaseInv, TypeOK, Preparing, Idle
<1>4. OldEngines \subseteq Engines /\ \A e \in Engines : e \in OldEngines <=> e < core
  BY <1>3, Constants DEF OldEngines, Engines
<1>5. \A e \in OldEngines : eng[e].life = "up"
  BY <1>1, <1>4 DEF EngineInv
<1>6. /\ scale'.pc = "pause" /\ scale'.to = scale.to /\ scale'.wait = OldEngines
      /\ scale'.failed = scale.failed /\ scale'.experts = scale.experts /\ scale' \in ScaleState
  BY <1>1, <1>2, <1>4 DEF Typed, ScaleState
<1>20. scale'.failed = {}
  BY <1>1, <1>2, <1>6 DEF PhaseInv
<1>7. /\ queue' \in [Engines -> Seq(Message)] /\ InflightExact'
      /\ \A e \in OldEngines : Once(queue'[e], "PAUSE")
      /\ \A e \in Engines \ OldEngines : Clean(queue'[e])
      /\ \A e \in OldEngines \cap Removed(prepared) : Sealed(queue'[e])
  <2>1. c \in [Engines -> Message]
    BY MessageFacts
  <2>2. \A e \in Engines : m[e] = IF e \in OldEngines THEN <<c[e]>> ELSE <<>>
    OBVIOUS
  <2>3. \A e \in OldEngines : /\ c[e].type = "PAUSE" /\ c[e].type \notin Data
                              /\ e \in Removed(prepared) => c[e].mode = "abort"
    BY <1>4 DEF Data
  <2>. HIDE DEF m, c
  <2>4. queue' = [e \in Engines |-> IF e \in OldEngines THEN Append(queue[e], c[e]) ELSE queue[e]]
    <3>1. queue \in [Engines -> Seq(Message)] /\ OldEngines \in SUBSET Engines
      BY <1>1, <1>4 DEF Typed
    <3>2. \A e \in OldEngines : eng[e].life # "gone"
      BY <1>5
    <3>. QED BY <2>1, <2>2, <3>1, <3>2, <1>2, SentEach
  <2>5. \A e \in Engines : Due(e) = "nothing"
    BY <1>2 DEF Due
  <2>. QED BY <2>1, <2>3, <2>4, <2>5, <1>2, <1>4, ControlSent
<1>. HIDE DEF m, c
<1>8. removing' \subseteq OldEngines \cap Removed(prepared) /\ \A e \in removing' : ~ (e < core') /\ ~ (e < scale.to)
  BY <1>2, <1>3 DEF Removed, OldEngines, Up
<1>9. core' \in Sizes /\ core' <= core /\ core' <= scale.to /\ ranks' \in Sizes /\ ranks' <= core'
  BY <1>1, <1>2, <1>3, Constants DEF Up, TypeOK, TableInv
<1>10. lb' \in Seq(Nat) /\ Len(lb') \in 1..core'
  <2>1. CASE Up(prepared)
    BY <2>1, <1>1, <1>2 DEF TypeOK, TableInv
  <2>2. CASE ~ Up(prepared)
    <3>. DEFINE k == IF prepared < Len(lb) THEN prepared ELSE Len(lb)
    <3>1. lb \in Seq(Nat) /\ k \in 1..Len(lb) /\ k <= prepared /\ k \in Nat
      BY <1>1, <1>3 DEF TypeOK, TableInv
    <3>2. SubSeq(lb, 1, k) \in Seq(Nat) /\ Len(SubSeq(lb, 1, k)) = k
      BY <3>1
    <3>3. lb' = SubSeq(lb, 1, k) /\ core' = prepared
      BY <2>2, <1>2
    <3>. HIDE DEF k
    <3>. QED BY <3>1, <3>2, <3>3, <1>3
  <2>. QED BY <2>1, <2>2
<1>11. QueueInv'
  <2>1. \A e \in Engines : Due(e)' = IF e \in OldEngines THEN "PAUSE" ELSE "nothing"
    BY <1>6, <1>20 DEF Due
  <2>. QED BY <2>1, <1>7, <1>8 DEF QueueInv
<1>12. Typed'
  <2>1. removing' \subseteq Engines
    BY <1>4, <1>8
  <2>. QED BY <1>1, <1>2, <1>6, <1>7, <1>9, <1>10, <2>1 DEF Typed, TypeOK
<1>13. TableInv'
  BY <1>2, <1>3, <1>9, <1>10 DEF TableInv
<1>14. PhaseInv'
  <2>1. OldEngines \subseteq OldEngines' \cup removing'
    BY <1>2, <1>3 DEF OldEngines, Removed, Up
  <2>2. core' = scale.to \/ (core' < scale.to /\ removing' = {})
    BY <1>2, <1>3 DEF Up
  <2>. QED BY <2>1, <2>2, <1>20, <1>2, <1>3, <1>6 DEF PhaseInv, Idle, Preparing, Committing
<1>15. \A e \in Engines : eng[e].eep # "committed"
  BY <1>1, <1>3 DEF EngineInv
<1>16. EngineInv'
  <2>1. \A e \in Engines : e < core' => e < core
    BY <1>3, <1>9, Constants DEF Sizes
  <2>. QED BY <2>1, <1>1, <1>2, <1>4, <1>5, <1>6, <1>8, <1>15 DEF EngineInv, Idle, Committing
<1>17. PauseInv'
  <2>1. OldEngines' \cup removing' \subseteq OldEngines
    <3>1. removing' \subseteq OldEngines
      BY <1>8
    <3>2. core' \in Nat /\ core' <= core
      BY <1>9, Constants
    <3>3. OldEngines' \subseteq OldEngines
      <4>1. core \in Nat
        BY <1>3
      <4>. QED BY <4>1, <3>2, FewerEngines DEF OldEngines
    <3>. QED BY <3>1, <3>3
  <2>. QED BY <2>1, <1>2, <1>6, <1>15 DEF PauseInv, ResumedAfterSwitch
<1>18. RequestInv'
  BY <1>2, <1>6, <1>7, <1>8 DEF DInv, RequestInv
<1>19. ExpertInv'
  BY <1>6 DEF DInv, ExpertInv
<1>. QED BY <1>11, <1>12, <1>13, <1>14, <1>16, <1>17, <1>18, <1>19 DEF DInv

\* Sending COMMIT and LEAVE once all have paused preserves DInv.
LEMMA CommitSwitchStep ==
  ASSUME DInv, CommitSwitch PROVE DInv'
<1>1. Typed /\ TypeOK /\ TableInv /\ PhaseInv /\ EngineInv
  BY DEF DInv, Typed
<1>. DEFINE m == [e \in Engines |->
                   IF e \in removing THEN <<[type |-> "LEAVE"]>>
                   ELSE IF e \in OldEngines THEN <<[type |-> "COMMIT"]>> ELSE <<>>]
            c == [e \in Engines |-> [type |-> IF e \in removing THEN "LEAVE" ELSE "COMMIT"]]
            S == OldEngines \cup removing
<1>2. /\ scale.pc = "pause" /\ scale.wait = {}
      /\ SendEach(m)
      /\ scale' = [scale EXCEPT !.pc = "commit", !.wait = OldEngines \cup removing]
      /\ UNCHANGED <<core, lb, ranks, start, flight, inflight, req, outs, held, eng, known, news,
                     marker, prepared, switched, removing, experts, nScalings>>
  BY DEF CommitSwitch, routing, requests, stats
<1>3. S \in SUBSET Engines /\ (\A e \in S : eng[e].life = "up") /\ core \in Nat \ {0}
  <2>1. core \in Nat \ {0} /\ OldEngines \subseteq Engines
    BY <1>1, Constants DEF OldEngines, Engines, TypeOK, Sizes
  <2>2. \A e \in OldEngines : e < core
    BY <2>1 DEF OldEngines
  <2>3. removing \subseteq Engines
    BY <1>1 DEF TypeOK
  <2>. QED BY <1>1, <2>1, <2>2, <2>3 DEF EngineInv
<1>4. /\ scale'.pc = "commit" /\ scale'.to = scale.to /\ scale'.wait = S
      /\ scale'.failed = scale.failed /\ scale'.experts = scale.experts /\ scale' \in ScaleState
  BY <1>1, <1>2, <1>3 DEF Typed, ScaleState
<1>12. scale'.failed = {}
  BY <1>1, <1>2, <1>4 DEF PhaseInv
<1>5. /\ queue' \in [Engines -> Seq(Message)] /\ InflightExact'
      /\ \A e \in S : Once(queue'[e], IF e \in removing THEN "LEAVE" ELSE "COMMIT")
      /\ \A e \in Engines \ S : Clean(queue'[e])
      /\ \A e \in removing : Sealed(queue'[e])
  <2>1. c \in [Engines -> Message]
    BY MessageFacts
  <2>2. \A e \in Engines : m[e] = IF e \in S THEN <<c[e]>> ELSE <<>>
    OBVIOUS
  <2>3. \A e \in S : /\ c[e].type = IF e \in removing THEN "LEAVE" ELSE "COMMIT"
                     /\ c[e].type \notin Data /\ c[e].type # "PAUSE"
    BY <1>3 DEF Data
  <2>. HIDE DEF m, c
  <2>4. queue' = [e \in Engines |-> IF e \in S THEN Append(queue[e], c[e]) ELSE queue[e]]
    <3>1. queue \in [Engines -> Seq(Message)]
      BY <1>1 DEF Typed
    <3>2. \A e \in S : eng[e].life # "gone"
      BY <1>3
    <3>. HIDE DEF S
    <3>. QED BY <2>1, <2>2, <3>1, <3>2, <1>2, <1>3, SentEach
  <2>5. \A e \in Engines : Due(e) = "nothing"
    BY <1>2 DEF Due
  <2>. HIDE DEF S
  <2>. QED BY <2>1, <2>3, <2>4, <2>5, <1>2, <1>3, ControlSent
<1>. HIDE DEF m, c
<1>6. QueueInv'
  <2>1. \A e \in Engines : Due(e)' = IF e \in S THEN IF e \in removing THEN "LEAVE" ELSE "COMMIT"
                                     ELSE "nothing"
    BY <1>2, <1>4, <1>12 DEF Due
  <2>. QED BY <2>1, <1>2, <1>5 DEF QueueInv
<1>7. Typed' /\ TableInv'
  BY <1>1, <1>2, <1>4, <1>5 DEF Typed, TypeOK, TableInv
<1>8. PhaseInv'
  <2>1. OldEngines' = OldEngines
    BY <1>2 DEF OldEngines
  <2>. QED BY <2>1, <1>1, <1>2, <1>4 DEF PhaseInv, Idle, Preparing, Committing
<1>9. EngineInv'
  BY <1>1, <1>2, <1>3, <1>4 DEF EngineInv, PhaseInv, Idle, Committing
<1>10. PauseInv'
  <2>1. OldEngines' = OldEngines
    BY <1>2 DEF OldEngines
  <2>2. \A e \in OldEngines \cup removing : eng[e].paused
    BY <1>2 DEF DInv, PauseInv
  <2>. QED BY <2>1, <2>2, <1>2, <1>4 DEF DInv, PauseInv, ResumedAfterSwitch
<1>11. RequestInv' /\ ExpertInv'
  BY <1>2, <1>4, <1>5 DEF DInv, RequestInv, ExpertInv
<1>. QED BY <1>6, <1>7, <1>8, <1>9, <1>10, <1>11 DEF DInv

\* The answers to COMMIT, and the marker of a scale down, preserve DInv.
LEMMA CommitAnsweredStep ==
  ASSUME DInv, CommitAnswered PROVE DInv'
<1>1. Typed /\ TypeOK /\ TableInv /\ PhaseInv /\ EngineInv
  BY DEF DInv, Typed
<1>2. /\ scale.pc = "commit" /\ scale.wait = {} /\ scale' = [scale EXCEPT !.pc = "switch"]
      /\ marker' = IF Up(scale.to) THEN marker ELSE Append(marker, scale.to)
      /\ UNCHANGED <<core, lb, ranks, start, flight, inflight, req, outs, queue, held, eng, known,
                     news, prepared, switched, removing, experts, nScalings>>
  BY DEF CommitAnswered, routing, requests, engines
<1>3. /\ scale'.pc = "switch" /\ scale'.to = scale.to /\ scale'.wait = {}
      /\ scale'.failed = scale.failed /\ scale'.experts = scale.experts /\ scale' \in ScaleState
  BY <1>1, <1>2 DEF Typed, ScaleState
<1>4. marker = <<>> /\ marker' \in {<<>>, <<core>>} /\ (core < scale.to => marker' = <<>>)
  <2>1. marker = <<>> /\ core \in Nat /\ scale.to \in Nat
    BY <1>1, <1>2, Constants DEF PhaseInv, TypeOK
  <2>2. Append(<<>>, scale.to) = <<scale.to>>
    OBVIOUS
  <2>3. core = scale.to \/ core < scale.to
    BY <1>1, <1>2 DEF PhaseInv, Committing
  <2>. QED BY <1>2, <2>1, <2>2, <2>3 DEF Up
<1>5. QueueInv'
  <2>1. \A e \in Engines : Due(e) = "nothing" /\ Due(e)' = "nothing"
    BY <1>2, <1>3 DEF Due
  <2>. QED BY <2>1, <1>2 DEF DInv, QueueInv
<1>6. Typed' /\ TableInv'
  BY <1>1, <1>2, <1>3, <1>4 DEF Typed, TypeOK, TableInv
<1>7. PhaseInv'
  BY <1>1, <1>2, <1>3, <1>4 DEF PhaseInv, Idle, Preparing, Committing
<1>8. EngineInv' /\ PauseInv'
  BY <1>1, <1>2, <1>3 DEF DInv, EngineInv, PauseInv, ResumedAfterSwitch, Idle, Committing
<1>9. RequestInv' /\ ExpertInv'
  BY <1>2, <1>3 DEF DInv, RequestInv, InflightExact, ExpertInv
<1>. QED BY <1>5, <1>6, <1>7, <1>8, <1>9 DEF DInv

\* Resuming every engine once all have switched preserves DInv.
LEMMA CommitResumeStep ==
  ASSUME DInv, CommitResume PROVE DInv'
<1>1. Typed /\ TypeOK /\ TableInv /\ PhaseInv /\ EngineInv
  BY DEF DInv, Typed
<1>. DEFINE S == 0..(scale.to - 1)
            m == ToEach(0..(scale.to - 1), [type |-> "RESUME"])
            c == [e \in Engines |-> [type |-> "RESUME"]]
<1>2. /\ scale.pc = "switch" /\ switched /\ scale.failed = {} /\ core' = scale.to
      /\ marker' = IF Up(scale.to) THEN Append(marker, scale.to) ELSE marker
      /\ SendEach(m)
      /\ scale' = [scale EXCEPT !.pc = "resume", !.wait = S]
      /\ UNCHANGED <<lb, ranks, start, flight, inflight, req, outs, held, eng, known, news,
                     prepared, switched, removing, experts, nScalings>>
  BY DEF CommitResume, ResumeAll, requests
<1>3. /\ S \in SUBSET Engines /\ (\A e \in Engines : e \in S <=> e < scale.to)
      /\ core \in Nat \ {0} /\ scale.to \in Nat \ {0} /\ core <= scale.to
  <2>1. core \in Nat \ {0} /\ scale.to \in Nat \ {0} /\ scale.to <= MaxSize
    BY <1>1, Constants DEF TypeOK
  <2>2. core <= scale.to
    BY <2>1, <1>1, <1>2 DEF PhaseInv, Committing
  <2>. QED BY <2>1, <2>2, Constants DEF Engines
<1>4. \A e \in S : eng[e].life = "up" /\ eng[e].eep = "none"
  BY <1>1, <1>2, <1>3 DEF EngineInv, Committing
<1>5. /\ scale'.pc = "resume" /\ scale'.to = scale.to /\ scale'.wait = S
      /\ scale'.failed = scale.failed /\ scale'.experts = scale.experts /\ scale' \in ScaleState
  BY <1>1, <1>2, <1>3 DEF Typed, ScaleState
<1>6. /\ queue' \in [Engines -> Seq(Message)] /\ InflightExact'
      /\ \A e \in S : Once(queue'[e], "RESUME")
      /\ \A e \in Engines \ S : Clean(queue'[e])
      /\ \A e \in removing : Sealed(queue'[e])
  <2>1. c \in [Engines -> Message]
    BY MessageFacts
  <2>2. \A e \in Engines : m[e] = IF e \in S THEN <<c[e]>> ELSE <<>>
    BY DEF ToEach
  <2>3. \A e \in S : c[e].type = "RESUME" /\ c[e].type \notin Data /\ c[e].type # "PAUSE"
    BY <1>3 DEF Data
  <2>. HIDE DEF m, c, S
  <2>4. queue' = [e \in Engines |-> IF e \in S THEN Append(queue[e], c[e]) ELSE queue[e]]
    <3>1. queue \in [Engines -> Seq(Message)]
      BY <1>1 DEF Typed
    <3>2. \A e \in S : eng[e].life # "gone"
      BY <1>4
    <3>. QED BY <2>1, <2>2, <3>1, <3>2, <1>2, <1>3, SentEach
  <2>5. \A e \in Engines : Due(e) = "nothing"
    BY <1>2 DEF Due
  <2>. QED BY <2>1, <2>3, <2>4, <2>5, <1>2, <1>3, ControlSent
<1>. HIDE DEF m, c, S
<1>7. marker' \in {<<>>, <<scale.to>>}
  <2>1. core = scale.to \/ (core < scale.to /\ marker = <<>>)
    BY <1>1, <1>2 DEF PhaseInv, Committing
  <2>2. Append(<<>>, scale.to) = <<scale.to>>
    OBVIOUS
  <2>3. CASE core = scale.to
    BY <2>3, <1>1, <1>2, <1>3 DEF Up, TableInv
  <2>4. CASE core < scale.to /\ marker = <<>>
    BY <2>4, <2>2, <1>2, <1>3 DEF Up
  <2>. QED BY <2>1, <2>3, <2>4
<1>8. QueueInv'
  <2>1. \A e \in Engines : Due(e)' = IF e \in S THEN "RESUME" ELSE "nothing"
    BY <1>2, <1>5 DEF Due
  <2>. QED BY <2>1, <1>2, <1>6 DEF QueueInv
<1>9. Typed' /\ TableInv'
  <2>1. Typed'
    BY <1>1, <1>2, <1>5, <1>6 DEF Typed, TypeOK
  <2>2. Len(lb') \in 1..core' /\ ranks' <= core'
    <3>1. Len(lb) \in 1..core /\ ranks <= core /\ ranks \in Nat
      BY <1>1, Constants DEF TableInv, TypeOK
    <3>. QED BY <3>1, <1>2, <1>3
  <2>. QED BY <2>1, <2>2, <1>2, <1>7 DEF TableInv
<1>10. PhaseInv'
  <2>1. OldEngines' = S
    BY <1>2 DEF OldEngines, S
  <2>. QED BY <2>1, <1>1, <1>2, <1>3, <1>5 DEF PhaseInv, Idle, Preparing, Committing
<1>11. EngineInv' /\ PauseInv'
  BY <1>1, <1>2, <1>3, <1>4, <1>5 DEF DInv, EngineInv, PauseInv, ResumedAfterSwitch, Idle, Committing
<1>12. RequestInv' /\ ExpertInv'
  BY <1>2, <1>5, <1>6 DEF DInv, RequestInv, ExpertInv
<1>. QED BY <1>8, <1>9, <1>10, <1>11, <1>12 DEF DInv

\* A preparation or a switch that the client gives up preserves DInv.
LEMMA ClientFailsStep ==
  ASSUME DInv, PrepareFails \/ CommitFails PROVE DInv'
<1>1. Typed /\ TypeOK /\ TableInv /\ PhaseInv /\ EngineInv
  BY DEF DInv, Typed
<1>2. /\ UNCHANGED <<core, lb, ranks, start, flight, inflight, req, outs, queue, held, eng, known,
                     news, marker, prepared, switched, removing, experts, nScalings>>
      /\ scale' = [scale EXCEPT !.failed = @ \cup {None}]
      /\ scale.pc \in {"prepare", "switch"}
  BY DEF PrepareFails, CommitFails, Fails, routing, requests, engines, stats
<1>3. /\ scale'.pc = scale.pc /\ scale'.to = scale.to /\ scale'.wait = scale.wait
      /\ scale'.failed = scale.failed \cup {None} /\ scale'.experts = scale.experts
      /\ scale' \in ScaleState
  BY <1>1, <1>2 DEF Typed, ScaleState
<1>4. \A e \in Engines : Due(e)' = Due(e)
  BY <1>2, <1>3, Constants DEF Due, Kept
<1>5. QueueInv'
  BY <1>2, <1>4 DEF DInv, QueueInv
<1>6. Typed' /\ TableInv'
  BY <1>1, <1>2, <1>3 DEF Typed, TypeOK, TableInv
<1>7. PhaseInv'
  BY <1>1, <1>2, <1>3 DEF PhaseInv, Idle, Preparing, Committing
<1>8. EngineInv' /\ PauseInv'
  BY <1>1, <1>2, <1>3 DEF DInv, EngineInv, PauseInv, ResumedAfterSwitch, Idle, Committing
<1>9. RequestInv' /\ ExpertInv'
  BY <1>2, <1>3 DEF DInv, RequestInv, InflightExact, ExpertInv
<1>. QED BY <1>5, <1>6, <1>7, <1>8, <1>9 DEF DInv

\* A scaling that is done preserves DInv.
LEMMA CommitDoneStep ==
  ASSUME DInv, CommitDone PROVE DInv'
<1>1. Typed /\ TypeOK /\ TableInv /\ PhaseInv /\ EngineInv
  BY DEF DInv, Typed
<1>2. UNCHANGED <<core, lb, ranks, start, flight, inflight, req, outs, queue, held, eng, known,
                  news, marker, switched, removing, nScalings>>
  BY DEF CommitDone, routing, requests, engines, stats
<1>3. /\ scale.pc = "resume" /\ scale.wait = {} /\ experts' = scale.experts /\ prepared' = 0
      /\ scale' = [scale EXCEPT !.pc = "none"]
  BY DEF CommitDone
<1>4. /\ scale'.pc = "none" /\ scale'.to = scale.to /\ scale'.wait = scale.wait
      /\ scale'.failed = scale.failed /\ scale'.experts = scale.experts
      /\ scale' \in ScaleState /\ scale.experts \in Nat
  BY <1>1, <1>3 DEF Typed, ScaleState
<1>5. QueueInv'
  <2>1. \A e \in Engines : Due(e) = "nothing" /\ Due(e)' = "nothing"
    BY <1>3, <1>4 DEF Due
  <2>. QED BY <2>1, <1>2 DEF DInv, QueueInv
<1>6. Typed' /\ TableInv'
  BY <1>1, <1>2, <1>3, <1>4 DEF Typed, TypeOK, TableInv
<1>7. PhaseInv'
  BY <1>1, <1>2, <1>3, <1>4 DEF PhaseInv, Idle, Preparing, Committing
<1>8. EngineInv' /\ PauseInv'
  BY <1>1, <1>2, <1>3, <1>4 DEF DInv, EngineInv, PauseInv, ResumedAfterSwitch, Idle, Committing
<1>9. RequestInv' /\ ExpertInv'
  BY <1>1, <1>2, <1>3, <1>4 DEF DInv, RequestInv, InflightExact, ExpertInv, PhaseInv
<1>. QED BY <1>5, <1>6, <1>7, <1>8, <1>9 DEF DInv

-----------------------------------------------------------------------------
(* The engines' steps.                                                     *)

\* Forming the new groups preserves DInv.
LEMMA ProgressStep ==
  ASSUME DInv, Progress PROVE DInv'
<1>1. Typed /\ TypeOK /\ TableInv /\ PhaseInv /\ EngineInv
  BY DEF DInv, Typed
<1>2. /\ scale.pc = "prepare" /\ \A e \in 0..(scale.to - 1) : eng[e].eep = "preparing"
      /\ eng' = [e \in Engines |-> IF e < scale.to THEN [eng[e] EXCEPT !.eep = "ready"] ELSE eng[e]]
      /\ UNCHANGED <<core, lb, ranks, start, flight, inflight, req, outs, queue, held, known,
                     news, marker, scale, prepared, switched, removing, experts, nScalings>>
  BY DEF Progress, routing, requests, stats, scaling
<1>3. scale.to \in Nat /\ core \in Nat /\ \A e \in Engines : e < scale.to => eng[e].eep = "preparing"
  BY <1>1, <1>2, Constants DEF TypeOK, Engines
<1>4. \A e \in Engines : /\ eng'[e].life = eng[e].life /\ eng'[e].paused = eng[e].paused
                         /\ e < scale.to => eng'[e].eep = "ready"
                         /\ ~ (e < scale.to) => eng'[e] = eng[e]
  BY <1>1, <1>2 DEF TypeOK, EngineState
<1>5. eng' \in [Engines -> EngineState]
  BY <1>1, <1>2 DEF TypeOK, EngineState
<1>6. QueueInv'
  <2>1. \A e \in Kept(scale.to) : e < scale.to
    BY <1>3 DEF Kept
  <2>2. \A e \in Engines : Due(e) = "nothing" /\ Due(e)' = "nothing"
    BY <2>1, <1>2, <1>3, <1>4 DEF Due, Kept
  <2>. QED BY <2>2, <1>2 DEF DInv, QueueInv
<1>7. Typed' /\ TableInv'
  BY <1>1, <1>2, <1>5 DEF Typed, TypeOK, TableInv
<1>8. PhaseInv'
  BY <1>1, <1>2 DEF PhaseInv, Idle, Preparing, Committing, OldEngines
<1>9. EngineInv' /\ PauseInv'
  BY <1>1, <1>2, <1>4 DEF DInv, EngineInv, PhaseInv, Preparing, PauseInv, ResumedAfterSwitch, Idle, Committing
<1>10. RequestInv' /\ ExpertInv'
  BY <1>2 DEF DInv, RequestInv, InflightExact, ExpertInv
<1>. QED BY <1>6, <1>7, <1>8, <1>9, <1>10 DEF DInv

\* The switch preserves DInv: it happens only when every engine that existed
\* before has been told to switch or to leave.
LEMMA SwitchStep ==
  ASSUME DInv, Switch PROVE DInv'
<1>1. Typed /\ TypeOK /\ TableInv /\ PhaseInv /\ EngineInv
  BY DEF DInv, Typed
<1>2. /\ ~ switched /\ switched' = TRUE
      /\ \A e \in Members :
           eng[e].eep = IF eng[e].life = "starting" THEN "ready" ELSE "committed"
      /\ eng' = [e \in Engines |-> IF e \in Members \ removing
                   THEN [life |-> "up", paused |-> eng[e].paused, eep |-> "none"] ELSE eng[e]]
      /\ UNCHANGED <<core, lb, ranks, start, flight, inflight, req, outs, queue, held, known,
                     news, marker, scale, prepared, removing, experts, nScalings>>
  BY DEF Switch, routing, requests, stats
<1>3. \A e \in Engines : eng[e].life \in {"starting", "up"} <=> e \in Members
  BY DEF Members
<1>4. scale.pc \in {"commit", "switch"}
  <2>1. scale.pc \notin {"none", "prepare", "resume"}
    BY <1>1, <1>2 DEF PhaseInv, Idle, Preparing
  <2>2. scale.pc # "pause"
    <3>1. 0 \in Engines /\ 0 < core
      BY <1>1, Constants DEF TypeOK
    <3>2. eng[0].life = "up" /\ 0 \in Members
      BY <3>1, <1>1, <1>3 DEF EngineInv
    <3>3. eng[0].eep = "committed"
      BY <3>2, <1>2
    <3>. QED BY <3>1, <3>3, <1>1 DEF EngineInv
  <2>. QED BY <2>1, <2>2, <1>1 DEF TypeOK
<1>5. scale.pc = "commit" => scale.wait = {}
  <2>. SUFFICES ASSUME scale.pc = "commit", NEW e \in scale.wait PROVE FALSE
    OBVIOUS
  <2>1. e \in Engines /\ eng[e].life = "up"
    <3>1. core \in Nat /\ core <= MaxSize /\ (e \in OldEngines \/ e \in removing)
      BY <1>1, Constants DEF TypeOK, PhaseInv
    <3>2. CASE e \in removing
      BY <3>2, <1>1 DEF EngineInv, TypeOK
    <3>3. CASE e \in OldEngines
      <4>1. e \in Engines /\ e < core
        BY <3>1, <3>3, Constants DEF OldEngines, Engines
      <4>. QED BY <4>1, <1>1 DEF EngineInv
    <3>. QED BY <3>1, <3>2, <3>3
  <2>2. eng[e].eep = "committed"
    BY <2>1, <1>2, <1>3
  <2>. QED BY <2>2, <1>1 DEF EngineInv
<1>6. \A e \in Engines : eng'[e].paused = eng[e].paused
  BY <1>2
<1>7. eng' \in [Engines -> EngineState]
  BY <1>1, <1>2 DEF TypeOK, EngineState
<1>8. \A e \in Engines \ removing : eng'[e].eep = "none"
  <2>. TAKE e \in Engines \ removing
  <2>1. CASE e \in Members
    BY <2>1, <1>2
  <2>2. CASE e \notin Members
    <3>1. eng[e].life \in {"none", "gone"}
      BY <2>2, <1>1, <1>3 DEF TypeOK, EngineState
    <3>. QED BY <3>1, <2>2, <1>1, <1>2 DEF EngineInv
  <2>. QED BY <2>1, <2>2
<1>9. \A e \in Engines : e < core \/ e < scale.to => e \notin removing /\ eng'[e].life = "up"
  <2>1. \A e \in Engines : e < core \/ e < scale.to => e \notin removing /\ eng[e].life \in {"starting", "up"}
    BY <1>1 DEF EngineInv
  <2>. QED BY <2>1, <1>2, <1>3
<1>10. QueueInv'
  <2>1. \A e \in Engines : Due(e) = "nothing" /\ Due(e)' = "nothing"
    BY <1>2, <1>4, <1>5 DEF Due
  <2>. QED BY <2>1, <1>2 DEF DInv, QueueInv
<1>11. Typed' /\ TableInv'
  BY <1>1, <1>2, <1>7 DEF Typed, TypeOK, TableInv
<1>12. PhaseInv'
  BY <1>1, <1>2, <1>4, <1>5 DEF PhaseInv, Idle, Preparing, Committing, OldEngines
<1>13. EngineInv'
  <2>1. \A e \in removing : e \in Engines /\ eng'[e] = eng[e]
    BY <1>1, <1>2 DEF TypeOK
  <2>2. \A e \in Engines : eng'[e].life \in {"none", "gone"} => eng'[e].eep = "none"
    BY <2>1, <1>1, <1>8 DEF EngineInv
  <2>. QED BY <2>1, <2>2, <1>1, <1>2, <1>4, <1>5, <1>8, <1>9 DEF EngineInv, Idle, Committing
<1>14. PauseInv'
  <2>1. OldEngines \cup removing \subseteq Engines
    BY <1>1, Constants DEF TypeOK, OldEngines, Engines, Sizes
  <2>. QED BY <2>1, <1>2, <1>4, <1>6, <1>8 DEF DInv, PauseInv, ResumedAfterSwitch, OldEngines
<1>15. RequestInv' /\ ExpertInv'
  BY <1>2 DEF DInv, RequestInv, InflightExact, ExpertInv
<1>. QED BY <1>10, <1>11, <1>12, <1>13, <1>14, <1>15 DEF DInv

\* What is queued at an engine that is removed and has paused is no request.
LEMMA RemovedQueue ==
  ASSUME DInv, NEW e \in removing, ~ (scale.pc = "pause" /\ e \in scale.wait)
  PROVE  /\ e \in Engines /\ queue[e] \in Seq(Message) /\ held[e] = {}
         /\ \A i \in DOMAIN queue[e] : queue[e][i].type # "ADD"
<1>1. e \in Engines /\ queue[e] \in Seq(Message) /\ held[e] = {} /\ Sealed(queue[e])
  BY DEF DInv, Typed, TypeOK, RequestInv, QueueInv
<1>2. Due(e) \in {"nothing", "LEAVE", "COMMIT", "RESUME", "REINIT"}
  BY DEF Due
<1>3. IF Due(e) = "nothing" THEN Clean(queue[e]) ELSE Once(queue[e], Due(e))
  BY <1>1 DEF DInv, QueueInv
<1>. QED BY <1>1, <1>2, <1>3, NoneQueued

\* A removed engine that leaves takes no request with it.
LEMMA LeaveStep ==
  ASSUME DInv, NEW e \in Engines, Leave(e) PROVE DInv'
<1>1. Typed /\ TypeOK /\ TableInv /\ PhaseInv /\ EngineInv
  BY DEF DInv, Typed
<1>2. /\ switched /\ e \in removing /\ eng[e].life = "up"
      /\ eng' = [eng EXCEPT ![e].life = "gone", ![e].eep = "none"]
      /\ queue' = [queue EXCEPT ![e] = <<>>]
      /\ held' = [held EXCEPT ![e] = {}]
      /\ removing' = removing \ {e}
      /\ UNCHANGED <<core, lb, ranks, start, flight, inflight, req, outs, known, news, marker,
                     scale, prepared, switched, experts, nScalings>>
  BY DEF Leave, routing, requests, stats
<1>3. scale.pc # "pause" /\ scale.pc # "prepare" /\ ~ (e < core) /\ ~ (e < scale.to)
  BY <1>1, <1>2 DEF PhaseInv, Preparing, EngineInv
<1>4. /\ eng' \in [Engines -> EngineState] /\ eng'[e].life = "gone" /\ eng'[e].eep = "none"
      /\ \A f \in Engines : f # e => eng'[f] = eng[f] /\ queue'[f] = queue[f] /\ held'[f] = held[f]
      /\ queue'[e] = <<>> /\ held'[e] = {}
  BY <1>1, <1>2 DEF Typed, TypeOK, EngineState
<1>5. held[e] = {} /\ ~ \E x \in Requests : Queued(queue[e], x)
  BY <1>2, <1>3, RemovedQueue DEF Queued
<1>6. InflightExact'
  <2>1. ASSUME NEW x \in Requests, flight'[x] # None PROVE Placed(x)'
    <3>1. flight' = flight /\ outs' = outs
      BY <1>2
    <3>2. Placed(x) /\ flight[x] \in Engines
      BY <2>1, <3>1, InFlight
    <3>3. CASE flight[x] = e
      BY <3>1, <3>2, <3>3, <1>5 DEF Placed
    <3>4. CASE flight[x] # e
      BY <3>1, <3>2, <3>4, <1>4 DEF Placed
    <3>. QED BY <3>3, <3>4
  <2>2. \A f \in Engines : inflight[f] = Cardinality({x \in Requests : flight[x] = f})
    BY DEF DInv, RequestInv, InflightExact
  <2>3. flight' = flight /\ inflight' = inflight
    BY <1>2
  <2>4. \A f \in Engines : inflight'[f] = Cardinality({x \in Requests : flight'[x] = f})
    BY <2>2, <2>3
  <2>5. \A x \in Requests : flight'[x] # None => Placed(x)'
    BY <2>1
  <2>. QED BY <2>4, <2>5, Zenon DEF InflightExact, Placed, Queued
<1>7. QueueInv'
  <2>1. \A f \in Engines : f # e => Due(f)' = Due(f)
    BY <1>2, <1>4 DEF Due, Kept
  <2>2. Due(e)' = "nothing"
    <3>1. ~ (scale.pc = "commit" /\ e \in scale.wait)
      BY <1>1, <1>2 DEF PhaseInv
    <3>2. ~ (scale.pc = "resume" /\ e \in scale.wait)
      BY <1>1, <1>3, Constants DEF PhaseInv, OldEngines, TypeOK
    <3>. QED BY <3>1, <3>2, <1>2, <1>3 DEF Due
  <2>3. Clean(queue'[e])
    BY <1>4 DEF Clean
  <2>4. ASSUME NEW f \in Engines
        PROVE IF Due(f)' = "nothing" THEN Clean(queue'[f]) ELSE Once(queue'[f], Due(f)')
    <3>1. CASE f = e
      BY <3>1, <2>2, <2>3
    <3>2. CASE f # e
      BY <3>2, <2>1, <1>4 DEF DInv, QueueInv
    <3>. QED BY <3>1, <3>2
  <2>5. \A f \in removing' : Sealed(queue'[f])
    BY <1>1, <1>2, <1>4 DEF DInv, QueueInv, TypeOK
  <2>. QED BY <2>4, <2>5 DEF QueueInv
<1>8. Typed'
  <2>1. queue' \in [Engines -> Seq(Message)]
    BY <1>1, <1>2 DEF Typed
  <2>2. held' \in [Engines -> SUBSET Requests] /\ removing' \subseteq Engines
    BY <1>1, <1>2 DEF TypeOK
  <2>. QED BY <1>1, <1>2, <1>4, <2>1, <2>2 DEF Typed, TypeOK
<1>9. TableInv'
  BY <1>1, <1>2 DEF TableInv
<1>10. PhaseInv'
  BY <1>1, <1>2, <1>3 DEF PhaseInv, Idle, Preparing, Committing, OldEngines
<1>11. EngineInv'
  BY <1>1, <1>2, <1>3, <1>4 DEF EngineInv, Idle, Committing, TypeOK, PhaseInv
<1>12. PauseInv'
  <2>1. OldEngines' \cup removing' \subseteq Engines
    BY <1>1, <1>2, Constants DEF TypeOK, OldEngines, Engines, Sizes
  <2>2. e \notin OldEngines'
    BY <1>1, <1>2, <1>3, Constants DEF OldEngines, TypeOK
  <2>. QED BY <2>1, <2>2, <1>2, <1>3, <1>4 DEF DInv, PauseInv, ResumedAfterSwitch, OldEngines
<1>13. RequestInv' /\ ExpertInv'
  BY <1>1, <1>2, <1>4, <1>6 DEF DInv, RequestInv, ExpertInv, TypeOK
<1>. QED BY <1>7, <1>8, <1>9, <1>10, <1>11, <1>12, <1>13 DEF DInv

\* Requests that leave an engine's queue or its scheduler are held or finished.
LEMMA MovedOn ==
  ASSUME DInv, NEW e \in Engines,
         UNCHANGED <<flight, inflight>>, outs \subseteq outs',
         \A f \in Engines : f # e => held'[f] = held[f] /\ queue'[f] = queue[f],
         held[e] \subseteq held'[e] \cup outs',
         \A x \in Requests : Queued(queue[e], x) => Queued(queue'[e], x) \/ x \in held'[e]
  PROVE  InflightExact'
<1>1. ASSUME NEW x \in Requests, flight'[x] # None PROVE Placed(x)'
  <2>1. flight' = flight
    OBVIOUS
  <2>2. Placed(x) /\ flight[x] \in Engines
    BY <1>1, <2>1, InFlight
  <2>3. CASE flight[x] = e
    BY <2>1, <2>2, <2>3 DEF Placed
  <2>4. CASE flight[x] # e
    BY <2>1, <2>2, <2>4 DEF Placed
  <2>. QED BY <2>3, <2>4
<1>2. \A f \in Engines : inflight[f] = Cardinality({x \in Requests : flight[x] = f})
  BY DEF DInv, RequestInv, InflightExact
<1>3. flight' = flight /\ inflight' = inflight
  OBVIOUS
<1>4. \A f \in Engines : inflight'[f] = Cardinality({x \in Requests : flight'[x] = f})
  BY <1>2, <1>3
<1>5. \A x \in Requests : flight'[x] # None => Placed(x)'
  BY <1>1
<1>. QED BY <1>4, <1>5, Zenon DEF InflightExact, Placed, Queued

\* A request that runs to its end preserves DInv.
LEMMA FinishStep ==
  ASSUME DInv, NEW e \in Engines, NEW r \in Requests, Finish(e, r) PROVE DInv'
<1>1. Typed /\ TypeOK
  BY DEF DInv, Typed
<1>2. /\ r \in held[e] /\ held' = [held EXCEPT ![e] = @ \ {r}] /\ outs' = outs \cup {r}
      /\ UNCHANGED <<core, lb, ranks, start, flight, inflight, req, queue, eng, known, news, marker,
                     scale, prepared, switched, removing, experts, nScalings>>
  BY DEF Finish, routing, stats, scaling
<1>3. /\ held' \in [Engines -> SUBSET Requests] /\ held'[e] = held[e] \ {r}
      /\ \A f \in Engines : f # e => held'[f] = held[f]
  BY <1>1, <1>2 DEF TypeOK
<1>4. InflightExact'
  BY <1>2, <1>3, MovedOn
<1>5. Typed' /\ TableInv'
  BY <1>1, <1>2, <1>3 DEF DInv, Typed, TypeOK, TableInv
<1>6. PhaseInv' /\ EngineInv' /\ PauseInv' /\ ExpertInv' /\ \A f \in Engines : Due(f)' = Due(f)
  BY <1>2, OthersKept
<1>7. QueueInv'
  BY <1>2, <1>6 DEF DInv, QueueInv
<1>8. RequestInv'
  BY <1>1, <1>2, <1>3, <1>4 DEF DInv, RequestInv, TypeOK
<1>. QED BY <1>5, <1>6, <1>7, <1>8 DEF DInv

\* A message read: a control message is the one due, and then none is.
LEMMA ReceiveQueue ==
  ASSUME DInv, NEW e \in Engines, queue[e] # <<>>,
         queue' = [queue EXCEPT ![e] = Tail(@)], removing' = removing,
         \A f \in Engines : f # e => Due(f)' = Due(f),
         Head(queue[e]).type \in Data => Due(e)' = Due(e),
         Head(queue[e]).type \notin Data => Due(e)' = "nothing"
  PROVE  queue' \in [Engines -> Seq(Message)] /\ QueueInv'
<1>1. queue \in [Engines -> Seq(Message)] /\ queue[e] \in Seq(Message) /\ removing \subseteq Engines
  BY DEF DInv, Typed, TypeOK
<1>2. queue'[e] = Tail(queue[e]) /\ \A f \in Engines : f # e => queue'[f] = queue[f]
  BY <1>1
<1>3. queue' \in [Engines -> Seq(Message)]
  BY <1>1, TailFacts
<1>4. Due(e) \notin Data
  BY DEF Due, Data
<1>5. IF Due(e) = "nothing" THEN Clean(queue[e]) ELSE Once(queue[e], Due(e))
  BY DEF DInv, QueueInv
<1>6. IF Due(e)' = "nothing" THEN Clean(queue'[e]) ELSE Once(queue'[e], Due(e)')
  BY <1>1, <1>2, <1>4, <1>5, Reading
<1>7. ASSUME NEW f \in Engines
      PROVE IF Due(f)' = "nothing" THEN Clean(queue'[f]) ELSE Once(queue'[f], Due(f)')
  <2>1. CASE f = e
    BY <2>1, <1>6
  <2>2. CASE f # e
    BY <2>2, <1>2 DEF DInv, QueueInv
  <2>. QED BY <2>1, <2>2
<1>8. ASSUME NEW f \in removing PROVE Sealed(queue'[f])
  <2>1. Sealed(queue[f]) /\ f \in Engines
    BY <1>1 DEF DInv, QueueInv
  <2>2. CASE f = e
    BY <2>1, <2>2, <1>1, <1>2, Reading
  <2>3. CASE f # e
    BY <2>1, <2>3, <1>2
  <2>. QED BY <2>2, <2>3
<1>. QED BY <1>3, <1>7, <1>8 DEF QueueInv

\* A control message at the head of a queue is the one its engine is due.
LEMMA ControlDue ==
  ASSUME DInv, NEW e \in Engines, queue[e] # <<>>, Head(queue[e]).type \notin Data
  PROVE  Due(e) = Head(queue[e]).type
<1>1. queue[e] \in Seq(Message)
  BY DEF DInv, Typed
<1>2. IF Due(e) = "nothing" THEN Clean(queue[e]) ELSE Once(queue[e], Due(e))
  BY DEF DInv, QueueInv
<1>3. Due(e) \notin Data
  BY DEF Due, Data
<1>. QED BY <1>1, <1>2, <1>3, Reading

\* An engine that is due a message has not failed, and the client waits for it.
LEMMA DueType ==
  ASSUME NEW e \in Engines, Due(e) # "nothing"
  PROVE  /\ e \notin scale.failed
         /\ scale.pc \in {"pause", "commit", "resume"} => e \in scale.wait
         /\ scale.pc \in {"prepare", "pause", "commit", "resume"}
BY DEF Due

\* What becomes of the requests queued when one message is read.
LEMMA ReadRequests ==
  ASSUME NEW q \in Seq(Message), q # <<>>
  PROVE  \A x \in Requests : Queued(q, x) =>
           Queued(Tail(q), x) \/ (Head(q).type = "ADD" /\ Head(q).req = x)
BY QueuedTail

\* A data message read preserves DInv.
LEMMA ReceiveDataStep ==
  ASSUME DInv, NEW e \in Engines, Receive(e), Head(queue[e]).type \in Data PROVE DInv'
<1>. DEFINE m == Head(queue[e])
<1>1. Typed /\ TypeOK /\ queue[e] \in Seq(Message) /\ queue[e] # <<>>
  BY DEF DInv, Typed, Receive
<1>2. m \in Message /\ m.req \in Requests /\ m = queue[e][1] /\ 1 \in DOMAIN queue[e]
  BY <1>1, TailFacts, MessageFacts
<1>3. /\ queue' = [queue EXCEPT ![e] = Tail(@)]
      /\ UNCHANGED <<core, lb, ranks, start, flight, inflight, req, eng, known, news, marker,
                     scale, prepared, switched, removing, experts, nScalings>>
      /\ \/ /\ m.type = "ADD" /\ held' = [held EXCEPT ![e] = @ \cup {m.req}] /\ outs' = outs
         \/ /\ m.type = "ABORT" /\ held' = [held EXCEPT ![e] = @ \ {m.req}]
            /\ outs' = outs \cup (held[e] \cap {m.req})
  BY DEF Receive, routing, stats, Data
<1>. HIDE DEF m
<1>4. PhaseInv' /\ EngineInv' /\ PauseInv' /\ ExpertInv' /\ \A f \in Engines : Due(f)' = Due(f)
  BY <1>3, OthersKept
<1>5. queue' \in [Engines -> Seq(Message)] /\ QueueInv'
  BY <1>1, <1>3, <1>4, ReceiveQueue
<1>6. /\ held' \in [Engines -> SUBSET Requests] /\ outs' \subseteq Requests /\ outs \subseteq outs'
      /\ \A f \in Engines : f # e => held'[f] = held[f] /\ queue'[f] = queue[f]
      /\ held[e] \subseteq held'[e] \cup outs' /\ (m.type = "ADD" => m.req \in held'[e])
      /\ queue'[e] = Tail(queue[e])
  <2>1. queue'[e] = Tail(queue[e]) /\ \A f \in Engines : f # e => queue'[f] = queue[f]
    BY <1>1, <1>3 DEF Typed
  <2>2. held \in [Engines -> SUBSET Requests] /\ outs \subseteq Requests
    BY <1>1 DEF TypeOK
  <2>3. CASE m.type = "ADD" /\ held' = [held EXCEPT ![e] = @ \cup {m.req}] /\ outs' = outs
    BY <2>1, <2>2, <2>3, <1>2
  <2>4. CASE /\ m.type = "ABORT" /\ held' = [held EXCEPT ![e] = @ \ {m.req}]
             /\ outs' = outs \cup (held[e] \cap {m.req})
    BY <2>1, <2>2, <2>4, <1>2
  <2>. QED BY <2>3, <2>4, <1>3
<1>7. InflightExact'
  <2>1. \A x \in Requests : Queued(queue[e], x) => Queued(queue'[e], x) \/ x \in held'[e]
    BY <1>1, <1>6, ReadRequests DEF m
  <2>. QED BY <2>1, <1>3, <1>6, MovedOn
<1>8. RequestInv'
  <2>1. ASSUME NEW f \in removing, ~ (scale.pc = "pause" /\ f \in scale.wait) PROVE held'[f] = {}
    <3>1. /\ f \in Engines /\ held[f] = {} /\ \A i \in DOMAIN queue[f] : queue[f][i].type # "ADD"
      BY <2>1, RemovedQueue
    <3>2. CASE f = e
      <4>1. m.type = "ABORT"
        BY <3>1, <3>2, <1>2, <1>3
      <4>. QED BY <4>1, <3>1, <3>2, <1>1, <1>3 DEF TypeOK
    <3>3. CASE f # e
      BY <3>1, <3>3, <1>6
    <3>. QED BY <3>2, <3>3
  <2>. QED BY <2>1, <1>3, <1>7 DEF DInv, RequestInv
<1>9. Typed' /\ TableInv'
  BY <1>1, <1>3, <1>5, <1>6 DEF DInv, Typed, TypeOK, TableInv
<1>. QED BY <1>4, <1>5, <1>8, <1>9 DEF DInv

\* A control message read: what it leaves alone.
LEMMA ReceiveControlFrame ==
  ASSUME DInv, NEW e \in Engines, Receive(e), Head(queue[e]).type \notin Data,
         eng' \in [Engines -> EngineState], \A f \in Engines : f # e => eng'[f] = eng[f],
         eng'[e].life = "up",
         \/ scale' = scale /\ ~ (scale.pc \in {"pause", "commit", "resume"} /\ e \in scale.wait)
         \/ scale' = [scale EXCEPT !.wait = @ \ {e}],
         scale.pc = "prepare" => eng'[e].eep # "none",
         outs \subseteq outs', outs' \subseteq Requests, held' \in [Engines -> SUBSET Requests],
         \A f \in Engines : f # e => held'[f] = held[f],
         held'[e] \subseteq held[e], held[e] \subseteq held'[e] \cup outs',
         e \in removing /\ scale.pc = "pause" => held'[e] = {}
  PROVE  /\ Typed' /\ QueueInv' /\ PhaseInv' /\ TableInv' /\ RequestInv' /\ ExpertInv'
         /\ scale'.pc = scale.pc /\ scale'.to = scale.to /\ scale'.wait \subseteq scale.wait
         /\ \A f \in Engines : f # e => (f \in scale'.wait <=> f \in scale.wait)
         /\ scale.pc \in {"pause", "commit", "resume"} => e \notin scale'.wait
         /\ UNCHANGED <<core, switched, removing, prepared>> /\ eng[e].life = "up"
<1>1. Typed /\ TypeOK /\ TableInv /\ PhaseInv /\ queue[e] \in Seq(Message)
  BY DEF DInv, Typed
<1>2. /\ queue[e] # <<>> /\ eng[e].life = "up" /\ queue' = [queue EXCEPT ![e] = Tail(@)]
      /\ UNCHANGED <<core, lb, ranks, start, flight, inflight, req, known, news, marker,
                     prepared, switched, removing, experts, nScalings>>
  BY DEF Receive, routing, stats
<1>3. /\ scale'.pc = scale.pc /\ scale'.to = scale.to /\ scale'.experts = scale.experts
      /\ scale' \in ScaleState /\ scale'.failed = scale.failed /\ scale'.wait \subseteq scale.wait
      /\ \A f \in Engines : f # e => (f \in scale'.wait <=> f \in scale.wait)
      /\ scale.pc \in {"pause", "commit", "resume"} => e \notin scale'.wait
  <2>1. scale \in ScaleState
    BY <1>1 DEF Typed
  <2>2. CASE scale' = scale /\ ~ (scale.pc \in {"pause", "commit", "resume"} /\ e \in scale.wait)
    BY <2>1, <2>2
  <2>3. CASE scale' = [scale EXCEPT !.wait = @ \ {e}]
    <3>1. /\ scale'.pc = scale.pc /\ scale'.to = scale.to /\ scale'.experts = scale.experts
          /\ scale'.failed = scale.failed /\ scale'.wait = scale.wait \ {e}
      BY <2>1, <2>3 DEF ScaleState
    <3>2. scale' \in ScaleState
      BY <2>1, <2>3 DEF ScaleState
    <3>. QED BY <3>1, <3>2
  <2>. QED BY <2>2, <2>3
<1>4. /\ \A f \in Engines : f # e => Due(f)' = Due(f)
      /\ Due(e)' = "nothing"
  BY <1>2, <1>3 DEF Due, Kept
<1>5. queue' \in [Engines -> Seq(Message)] /\ QueueInv'
  BY <1>1, <1>2, <1>4, ReceiveQueue
<1>6. Typed' /\ TableInv'
  BY <1>1, <1>2, <1>3, <1>5 DEF Typed, TypeOK, TableInv
<1>7. PhaseInv'
  <2>1. OldEngines' = OldEngines
    BY <1>2 DEF OldEngines
  <2>2. e \notin scale.failed
    <3>1. Head(queue[e]) \in Message
      BY <1>1, <1>2, TailFacts
    <3>2. Due(e) # "nothing"
      BY <3>1, <1>2, ControlDue DEF Message
    <3>. QED BY <3>2, DueType
  <2>3. scale.pc \in {"pause", "commit", "resume"} => scale'.failed \subseteq scale'.wait
    <3>1. scale'.wait = scale.wait \/ scale'.wait = scale.wait \ {e}
      BY <1>1 DEF Typed, ScaleState
    <3>. QED BY <2>2, <3>1, <1>1, <1>3 DEF PhaseInv
  <2>. QED BY <2>1, <2>3, <1>1, <1>2, <1>3 DEF PhaseInv, Idle, Preparing, Committing
<1>8. InflightExact'
  <2>1. queue'[e] = Tail(queue[e]) /\ \A f \in Engines : f # e => queue'[f] = queue[f]
    BY <1>1, <1>2 DEF Typed
  <2>2. \A x \in Requests : Queued(queue[e], x) => Queued(queue'[e], x) \/ x \in held'[e]
    BY <2>1, <1>1, <1>2, ReadRequests DEF Data
  <2>. QED BY <2>1, <2>2, <1>2, MovedOn
<1>9. RequestInv'
  <2>1. ASSUME NEW f \in removing, ~ (scale'.pc = "pause" /\ f \in scale'.wait) PROVE held'[f] = {}
    <3>1. f \in Engines
      BY <1>1 DEF TypeOK
    <3>2. CASE f # e
      BY <2>1, <3>1, <3>2, <1>3 DEF DInv, RequestInv
    <3>3. CASE f = e /\ scale.pc # "pause"
      BY <2>1, <3>3 DEF DInv, RequestInv
    <3>. QED BY <3>2, <3>3
  <2>. QED BY <2>1, <1>2, <1>8 DEF DInv, RequestInv
<1>10. ExpertInv'
  BY <1>2, <1>3 DEF DInv, ExpertInv
<1>. QED BY <1>2, <1>3, <1>5, <1>6, <1>7, <1>9, <1>10

\* A control message read preserves DInv.
LEMMA ReceiveControlStep ==
  ASSUME DInv, NEW e \in Engines, Receive(e), Head(queue[e]).type \notin Data PROVE DInv'
<1>. DEFINE m == Head(queue[e])
            aborted == AbortedByPause(e, m.mode)
<1>1. Typed /\ TypeOK /\ PhaseInv /\ EngineInv /\ PauseInv /\ queue[e] \in Seq(Message) /\ queue[e] # <<>>
  BY DEF DInv, Typed, Receive
<1>2. eng[e] \in EngineState /\ eng[e].life = "up" /\ held[e] \subseteq Requests
  BY <1>1 DEF TypeOK, Receive
<1>3. Due(e) = m.type
  BY <1>1, ControlDue
<1>4. removing' = removing
  BY DEF Receive
<1>5. CASE m.type = "PAUSE"
  <2>1. /\ held' = [held EXCEPT ![e] = @ \ aborted] /\ outs' = outs \cup aborted
        /\ eng' = [eng EXCEPT ![e].paused = TRUE] /\ scale' = [scale EXCEPT !.wait = @ \ {e}]
    BY <1>5 DEF Receive, Answered
  <2>2. scale.pc = "pause" /\ e \in scale.wait
    BY <1>3, <1>5 DEF Due
  <2>3. aborted \subseteq held[e] /\ (e \in removing => aborted = held[e])
    <3>1. e \in removing => m.mode = "abort"
      <4>1. 1 \in DOMAIN queue[e] /\ m = queue[e][1]
        BY <1>1, TailFacts
      <4>. QED BY <4>1, <1>5 DEF DInv, QueueInv, Sealed
    <3>. QED BY <3>1 DEF AbortedByPause
  <2>. HIDE DEF aborted
  <2>4. /\ held' \in [Engines -> SUBSET Requests] /\ held'[e] = held[e] \ aborted
        /\ \A f \in Engines : f # e => held'[f] = held[f]
    BY <1>1, <2>1 DEF TypeOK
  <2>5. /\ eng' \in [Engines -> EngineState] /\ eng'[e].paused /\ eng'[e].eep = eng[e].eep
        /\ eng'[e].life = "up" /\ \A f \in Engines : f # e => eng'[f] = eng[f]
    BY <1>1, <1>2, <2>1 DEF TypeOK, EngineState
  <2>6. /\ Typed' /\ QueueInv' /\ PhaseInv' /\ TableInv' /\ RequestInv' /\ ExpertInv'
        /\ scale'.pc = scale.pc /\ scale'.to = scale.to
        /\ \A f \in Engines : f # e => (f \in scale'.wait <=> f \in scale.wait)
        /\ UNCHANGED <<core, switched, removing, prepared>>
    <3>1. outs \subseteq outs' /\ outs' \subseteq Requests
      BY <1>1, <1>2, <2>1, <2>3 DEF TypeOK
    <3>2. held'[e] \subseteq held[e] /\ held[e] \subseteq held'[e] \cup outs'
      BY <2>1, <2>4
    <3>3. e \in removing => held'[e] = {}
      BY <2>3, <2>4
    <3>4. scale.pc # "prepare"
      BY <2>2
    <3>. QED BY <2>1, <2>4, <2>5, <3>1, <3>2, <3>3, <3>4, ReceiveControlFrame
  <2>7. \A f \in Engines : eng'[f].eep = eng[f].eep /\ eng'[f].life = eng[f].life /\ (eng[f].paused => eng'[f].paused)
    BY <1>2, <2>5
  <2>8. EngineInv'
    <3>1. scale'.pc = "pause" /\ ~ switched' /\ scale.pc = "pause"
      BY <1>1, <2>2, <2>6 DEF PhaseInv
    <3>2. ~ Idle'
      BY <3>1 DEF Idle
    <3>3. \A f \in Engines : eng'[f].eep # "committed"
      BY <3>1, <2>7, <1>1 DEF EngineInv
    <3>. QED BY <3>1, <3>2, <3>3, <1>1, <2>6, <2>7, ZenonT(60) DEF EngineInv, TypeOK
  <2>9. PauseInv'
    <3>1. OldEngines' = OldEngines /\ OldEngines \cup removing \subseteq Engines
      BY <1>1, <2>6, Constants DEF OldEngines, TypeOK, Engines, Sizes
    <3>. QED BY <3>1, <1>1, <2>2, <2>5, <2>6, <2>7 DEF PauseInv, ResumedAfterSwitch
  <2>. QED BY <2>6, <2>8, <2>9 DEF DInv
<1>6. CASE m.type \in {"RESUME", "REINIT", "COMMIT", "LEAVE"}
  <2>1. /\ UNCHANGED <<held, outs>>
        /\ \/ m.type = "RESUME" /\ eng' = [eng EXCEPT ![e].paused = FALSE]
           \/ m.type = "REINIT" /\ eng' = [eng EXCEPT ![e].eep = "preparing"]
           \/ m.type \in {"COMMIT", "LEAVE"} /\ eng' = [eng EXCEPT ![e].eep = "committed"]
        /\ m.type = "REINIT" => scale' = scale
        /\ m.type # "REINIT" => scale' = [scale EXCEPT !.wait = @ \ {e}]
    BY <1>6 DEF Receive, Answered
  <2>2. /\ m.type = "RESUME" => scale.pc = "resume"
        /\ m.type = "REINIT" => scale.pc = "prepare"
        /\ m.type \in {"COMMIT", "LEAVE"} => scale.pc = "commit" /\ e \in scale.wait
        /\ m.type = "COMMIT" => e \notin removing
        /\ m.type = "LEAVE" => e \in removing
    BY <1>3, <1>6 DEF Due
  <2>3. /\ eng' \in [Engines -> EngineState]
        /\ eng'[e].life = "up" /\ \A f \in Engines : f # e => eng'[f] = eng[f]
        /\ m.type = "RESUME" => eng'[e].eep = eng[e].eep
        /\ m.type = "REINIT" => eng'[e].eep = "preparing" /\ eng'[e].paused = eng[e].paused
        /\ m.type \in {"COMMIT", "LEAVE"} => eng'[e].eep = "committed" /\ eng'[e].paused = eng[e].paused
    <3>1. CASE m.type = "RESUME"
      <4>1. eng' = [eng EXCEPT ![e].paused = FALSE]
        BY <3>1, <2>1
      <4>. QED BY <3>1, <4>1, <1>1, <1>2 DEF TypeOK, EngineState
    <3>2. CASE m.type = "REINIT"
      <4>1. eng' = [eng EXCEPT ![e].eep = "preparing"]
        BY <3>2, <2>1
      <4>. QED BY <3>2, <4>1, <1>1, <1>2 DEF TypeOK, EngineState
    <3>3. CASE m.type \in {"COMMIT", "LEAVE"}
      <4>1. eng' = [eng EXCEPT ![e].eep = "committed"]
        BY <3>3, <2>1
      <4>. QED BY <3>3, <4>1, <1>1, <1>2 DEF TypeOK, EngineState
    <3>. QED BY <1>6, <3>1, <3>2, <3>3
  <2>4. /\ Typed' /\ QueueInv' /\ PhaseInv' /\ TableInv' /\ RequestInv' /\ ExpertInv'
        /\ scale'.pc = scale.pc /\ scale'.to = scale.to /\ scale'.wait \subseteq scale.wait
        /\ \A f \in Engines : f # e => (f \in scale'.wait <=> f \in scale.wait)
        /\ scale.pc \in {"pause", "commit", "resume"} => e \notin scale'.wait
        /\ UNCHANGED <<core, switched, removing, prepared>>
    <3>1. scale.pc # "pause"
      BY <1>6, <2>2
    <3>2. outs \subseteq outs' /\ outs' \subseteq Requests /\ held' = held /\ held \in [Engines -> SUBSET Requests]
      BY <1>1, <2>1 DEF TypeOK
    <3>3. scale.pc = "prepare" => eng'[e].eep # "none"
      BY <1>6, <2>2, <2>3
    <3>4. \/ scale' = scale /\ ~ (scale.pc \in {"pause", "commit", "resume"} /\ e \in scale.wait)
          \/ scale' = [scale EXCEPT !.wait = @ \ {e}]
      BY <2>1, <2>2
    <3>. QED BY <2>3, <3>1, <3>2, <3>3, <3>4, ReceiveControlFrame
  <2>5. EngineInv'
    <3>1. \A f \in Engines : eng'[f].life = eng[f].life
      BY <1>2, <2>3
    <3>2. CASE m.type = "RESUME"
      <4>1. \A f \in Engines : eng'[f].eep = eng[f].eep
        BY <3>2, <2>3
      <4>. QED BY <3>1, <3>2, <4>1, <1>1, <2>2, <2>4, ZenonT(60) DEF EngineInv, Idle, Committing, TypeOK
    <3>3. CASE m.type = "REINIT"
      <4>1. /\ scale.pc = "prepare" /\ scale'.pc = "prepare" /\ scale'.to = scale.to
            /\ UNCHANGED <<core, switched, removing, prepared>>
        BY <3>3, <2>2, <2>4
      <4>2. \A f \in Engines : eng'[f].eep = eng[f].eep \/ eng'[f].eep = "preparing"
        BY <3>3, <2>3
      <4>3. \A f \in Engines : eng'[f].life \in {"none", "gone"} => eng'[f].eep = "none"
        BY <1>1, <2>3, <3>1 DEF EngineInv
      <4>4. removing \subseteq Engines
        BY <1>1 DEF TypeOK
      <4>5. switched => \A f \in Engines \ removing : eng'[f].eep # "committed"
        BY <1>1, <4>2 DEF EngineInv
      <4>. QED BY <1>1, <3>1, <4>1, <4>3, <4>4, <4>5 DEF EngineInv, Idle, Committing
    <3>4. CASE m.type \in {"COMMIT", "LEAVE"}
      <4>1. ~ switched /\ scale.pc = "commit"
        BY <3>4, <1>1, <2>2 DEF PhaseInv
      <4>2. \A f \in scale'.wait : f \in Engines /\ f # e /\ eng'[f].eep # "committed"
        <5>1. \A f \in scale'.wait : f \in scale.wait /\ f # e /\ f \in Engines
          BY <4>1, <2>4, <1>1 DEF Typed, ScaleState
        <5>. QED BY <5>1, <4>1, <2>3, <1>1 DEF EngineInv
      <4>3. \A f \in Engines : f # e => eng'[f] = eng[f]
        BY <2>3
      <4>. QED BY <3>1, <4>1, <4>2, <4>3, <1>1, <1>2, <2>4, ZenonT(60) DEF EngineInv, Idle, Committing, TypeOK
    <3>. QED BY <1>6, <3>2, <3>3, <3>4
  <2>6. PauseInv'
    <3>1. OldEngines' = OldEngines /\ OldEngines \cup removing \subseteq Engines
      BY <1>1, <2>4, Constants DEF OldEngines, TypeOK, Engines, Sizes
    <3>2. CASE m.type = "RESUME"
      <4>1. e \in removing \/ eng[e].eep # "committed"
        BY <3>2, <1>1, <2>2 DEF PhaseInv, EngineInv
      <4>. QED BY <3>2, <4>1, <1>1, <2>2, <2>3, <2>4 DEF PauseInv, ResumedAfterSwitch
    <3>3. CASE m.type = "REINIT"
      BY <3>3, <1>1, <2>2, <2>3, <2>4 DEF PauseInv, ResumedAfterSwitch
    <3>4. CASE m.type \in {"COMMIT", "LEAVE"}
      <4>1. \A f \in OldEngines \cup removing : eng[f].paused
        BY <3>4, <1>1, <2>2 DEF PauseInv
      <4>2. \A f \in Engines : eng'[f].paused = eng[f].paused
        BY <3>4, <2>3
      <4>3. e \in OldEngines \cup removing
        BY <3>4, <1>1, <2>2 DEF PhaseInv
      <4>4. \A f \in OldEngines \cup removing : eng'[f].paused
        BY <3>1, <4>1, <4>2
      <4>5. ResumedAfterSwitch'
        BY <3>1, <4>3, <4>4, <1>1, <2>3, <2>4 DEF PauseInv, ResumedAfterSwitch
      <4>. QED BY <3>1, <4>4, <4>5, <2>4 DEF PauseInv
    <3>. QED BY <1>6, <3>2, <3>3, <3>4
  <2>. QED BY <2>4, <2>5, <2>6 DEF DInv
<1>. QED
  <2>1. m \in Message
    BY <1>1, TailFacts
  <2>2. m.type \in {"PAUSE", "RESUME", "REINIT", "COMMIT", "LEAVE"}
    BY <2>1 DEF Message, Data
  <2>. QED BY <2>2, <1>5, <1>6

\* A call that an engine answers with an exception preserves DInv: the message is
\* read and nothing else is done.
LEMMA CallFailsStep ==
  ASSUME DInv, NEW e \in Engines, CallFails(e) PROVE DInv'
<1>1. Typed /\ TypeOK /\ TableInv /\ PhaseInv /\ EngineInv /\ queue[e] \in Seq(Message)
  BY DEF DInv, Typed
<1>2. /\ queue[e] # <<>> /\ Head(queue[e]).type \notin Data
      /\ queue' = [queue EXCEPT ![e] = Tail(@)]
      /\ scale' = [scale EXCEPT !.failed = @ \cup {e}]
      /\ UNCHANGED <<core, lb, ranks, start, flight, inflight, req, outs, held, eng, known, news,
                     marker, prepared, switched, removing, experts, nScalings>>
  BY DEF CallFails, Fails, routing, requests, stats, Data
<1>3. /\ scale'.pc = scale.pc /\ scale'.to = scale.to /\ scale'.wait = scale.wait
      /\ scale'.failed = scale.failed \cup {e} /\ scale'.experts = scale.experts
      /\ scale' \in ScaleState
  BY <1>1, <1>2 DEF Typed, ScaleState
<1>4. /\ scale.pc \in {"pause", "commit", "resume"} => e \in scale.wait
      /\ scale.pc # "none"
  <2>1. Head(queue[e]) \in Message
    BY <1>1, <1>2, TailFacts
  <2>2. Due(e) # "nothing"
    BY <2>1, <1>2, ControlDue DEF Message
  <2>. QED BY <2>2, DueType
<1>5. /\ \A f \in Engines : f # e => Due(f)' = Due(f)
      /\ Due(e)' = "nothing"
  BY <1>2, <1>3 DEF Due, Kept
<1>6. queue' \in [Engines -> Seq(Message)] /\ QueueInv'
  BY <1>2, <1>5, ReceiveQueue
<1>7. Typed' /\ TableInv'
  BY <1>1, <1>2, <1>3, <1>6 DEF Typed, TypeOK, TableInv
<1>8. PhaseInv'
  <2>1. OldEngines' = OldEngines
    BY <1>2 DEF OldEngines
  <2>. QED BY <2>1, <1>1, <1>2, <1>3, <1>4 DEF PhaseInv, Idle, Preparing, Committing
<1>9. EngineInv' /\ PauseInv' /\ ExpertInv'
  BY <1>2, <1>3 DEF DInv, EngineInv, PauseInv, ResumedAfterSwitch, ExpertInv, OldEngines, Idle,
                   Committing
<1>10. InflightExact'
  <2>1. queue'[e] = Tail(queue[e]) /\ \A f \in Engines : f # e => queue'[f] = queue[f]
    BY <1>1, <1>2 DEF Typed
  <2>2. \A x \in Requests : Queued(queue[e], x) => Queued(queue'[e], x) \/ x \in held'[e]
    BY <2>1, <1>1, <1>2, ReadRequests DEF Data
  <2>. QED BY <2>1, <2>2, <1>2, MovedOn
<1>11. RequestInv'
  BY <1>2, <1>3, <1>10 DEF DInv, RequestInv
<1>. QED BY <1>6, <1>7, <1>8, <1>9, <1>11 DEF DInv

-----------------------------------------------------------------------------
(* The theorems.                                                           *)

\* Every step preserves DInv.
LEMMA DInvStep == DInv /\ [Next]_vars => DInv'
<1>. SUFFICES ASSUME DInv, [Next]_vars PROVE DInv'
  OBVIOUS
<1>1. CASE Caller
  BY <1>1, ClientAddStep, ClientAbortStep DEF Caller
<1>2. CASE Operator
  BY <1>2, CommitStep, PrepareStep DEF Operator
<1>3. CASE OutputTask
  BY <1>3, ClientOutputStep DEF OutputTask
<1>4. CASE ReadSnapshot \/ ReadMarker \/ Publish
  BY <1>4, StatsStep
<1>5. CASE Scaling
  BY <1>5, PreparedStep, CommitSwitchStep, CommitAnsweredStep, CommitResumeStep, CommitDoneStep
     DEF Scaling
<1>6. CASE PrepareFails \/ CommitFails
  BY <1>6, ClientFailsStep
<1>7. CASE Progress
  BY <1>7, ProgressStep
<1>8. CASE Switch
  BY <1>8, SwitchStep
<1>9. ASSUME NEW e \in Engines, Engine(e) \/ CallFails(e) PROVE DInv'
  BY <1>9, ReceiveDataStep, ReceiveControlStep, LeaveStep, FinishStep, CallFailsStep DEF Engine
<1>10. CASE AtRest \/ UNCHANGED vars
  <2>1. UNCHANGED vars
    BY <1>10 DEF AtRest
  <2>2. UNCHANGED <<core, lb, ranks, start, flight, inflight, req, queue, held, eng, outs, known,
                    news, marker, scale, prepared, switched, removing, experts, nScalings>>
    BY <2>1 DEF vars
  <2>3. PhaseInv' /\ EngineInv' /\ PauseInv' /\ ExpertInv' /\ \A e \in Engines : Due(e)' = Due(e)
    BY <2>2, OthersKept
  <2>4. Typed' /\ TableInv'
    BY <2>2 DEF DInv, Typed, TypeOK, TableInv
  <2>5. QueueInv' /\ RequestInv'
    BY <2>2, <2>3 DEF DInv, QueueInv, RequestInv, InflightExact
  <2>. QED BY <2>3, <2>4, <2>5 DEF DInv
<1>. QED BY <1>1, <1>2, <1>3, <1>4, <1>5, <1>6, <1>7, <1>8, <1>9, <1>10 DEF Next

\* DInv holds in every reachable state, for every number of engines, requests and
\* scalings.
THEOREM DInvAlways == Spec => []DInv
<1>1. Init => DInv
  BY InitDInv
<1>2. DInv /\ [Next]_vars => DInv'
  BY DInvStep
<1>. QED BY <1>1, <1>2, PTL DEF Spec

\* engine_inflight is the exact number of requests sent to an engine and not seen
\* to end, and none of them is lost, whatever engines are removed.
THEOREM InflightAlwaysExact == Spec => []InflightExact
<1>1. DInv => InflightExact
  BY DEF DInv, RequestInv
<1>. QED BY <1>1, DInvAlways, PTL

\* Scaling keeps the experts per engine fixed.
LEMMA ExpertsFixed == DInv => ExpertsPerEngineFixed
<1>. SUFFICES ASSUME DInv, scale.pc = "none" PROVE experts * InitSize = InitExperts * core
  BY DEF ExpertsPerEngineFixed
<1>1. experts = PerEngine * core /\ core \in Nat
  BY Constants DEF DInv, ExpertInv, Typed, TypeOK
<1>2. InitExperts = PerEngine * InitSize /\ PerEngine \in Nat /\ InitSize \in Nat
  BY Constants
<1>. QED BY <1>1, <1>2

\* Elastic scaling changes clients and engines together: requests are routed to
\* engines that serve, experts follow the engines, and none resumes early.
THEOREM AlwaysScalesTogether == Spec => []ScalesTogether
<1>1. DInv => ScalesTogether
  <2>. SUFFICES ASSUME DInv PROVE ScalesTogether
    OBVIOUS
  <2>1. TypeOK /\ TableInv /\ ResumedAfterSwitch
    BY DEF DInv, Typed, PauseInv
  <2>2. ChosenEngine \in 0..(Len(lb) - 1)
    <3>1. inflight \in [Engines -> Nat] /\ Len(lb) \in Nat \ {0} /\ Len(lb) <= MaxSize
      <4>1. Cardinality(Requests) \in Nat
        BY DPClientAssumption, FS_CardinalityType
      <4>. QED BY <2>1, <4>1, Constants DEF TypeOK, TableInv, Sizes
    <3>. QED BY <3>1, <2>1, ChosenInTable, Constants DEF TypeOK
  <2>3. ChosenEngine \in Engines /\ ChosenEngine < core
    BY <2>1, <2>2, Constants DEF TypeOK, TableInv, Sizes, Engines
  <2>4. RoutesToServing
    <3>1. \A e \in OldEngines : e \in Engines /\ e < core
      BY <2>1, Constants DEF TypeOK, Sizes, OldEngines, Engines
    <3>. QED BY <2>1, <2>3, <3>1 DEF RoutesToServing, DInv, EngineInv, TableInv
  <2>. QED BY <2>1, <2>4, ExpertsFixed DEF ScalesTogether
<1>. QED BY <1>1, DInvAlways, PTL
=============================================================================
