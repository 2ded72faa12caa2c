-------------------------- MODULE RequestPathProofs --------------------------
(***************************************************************************)
(* Proofs about RequestPath, for any calls and limits: front end and       *)
(* engine agree on who is being served (NoneLost).  The inductive          *)
(* invariant, RInv, follows a request through the queues: what ends it is  *)
(* sent after all of its inputs, and the answer that ends it comes after   *)
(* the engine has let go of it.                                            *)
(***************************************************************************)
EXTENDS RequestPath, FiniteSetTheorems, SequenceTheorems, WellFoundedInduction, TLAPS

-----------------------------------------------------------------------------
(* Types.                                                                  *)

AddMessage == [type : {"ADD"}, id : AllIds, input : BOOLEAN, final : BOOLEAN]
AbortMessage == [type : {"ABORT"}, ids : SUBSET AllIds]
UtilityMessage == [type : {"UTILITY"}, call : Calls]
Message == AddMessage \cup AbortMessage \cup UtilityMessage

Out == [id : AllIds, tok : Nat, fin : BOOLEAN]
OutputsMessage == [type : {"outputs"}, outs : Seq(Out)]
Answer == OutputsMessage \cup UtilityMessage \cup {DEAD}

Work == [inputs : Nat, made : Nat, final : BOOLEAN]
Runs == UNION {[ids -> Work] : ids \in SUBSET AllIds}

Engine ==
  [alive : {"up", "dying", "dead"}, inq : Seq(Message), abq : Seq(SUBSET AllIds),
   running : Runs, batch : SUBSET AllIds, outq : Seq(Answer), refused : SUBSET AllIds]
BufferIds == 1..Buffers
Wire ==
  [sent : Seq([buf : 0..Buffers]), content : [1..Buffers -> Answer \cup {<<>>}],
   pending : Seq(BufferIds), free : Seq(BufferIds)]
Client ==
  [dead : BOOLEAN, reading : BOOLEAN, outputs : Seq(OutputsMessage \cup {ERROR}),
   known : BOOLEAN, asked : SUBSET Calls]

HandlerRecord ==
  [on : BOOLEAN, todo : Seq(Out), aborts : SUBSET AllIds, missed : SUBSET Calls]

Starting == {"new", "tasks", "inputs"}

Typed ==
  /\ setup \in Setups
  /\ task \in [Calls -> Starting \cup {"reading"} \cup Ended]
  /\ feeder \in [Calls -> [on : BOOLEAN, sent : Nat]]
  /\ DOMAIN queue = Calls
  /\ \A g \in Calls : queue[g].last \in BOOLEAN /\ queue[g].err \in {"none", "dead", "input", "handler"}
  /\ DOMAIN got = Calls
  /\ states \in SUBSET AllIds
  /\ client \in Client
  /\ handler \in HandlerRecord
  /\ toEngine \in Seq(Message)
  /\ engine \in Engine
  /\ wire \in Wire

-----------------------------------------------------------------------------
(* The inductive invariant.                                                *)

\* The stream of a call is fed while the call reads, and not past its end.
FeederInv ==
  \A g \in Calls :
    /\ feeder[g].on => Streams(g) /\ task[g] = "reading"
    /\ feeder[g].sent <= Shape(g).chunks

\* A buffer is being sent once at most, and is then neither free nor written to.
WireInv ==
  /\ Len(wire.free) <= 2
  /\ \A i, j \in DOMAIN wire.sent : wire.sent[i].buf = wire.sent[j].buf /\ i # j => wire.sent[i].buf = 0
  /\ \A i \in DOMAIN wire.sent : wire.sent[i].buf # 0 => wire.content[wire.sent[i].buf] \in Answer
  /\ \A i \in DOMAIN wire.free : ~Sending(wire.free[i])
  /\ \A i, j \in DOMAIN wire.free : wire.free[i] = wire.free[j] => i = j
  /\ \A i, j \in DOMAIN wire.pending : wire.pending[i] = wire.pending[j] => i = j
  /\ \A i \in DOMAIN wire.free, j \in DOMAIN wire.pending : wire.free[i] # wire.pending[j]

\* Nobody is told of a death while the reader and the handler run.
HandlerInv ==
  /\ client.reading => \A k \in DOMAIN client.outputs : client.outputs[k] # ERROR
  /\ client.reading /\ handler.on => \A g \in Calls : queue[g].err # "dead"

\* Of the requests that are not part of a fan-out no more than the cap are known.
PlainStates == {id \in states : Shape(id[1]).n = 1}
CapInv == Cardinality(PlainStates) <= setup.cap

\* While front end and engine are connected: the messages under way to the engine.
AddOf(m, id) == m.type = "ADD" /\ m.id = id
AbortOf(m, id) == m.type = "ABORT" /\ id \in m.ids
Closes(m, id) == (AddOf(m, id) /\ m.final) \/ AbortOf(m, id)
AddSent(id) == \E m \in Messages : AddOf(m, id)
AbortSent(id) == \E m \in Messages : AbortOf(m, id)
FinalSent(id) == \E m \in Messages : AddOf(m, id) /\ m.final
InAbortQueue(id) == \E k \in DOMAIN engine.abq : id \in engine.abq[k]
OnlyFinal(id) == \A m \in Messages : AddOf(m, id) => m.final
RunsOn(id) == id \in DOMAIN engine.running
RunsFinal(id) == id \in DOMAIN engine.running /\ engine.running[id].final

\* The front end may still send inputs of request id.
Open(id) == feeder[id[1]].on \/ task[id[1]] \in Starting

\* What ends a request comes after all of its inputs.
OpenInv(id) ==
  Open(id) => /\ ~AbortSent(id) /\ ~FinalSent(id)
              /\ id \notin handler.aborts /\ ~InAbortQueue(id) /\ ~RunsFinal(id)
              /\ Answered(id) => Split(id)

InOrder(s) ==
  \A id \in AllIds : \A i, j \in DOMAIN s : i < j /\ Closes(s[i], id) => ~AddOf(s[j], id)

OrderInv ==
  /\ InOrder(engine.inq) /\ InOrder(toEngine)
  /\ \A id \in AllIds : \A i \in DOMAIN engine.inq, j \in DOMAIN toEngine :
       Closes(engine.inq[i], id) => ~AddOf(toEngine[j], id)
  /\ \A id \in AllIds : RunsFinal(id) => ~AddSent(id)

\* A request without a stream has one input.
PlainInv(id) ==
  ~Streams(id[1]) => OnlyFinal(id) /\ (RunsOn(id) => RunsFinal(id))

\* Whom the front end waits for nobody has aborted.
ServedInv(id) ==
  id \in states => ~AbortSent(id) /\ id \notin handler.aborts /\ ~InAbortQueue(id)

\* What the engine has or will have to do, somebody waits for or has aborted.
OrphanInv(id) ==
  RunsOn(id) \/ AddSent(id) =>
    id \in states \/ id \in handler.aborts \/ Split(id) \/ AbortSent(id)

\* An answer that ends a request is the last word.
AnswerInv(id) ==
  Answered(id) => Split(id) \/ (~RunsOn(id) /\ ~AddSent(id) /\ ~Open(id))

ForgottenInv(id) ==
  id \in states => RunsFinal(id) \/ FinalSent(id) \/ Answered(id) \/ feeder[id[1]].on \/ Split(id)

\* A stream that was told to end is over, unless it is split.
LastInv ==
  \A g \in Calls : Streams(g) /\ queue[g].last /\ Open(<<g, 1>>) => Split(<<g, 1>>)

RequestInv(id) ==
  OpenInv(id) /\ PlainInv(id) /\ ServedInv(id) /\ OrphanInv(id) /\ AnswerInv(id) /\ ForgottenInv(id)

PathInv == Connected => OrderInv /\ LastInv /\ \A id \in AllIds : RequestInv(id)

RInv == Typed /\ FeederInv /\ WireInv /\ HandlerInv /\ CapInv /\ PathInv

-----------------------------------------------------------------------------
(* Lemmas on numbers and sequences.                                        *)

\* A non-empty set of natural numbers has a least element.
LEMMA LeastNat ==
  ASSUME NEW S \in SUBSET Nat, S # {}
  PROVE  \E x \in S : \A y \in S : x <= y
<1>. DEFINE R == OpToRel(<, Nat)
<1>1. IsWellFoundedOn(R, Nat)
  BY NatLessThanWellFounded
<1>2. PICK x \in S : \A y \in S : ~ (<<y, x>> \in R)
  <2>. HIDE DEF R
  <2>. QED BY <1>1, WFMin
<1>3. ASSUME NEW y \in S PROVE x <= y
  <2>1. <<y, x>> \in R <=> y < x
    BY DEF OpToRel
  <2>2. x \in Nat /\ y \in Nat
    OBVIOUS
  <2>. HIDE DEF R
  <2>3. ~ (y < x)
    BY <2>1, <1>2
  <2>. QED BY <2>2, <2>3
<1>. QED BY <1>3

\* A bounded one has a greatest: its distance from the bound is least.
LEMMA GreatestNat ==
  ASSUME NEW n \in Nat, NEW S \in SUBSET (0..n), S # {}
  PROVE  Max(S) \in S /\ \A y \in S : Max(S) >= y
<1>. DEFINE D == {n - x : x \in S}
<1>1. D \in SUBSET Nat /\ D # {}
  <2>1. \A x \in S : x \in Int /\ 0 <= x /\ x <= n
    OBVIOUS
  <2>2. \A x \in S : n - x \in Nat
    BY <2>1
  <2>. QED BY <2>2
<1>2. PICK d \in D : \A e \in D : d <= e
  <2>. HIDE DEF D
  <2>. QED BY <1>1, LeastNat
<1>3. PICK x \in S : d = n - x
  OBVIOUS
<1>4. ASSUME NEW y \in S PROVE x >= y
  <2>1. n - y \in D
    OBVIOUS
  <2>2. n - x <= n - y
    BY <1>2, <1>3, <2>1
  <2>3. x \in 0..n /\ y \in 0..n
    OBVIOUS
  <2>. QED BY <2>2, <2>3
<1>. QED BY <1>4 DEF Max

\* The smaller of two numbers.
LEMMA MinOfTwo ==
  ASSUME NEW a \in Nat, NEW b \in Nat
  PROVE  Min({a, b}) = IF a <= b THEN a ELSE b
BY DEF Min

\* The empty sequence.
LEMMA EmptyFacts ==
  ASSUME NEW S
  PROVE  <<>> \in Seq(S) /\ DOMAIN <<>> = {} /\ Len(<<>>) = 0
OBVIOUS

LEMMA TailFacts ==
  ASSUME NEW S, NEW q \in Seq(S), q # <<>>
  PROVE  /\ Tail(q) \in Seq(S) /\ Head(q) \in S /\ Head(q) = q[1]
         /\ Len(q) \in Nat \ {0} /\ DOMAIN q = 1..Len(q)
         /\ DOMAIN Tail(q) = 1..(Len(q) - 1)
         /\ \A i \in DOMAIN Tail(q) : i + 1 \in DOMAIN q /\ Tail(q)[i] = q[i + 1]
         /\ \A i \in DOMAIN q : i # 1 => i - 1 \in DOMAIN Tail(q) /\ Tail(q)[i - 1] = q[i]
OBVIOUS

LEMMA AppendFacts ==
  ASSUME NEW S, NEW q \in Seq(S), NEW m \in S
  PROVE  /\ Append(q, m) \in Seq(S)
         /\ Len(q) \in Nat /\ DOMAIN q = 1..Len(q)
         /\ DOMAIN Append(q, m) = DOMAIN q \cup {Len(q) + 1} /\ Len(q) + 1 \notin DOMAIN q
         /\ \A i \in DOMAIN q : Append(q, m)[i] = q[i] /\ i < Len(q) + 1
         /\ Append(q, m)[Len(q) + 1] = m
OBVIOUS

\* The members of a queue that is written to and read from.
LEMMA ToSetAppend ==
  ASSUME NEW S, NEW q \in Seq(S), NEW m \in S
  PROVE  ToSet(Append(q, m)) = ToSet(q) \cup {m}
BY AppendFacts DEF ToSet

LEMMA ToSetTail ==
  ASSUME NEW S, NEW q \in Seq(S), q # <<>>
  PROVE  ToSet(q) = {Head(q)} \cup ToSet(Tail(q))
<1>. USE TailFacts
<1>1. ASSUME NEW i \in DOMAIN q PROVE q[i] = Head(q) \/ q[i] \in ToSet(Tail(q))
  <2>1. CASE i = 1
    BY <2>1
  <2>2. CASE i # 1
    <3>1. i - 1 \in DOMAIN Tail(q) /\ Tail(q)[i - 1] = q[i]
      BY <2>2
    <3>. QED BY <3>1 DEF ToSet
  <2>. QED BY <2>1, <2>2
<1>2. ASSUME NEW i \in DOMAIN Tail(q) PROVE Tail(q)[i] \in ToSet(q)
  BY DEF ToSet
<1>3. Head(q) \in ToSet(q)
  BY DEF ToSet
<1>. QED BY <1>1, <1>2, <1>3 DEF ToSet

LEMMA ToSetConcat ==
  ASSUME NEW S, NEW q \in Seq(S), NEW t \in Seq(S)
  PROVE  q \o t \in Seq(S) /\ ToSet(q \o t) = ToSet(q) \cup ToSet(t)
<1>1. /\ q \o t \in Seq(S) /\ Len(q \o t) = Len(q) + Len(t)
      /\ \A i \in 1..(Len(q) + Len(t)) :
           (q \o t)[i] = IF i <= Len(q) THEN q[i] ELSE t[i - Len(q)]
  BY ConcatProperties
<1>2. ASSUME NEW i \in DOMAIN t PROVE Len(q) + i \in DOMAIN (q \o t) /\ (q \o t)[Len(q) + i] = t[i]
  BY <1>1
<1>3. ASSUME NEW i \in DOMAIN q PROVE i \in DOMAIN (q \o t) /\ (q \o t)[i] = q[i]
  BY <1>1
<1>4. ASSUME NEW i \in DOMAIN (q \o t)
      PROVE (i \in DOMAIN q /\ (q \o t)[i] = q[i]) \/ (i - Len(q) \in DOMAIN t /\ (q \o t)[i] = t[i - Len(q)])
  BY <1>1
<1>5. ToSet(q \o t) \subseteq ToSet(q) \cup ToSet(t)
  BY <1>4 DEF ToSet
<1>6. ToSet(q) \cup ToSet(t) \subseteq ToSet(q \o t)
  BY <1>2, <1>3 DEF ToSet
<1>. QED BY <1>1, <1>5, <1>6

-----------------------------------------------------------------------------
(* Calls and their requests.                                               *)

LEMMA SetupFacts ==
  ASSUME setup \in Setups
  PROVE  /\ IsFiniteSet(Calls)
         /\ \A g \in Calls : /\ Shape(g).n \in Nat \ {0} /\ Shape(g).chunks \in Nat
                             /\ Shape(g).stop \in Nat
                             /\ Streams(g) => Shape(g).n = 1 /\ Shape(g).stop = 0
         /\ setup.cap \in Nat /\ setup.tokens \in Nat /\ setup.slice \in Nat \ {0}
<1>1. \A g \in Calls : Shape(g) \in CallShape
  BY SetupsAssumption DEF Calls, Shape
<1>2. \A g \in Calls : /\ Shape(g).n \in Nat \ {0} /\ Shape(g).chunks \in Nat
                       /\ Shape(g).stop \in Nat
  BY <1>1 DEF CallShape
<1>3. \A g \in Calls : Streams(g) => Shape(g).n = 1 /\ Shape(g).stop = 0
  BY SetupsAssumption DEF Calls, Shape, Streams
<1>4. IsFiniteSet(Calls) /\ setup.cap \in Nat /\ setup.tokens \in Nat /\ setup.slice \in Nat \ {0}
  BY SetupsAssumption DEF Calls
<1>. QED BY <1>2, <1>3, <1>4

LEMMA IdFacts ==
  ASSUME setup \in Setups
  PROVE  /\ \A id \in AllIds : /\ id[1] \in Calls /\ id \in Ids(id[1]) /\ id = <<id[1], id[2]>>
                               /\ Streams(id[1]) => id = <<id[1], 1>>
         /\ \A g \in Calls : Ids(g) \subseteq AllIds /\ <<g, 1>> \in Ids(g)
         /\ \A g \in Calls : \A id \in Ids(g) : id[1] = g
         /\ \A g \in Calls : Shape(g).n = 1 => Ids(g) = {<<g, 1>>}
<1>. USE SetupFacts
<1>1. \A g \in Calls : \A i \in 1..Shape(g).n : <<g, i>> \in Ids(g)
  BY DEF Ids
<1>2. \A g \in Calls : \A id \in Ids(g) : id[1] = g /\ id = <<id[1], id[2]>> /\ id[2] \in 1..Shape(g).n
  BY DEF Ids
<1>3. \A g \in Calls : Ids(g) \subseteq AllIds
  BY DEF AllIds
<1>4. \A id \in AllIds : \E g \in Calls : id \in Ids(g)
  BY DEF AllIds
<1>5. \A id \in AllIds : id[1] \in Calls /\ id \in Ids(id[1]) /\ id = <<id[1], id[2]>>
  BY <1>2, <1>4
<1>6. \A g \in Calls : <<g, 1>> \in Ids(g)
  BY <1>1
<1>7. \A g \in Calls : Shape(g).n = 1 => Ids(g) = {<<g, 1>>}
  BY <1>6 DEF Ids
<1>8. \A id \in AllIds : Streams(id[1]) => id = <<id[1], 1>>
  BY <1>5, <1>7
<1>. QED BY <1>2, <1>3, <1>5, <1>6, <1>7, <1>8

LEMMA IdsFinite ==
  ASSUME setup \in Setups
  PROVE  IsFiniteSet(AllIds)
<1>. USE SetupFacts
<1>1. ASSUME NEW g \in Calls PROVE IsFiniteSet(Ids(g))
  <2>. DEFINE f == [i \in 1..Shape(g).n |-> <<g, i>>]
  <2>1. f \in Surjection(1..Shape(g).n, Ids(g))
    BY DEF Ids, Surjection
  <2>2. IsFiniteSet(1..Shape(g).n)
    <3>1. 1 \in Int /\ Shape(g).n \in Int
      OBVIOUS
    <3>. QED BY <3>1, FS_Interval
  <2>. HIDE DEF f
  <2>. QED BY <2>1, <2>2, FS_Surjection
<1>2. IsFiniteSet({Ids(g) : g \in Calls})
  <2>. DEFINE h == [g \in Calls |-> Ids(g)]
  <2>1. h \in Surjection(Calls, {Ids(g) : g \in Calls})
    BY DEF Surjection
  <2>. HIDE DEF h
  <2>. QED BY <2>1, FS_Surjection
<1>. QED BY <1>1, <1>2, FS_UNION DEF AllIds

\* A step leaves the calls alone.
LEMMA SameSetup ==
  ASSUME setup' = setup
  PROVE  /\ Calls' = Calls /\ AllIds' = AllIds
         /\ \A g : Shape(g)' = Shape(g) /\ Streams(g)' = Streams(g) /\ Ids(g)' = Ids(g)
         /\ Message' = Message /\ Answer' = Answer /\ Out' = Out /\ Client' = Client
         /\ Engine' = Engine /\ Wire' = Wire /\ OutputsMessage' = OutputsMessage
         /\ HandlerRecord' = HandlerRecord
<1>1. Calls' = Calls /\ \A g : Shape(g)' = Shape(g) /\ Streams(g)' = Streams(g) /\ Ids(g)' = Ids(g)
  BY DEF Calls, Shape, Streams, Ids
<1>2. AllIds' = AllIds
  BY <1>1 DEF AllIds
<1>3. Message' = Message /\ Out' = Out
  BY <1>1, <1>2 DEF Message, AddMessage, AbortMessage, UtilityMessage, Out
<1>4. OutputsMessage' = OutputsMessage
  BY <1>3 DEF OutputsMessage
<1>5. Answer' = Answer
  BY <1>1, <1>4 DEF Answer, UtilityMessage, DEAD
<1>6. Client' = Client
  BY <1>1, <1>4 DEF Client, ERROR
<1>7. Runs' = Runs
  BY <1>2 DEF Runs, Work
<1>8. Engine' = Engine /\ Wire' = Wire
  BY <1>2, <1>3, <1>5, <1>7 DEF Engine, Wire
<1>9. HandlerRecord' = HandlerRecord
  BY <1>1, <1>2, <1>3 DEF HandlerRecord
<1>. QED BY <1>1, <1>2, <1>3, <1>4, <1>5, <1>6, <1>8, <1>9

-----------------------------------------------------------------------------
(* Messages to the engine.                                                 *)

LEMMA MessageFacts ==
  /\ \A id \in AllIds, i, f \in BOOLEAN :
       /\ Add(id, i, f) \in Message /\ Add(id, i, f).type = "ADD"
       /\ Add(id, i, f).id = id /\ Add(id, i, f).final = f
  /\ \A ids \in SUBSET AllIds :
       Abort(ids) \in Message /\ Abort(ids).type = "ABORT" /\ Abort(ids).ids = ids
  /\ \A g \in Calls : Utility(g) \in Message /\ Utility(g) \in Answer /\ Utility(g).type = "UTILITY"
  /\ \A m \in Message :
       /\ m.type \in {"ADD", "ABORT", "UTILITY"}
       /\ m.type = "ADD" => m.id \in AllIds /\ m.input \in BOOLEAN /\ m.final \in BOOLEAN
       /\ m.type = "ABORT" => m.ids \subseteq AllIds
       /\ m.type = "UTILITY" => m \in UtilityMessage /\ m \in Answer
BY DEF Message, AddMessage, AbortMessage, UtilityMessage, Add, Abort, Utility, Answer

\* What sending adds to the messages under way.
LEMMA Sends ==
  ASSUME toEngine \in Seq(Message), NEW new \in Seq(Message),
         toEngine' = toEngine \o new, engine'.inq = engine.inq
  PROVE  /\ toEngine' \in Seq(Message)
         /\ Messages' = Messages \cup ToSet(new)
<1>1. toEngine' \in Seq(Message) /\ ToSet(toEngine') = ToSet(toEngine) \cup ToSet(new)
  BY ToSetConcat
<1>. QED BY <1>1 DEF Messages

LEMMA OneMessage ==
  ASSUME NEW m \in Message, toEngine \in Seq(Message)
  PROVE  /\ <<m>> \in Seq(Message) /\ ToSet(<<m>>) = {m} /\ InOrder(<<m>>)
         /\ Append(toEngine, m) = toEngine \o <<m>>
<1>1. <<m>> \in Seq(Message) /\ DOMAIN <<m>> = {1} /\ <<m>>[1] = m
  OBVIOUS
<1>2. ToSet(<<m>>) = {m}
  BY <1>1 DEF ToSet
<1>3. InOrder(<<m>>)
  BY <1>1 DEF InOrder
<1>4. Append(toEngine, m) = toEngine \o <<m>>
  BY AppendIsConcat
<1>. QED BY <1>1, <1>2, <1>3, <1>4

LEMMA NoMessage ==
  ASSUME toEngine \in Seq(Message)
  PROVE  /\ << >> \in Seq(Message) /\ ToSet(<< >>) = {} /\ InOrder(<< >>)
         /\ toEngine = toEngine \o << >>
<1>1. << >> \in Seq(Message) /\ DOMAIN << >> = {}
  OBVIOUS
<1>2. toEngine \o << >> = toEngine
  BY ConcatEmptySeq
<1>. QED BY <1>1, <1>2 DEF ToSet, InOrder

\* Members of the two queues.
LEMMA MessagesAre ==
  ASSUME toEngine \in Seq(Message), engine.inq \in Seq(Message)
  PROVE  /\ Messages \subseteq Message
         /\ \A i \in DOMAIN toEngine : toEngine[i] \in Messages
         /\ \A i \in DOMAIN engine.inq : engine.inq[i] \in Messages
         /\ \A m \in Messages : \/ \E i \in DOMAIN toEngine : m = toEngine[i]
                                \/ \E i \in DOMAIN engine.inq : m = engine.inq[i]
<1>1. \A i \in DOMAIN toEngine : toEngine[i] \in Message
  BY ElementOfSeq
<1>2. \A i \in DOMAIN engine.inq : engine.inq[i] \in Message
  BY ElementOfSeq
<1>. QED BY <1>1, <1>2 DEF Messages, ToSet

\* Inputs are sent only for a request that nothing sent so far closes.
LEMMA SendsInOrder ==
  ASSUME toEngine \in Seq(Message), engine.inq \in Seq(Message), NEW new \in Seq(Message),
         toEngine' = toEngine \o new, engine'.inq = engine.inq,
         engine'.running = engine.running, AllIds' = AllIds,
         OrderInv, InOrder(new),
         \A id \in AllIds : \A m \in ToSet(new) :
           AddOf(m, id) => ~AbortSent(id) /\ ~FinalSent(id) /\ ~RunsFinal(id)
  PROVE  OrderInv'
<1>1. /\ toEngine' \in Seq(Message) /\ DOMAIN toEngine' = 1..(Len(toEngine) + Len(new))
      /\ \A i \in DOMAIN toEngine' :
           \/ i \in DOMAIN toEngine /\ toEngine'[i] = toEngine[i] /\ i <= Len(toEngine)
           \/ i - Len(toEngine) \in DOMAIN new /\ toEngine'[i] = new[i - Len(toEngine)] /\ i > Len(toEngine)
  <2>1. /\ toEngine \o new \in Seq(Message) /\ Len(toEngine \o new) = Len(toEngine) + Len(new)
        /\ \A i \in 1..(Len(toEngine) + Len(new)) :
             (toEngine \o new)[i] = IF i <= Len(toEngine) THEN toEngine[i] ELSE new[i - Len(toEngine)]
    BY ConcatProperties
  <2>. QED BY <2>1
<1>2. \A i \in DOMAIN new : new[i] \in ToSet(new)
  BY DEF ToSet
<1>3. ASSUME NEW id \in AllIds, NEW m \in Messages, Closes(m, id), NEW n \in ToSet(new), AddOf(n, id)
      PROVE FALSE
  BY <1>3 DEF Closes, AbortSent, FinalSent
<1>4. \A i \in DOMAIN toEngine : toEngine[i] \in Messages
  BY MessagesAre
<1>5. \A i \in DOMAIN engine.inq : engine.inq[i] \in Messages
  BY MessagesAre
<1>6. InOrder(toEngine)'
  <2>. SUFFICES ASSUME NEW id \in AllIds, NEW i \in DOMAIN toEngine', NEW j \in DOMAIN toEngine',
                       i < j, Closes(toEngine'[i], id), AddOf(toEngine'[j], id)
                PROVE  FALSE
    BY DEF InOrder, Closes, AddOf, AbortOf
  <2>1. CASE j \in DOMAIN toEngine /\ toEngine'[j] = toEngine[j] /\ j <= Len(toEngine)
    <3>1. i \in DOMAIN toEngine /\ toEngine'[i] = toEngine[i]
      BY <1>1, <2>1
    <3>. QED BY <2>1, <3>1 DEF OrderInv, InOrder
  <2>2. CASE /\ j - Len(toEngine) \in DOMAIN new /\ toEngine'[j] = new[j - Len(toEngine)]
             /\ j > Len(toEngine)
    <3>1. CASE i \in DOMAIN toEngine /\ toEngine'[i] = toEngine[i]
      BY <1>2, <1>3, <1>4, <2>2, <3>1
    <3>2. CASE i - Len(toEngine) \in DOMAIN new /\ toEngine'[i] = new[i - Len(toEngine)]
      <4>1. i - Len(toEngine) < j - Len(toEngine)
        BY <1>1
      <4>. QED BY <2>2, <3>2, <4>1 DEF InOrder
    <3>. QED BY <1>1, <3>1, <3>2
  <2>. QED BY <1>1, <2>1, <2>2
<1>7. ASSUME NEW id \in AllIds, NEW i \in DOMAIN engine.inq, NEW j \in DOMAIN toEngine',
             Closes(engine.inq[i], id), AddOf(toEngine'[j], id)
      PROVE FALSE
  <2>1. CASE j \in DOMAIN toEngine /\ toEngine'[j] = toEngine[j]
    BY <1>7, <2>1 DEF OrderInv
  <2>2. CASE j - Len(toEngine) \in DOMAIN new /\ toEngine'[j] = new[j - Len(toEngine)]
    BY <1>2, <1>3, <1>5, <1>7, <2>2
  <2>. QED BY <1>1, <2>1, <2>2
<1>8. ASSUME NEW id \in AllIds, RunsFinal(id), AddSent(id)' PROVE FALSE
  <2>1. Messages' = Messages \cup ToSet(new)
    BY Sends
  <2>2. PICK m \in Messages \cup ToSet(new) : AddOf(m, id)
    BY <1>8, <2>1 DEF AddSent, AddOf
  <2>. QED BY <1>8, <2>2 DEF OrderInv, AddSent
<1>9. InOrder(engine.inq)'
  BY DEF OrderInv, InOrder, Closes, AddOf, AbortOf
<1>10. \A id \in AllIds : RunsFinal(id)' = RunsFinal(id)
  BY DEF RunsFinal
<1>. QED BY <1>6, <1>7, <1>8, <1>9, <1>10 DEF OrderInv, Closes, AddOf, AbortOf

LEMMA InOrderTail ==
  ASSUME NEW q \in Seq(Message), q # <<>>, InOrder(q)
  PROVE  /\ InOrder(Tail(q))
         /\ \A id \in AllIds : Closes(Head(q), id) =>
              \A j \in DOMAIN Tail(q) : ~AddOf(Tail(q)[j], id)
<1>. USE TailFacts
<1>1. ASSUME NEW id \in AllIds, NEW i \in DOMAIN Tail(q), NEW j \in DOMAIN Tail(q),
             i < j, Closes(Tail(q)[i], id)
      PROVE ~AddOf(Tail(q)[j], id)
  <2>1. i + 1 \in DOMAIN q /\ j + 1 \in DOMAIN q /\ i + 1 < j + 1
    BY <1>1
  <2>2. Tail(q)[i] = q[i + 1] /\ Tail(q)[j] = q[j + 1]
    OBVIOUS
  <2>. QED BY <1>1, <2>1, <2>2 DEF InOrder
<1>2. ASSUME NEW id \in AllIds, Closes(Head(q), id), NEW j \in DOMAIN Tail(q)
      PROVE ~AddOf(Tail(q)[j], id)
  <2>1. 1 \in DOMAIN q /\ j + 1 \in DOMAIN q /\ 1 < j + 1
    OBVIOUS
  <2>2. Head(q) = q[1] /\ Tail(q)[j] = q[j + 1]
    OBVIOUS
  <2>. QED BY <1>2, <2>1, <2>2 DEF InOrder
<1>. QED BY <1>1, <1>2 DEF InOrder

\* The two queues, without what the engine runs.
QueuesInOrder ==
  /\ InOrder(engine.inq) /\ InOrder(toEngine)
  /\ \A id \in AllIds : \A i \in DOMAIN engine.inq, j \in DOMAIN toEngine :
       Closes(engine.inq[i], id) => ~AddOf(toEngine[j], id)

\* The input thread: from the socket into the queue.
LEMMA Moves ==
  ASSUME toEngine \in Seq(Message), engine.inq \in Seq(Message), toEngine # <<>>,
         toEngine' = Tail(toEngine), engine'.inq = Append(engine.inq, Head(toEngine)),
         AllIds' = AllIds, QueuesInOrder
  PROVE  Messages' = Messages /\ QueuesInOrder' /\ toEngine' \in Seq(Message) /\ engine'.inq \in Seq(Message)
<1>. DEFINE m == Head(toEngine)
<1>1. m \in Message /\ toEngine' \in Seq(Message) /\ engine'.inq \in Seq(Message)
  BY TailFacts, AppendFacts
<1>2. Messages' = Messages
  <2>1. ToSet(toEngine) = {m} \cup ToSet(toEngine')
    BY ToSetTail
  <2>2. ToSet(engine'.inq) = ToSet(engine.inq) \cup {m}
    BY <1>1, ToSetAppend
  <2>. QED BY <2>1, <2>2 DEF Messages
<1>3. InOrder(toEngine') /\ \A id \in AllIds : Closes(m, id) => \A j \in DOMAIN toEngine' : ~AddOf(toEngine'[j], id)
  BY InOrderTail DEF QueuesInOrder
<1>4. /\ DOMAIN engine'.inq = DOMAIN engine.inq \cup {Len(engine.inq) + 1}
      /\ \A i \in DOMAIN engine.inq : engine'.inq[i] = engine.inq[i] /\ i < Len(engine.inq) + 1
      /\ engine'.inq[Len(engine.inq) + 1] = m /\ Len(engine.inq) \in Nat
      /\ DOMAIN engine.inq = 1..Len(engine.inq)
  BY <1>1, AppendFacts
<1>5. m = toEngine[1] /\ 1 \in DOMAIN toEngine
  BY TailFacts
<1>6. ASSUME NEW id \in AllIds, NEW i \in DOMAIN engine'.inq, NEW j \in DOMAIN engine'.inq,
             i < j, Closes(engine'.inq[i], id)
      PROVE ~AddOf(engine'.inq[j], id)
  <2>1. i \in DOMAIN engine.inq /\ engine'.inq[i] = engine.inq[i]
    BY <1>4, <1>6
  <2>2. CASE j \in DOMAIN engine.inq
    BY <1>4, <1>6, <2>1, <2>2 DEF QueuesInOrder, InOrder
  <2>3. CASE j = Len(engine.inq) + 1
    BY <1>4, <1>5, <1>6, <2>1, <2>3 DEF QueuesInOrder
  <2>. QED BY <1>4, <2>2, <2>3
<1>7. ASSUME NEW id \in AllIds, NEW i \in DOMAIN engine'.inq, NEW j \in DOMAIN toEngine',
             Closes(engine'.inq[i], id)
      PROVE ~AddOf(toEngine'[j], id)
  <2>1. j + 1 \in DOMAIN toEngine /\ toEngine'[j] = toEngine[j + 1]
    BY TailFacts
  <2>2. CASE i \in DOMAIN engine.inq
    BY <1>4, <1>7, <2>1, <2>2 DEF QueuesInOrder
  <2>3. CASE i = Len(engine.inq) + 1
    BY <1>3, <1>4, <1>7, <2>3
  <2>. QED BY <1>4, <2>2, <2>3
<1>8. InOrder(engine.inq)' /\ InOrder(toEngine)'
  BY <1>3, <1>6 DEF InOrder, Closes, AddOf, AbortOf
<1>. QED BY <1>1, <1>2, <1>7, <1>8 DEF QueuesInOrder, Closes, AddOf, AbortOf

\* A message taken from the socket and answered there.
LEMMA Drops ==
  ASSUME toEngine \in Seq(Message), engine.inq \in Seq(Message), toEngine # <<>>,
         toEngine' = Tail(toEngine), engine'.inq = engine.inq,
         AllIds' = AllIds, QueuesInOrder
  PROVE  /\ Messages = Messages' \cup {Head(toEngine)} /\ QueuesInOrder' /\ toEngine' \in Seq(Message)
         /\ \A id \in AllIds : Closes(Head(toEngine), id) =>
              \A j \in DOMAIN toEngine' : ~AddOf(toEngine'[j], id)
<1>1. ToSet(toEngine) = {Head(toEngine)} \cup ToSet(toEngine')
  BY ToSetTail
<1>2. InOrder(toEngine') /\ \A id \in AllIds : Closes(Head(toEngine), id) =>
                                \A j \in DOMAIN toEngine' : ~AddOf(toEngine'[j], id)
  BY InOrderTail DEF QueuesInOrder
<1>3. \A j \in DOMAIN toEngine' : j + 1 \in DOMAIN toEngine /\ toEngine'[j] = toEngine[j + 1]
  BY TailFacts
<1>4. InOrder(engine.inq)' /\ InOrder(toEngine)'
  BY <1>2 DEF QueuesInOrder, InOrder, Closes, AddOf, AbortOf
<1>5. \A id \in AllIds : \A i \in DOMAIN engine.inq, j \in DOMAIN toEngine' :
        Closes(engine.inq[i], id) => ~AddOf(toEngine'[j], id)
  BY <1>3 DEF QueuesInOrder
<1>6. Messages = Messages' \cup {Head(toEngine)}
  BY <1>1 DEF Messages
<1>7. toEngine' \in Seq(Message)
  BY TailFacts
<1>. QED BY <1>2, <1>4, <1>5, <1>6, <1>7 DEF QueuesInOrder, Closes, AddOf, AbortOf

\* A message taken by the main loop: behind one that closes a request comes no
\* input of it.
LEMMA Handles ==
  ASSUME toEngine \in Seq(Message), engine.inq \in Seq(Message), engine.inq # <<>>,
         engine'.inq = Tail(engine.inq), toEngine' = toEngine,
         AllIds' = AllIds, QueuesInOrder
  PROVE  /\ Messages = Messages' \cup {Head(engine.inq)} /\ QueuesInOrder' /\ engine'.inq \in Seq(Message)
         /\ \A id \in AllIds : Closes(Head(engine.inq), id) => ~AddSent(id)'
<1>. DEFINE m == Head(engine.inq)
<1>1. ToSet(engine.inq) = {m} \cup ToSet(engine'.inq)
  BY ToSetTail
<1>2. InOrder(engine'.inq) /\ \A id \in AllIds : Closes(m, id) =>
                                  \A j \in DOMAIN engine'.inq : ~AddOf(engine'.inq[j], id)
  BY InOrderTail DEF QueuesInOrder
<1>3. /\ \A j \in DOMAIN engine'.inq : j + 1 \in DOMAIN engine.inq /\ engine'.inq[j] = engine.inq[j + 1]
      /\ 1 \in DOMAIN engine.inq /\ m = engine.inq[1] /\ engine'.inq \in Seq(Message)
  BY TailFacts
<1>4. InOrder(engine.inq)' /\ InOrder(toEngine)'
  BY <1>2 DEF QueuesInOrder, InOrder, Closes, AddOf, AbortOf
<1>5. \A id \in AllIds : \A i \in DOMAIN engine'.inq, j \in DOMAIN toEngine :
        Closes(engine'.inq[i], id) => ~AddOf(toEngine[j], id)
  BY <1>3 DEF QueuesInOrder
<1>6. Messages = Messages' \cup {m}
  BY <1>1 DEF Messages
<1>7. ASSUME NEW id \in AllIds, Closes(m, id), AddSent(id)' PROVE FALSE
  <2>1. PICK n \in Messages' : AddOf(n, id)
    BY <1>7 DEF AddSent, AddOf
  <2>2. \/ \E j \in DOMAIN engine'.inq : n = engine'.inq[j]
        \/ \E j \in DOMAIN toEngine : n = toEngine[j]
    BY <2>1 DEF Messages, ToSet
  <2>. QED BY <1>2, <1>3, <1>7, <2>1, <2>2 DEF QueuesInOrder
<1>. QED BY <1>3, <1>4, <1>5, <1>6, <1>7 DEF QueuesInOrder, Closes, AddOf, AbortOf

-----------------------------------------------------------------------------
(* Answers on their way back.                                              *)

Fin(m, id) ==
  m.type = "outputs" /\ \E k \in DOMAIN m.outs : m.outs[k].id = id /\ m.outs[k].fin

InOutq(id) == \E k \in DOMAIN engine.outq : Fin(engine.outq[k], id)
OnWire(id) ==
  \E k \in DOMAIN wire.sent : wire.sent[k].buf # 0 /\ Fin(wire.content[wire.sent[k].buf], id)
InOutputs(id) == \E k \in DOMAIN client.outputs : Fin(client.outputs[k], id)
InTodo(id) == \E k \in DOMAIN handler.todo : handler.todo[k].id = id /\ handler.todo[k].fin

LEMMA AnsweredIs ==
  ASSUME NEW id
  PROVE  Answered(id) <=> InOutq(id) \/ OnWire(id) \/ InOutputs(id) \/ InTodo(id)
<1>1. Fin(Outputs(handler.todo), id) <=> InTodo(id)
  BY DEF Fin, InTodo, Outputs
<1>2. (\E m \in ToSet(engine.outq) : Fin(m, id)) <=> InOutq(id)
  BY DEF ToSet, InOutq
<1>3. (\E m \in ToSet(client.outputs) : Fin(m, id)) <=> InOutputs(id)
  BY DEF ToSet, InOutputs
<1>4. (\E m \in {wire.content[wire.sent[i].buf] :
                    i \in {k \in DOMAIN wire.sent : wire.sent[k].buf # 0}} : Fin(m, id)) <=> OnWire(id)
  BY DEF OnWire
<1>5. Answered(id) <=> \E m \in Answers : Fin(m, id)
  BY DEF Answered, Fin
<1>. QED BY <1>1, <1>2, <1>3, <1>4, <1>5 DEF Answers

\* The same after a step.
LEMMA AnsweredIsNext ==
  ASSUME NEW id
  PROVE  Answered(id)' <=> InOutq(id)' \/ OnWire(id)' \/ InOutputs(id)' \/ InTodo(id)'
<1>1. Fin(Outputs(handler.todo), id)' <=> InTodo(id)'
  BY DEF Fin, InTodo, Outputs
<1>2. (\E m \in ToSet(engine.outq) : Fin(m, id))' <=> InOutq(id)'
  BY DEF ToSet, InOutq
<1>3. (\E m \in ToSet(client.outputs) : Fin(m, id))' <=> InOutputs(id)'
  BY DEF ToSet, InOutputs
<1>4. (\E m \in {wire.content[wire.sent[i].buf] :
                    i \in {k \in DOMAIN wire.sent : wire.sent[k].buf # 0}} : Fin(m, id))' <=> OnWire(id)'
  BY DEF OnWire
<1>5. Answered(id)' <=> (\E m \in Answers : Fin(m, id))'
  BY DEF Answered, Fin
<1>. QED BY <1>1, <1>2, <1>3, <1>4, <1>5 DEF Answers

-----------------------------------------------------------------------------
(* The output thread's buffers.                                            *)

FreeNow == Kept(wire.free \o Reverse(Reclaimed))
NextBuf == IF FreeNow = <<>> THEN CHOOSE b \in Unused : TRUE ELSE Last(FreeNow)

\* The buffers that zmq has released are behind the last one it holds.
LEMMA HeldFacts ==
  ASSUME wire \in Wire
  PROVE  /\ Held \in 0..Len(wire.pending)
         /\ \A i \in DOMAIN wire.pending : i > Held => ~Sending(wire.pending[i])
<1>1. Len(wire.pending) \in Nat /\ DOMAIN wire.pending = 1..Len(wire.pending)
  BY DEF Wire
<1>. DEFINE S == {i \in DOMAIN wire.pending : Sending(wire.pending[i])} \cup {0}
<1>2. S \in SUBSET (0..Len(wire.pending)) /\ S # {}
  BY <1>1
<1>3. Held \in S /\ \A y \in S : Held >= y
  <2>. HIDE DEF S
  <2>1. Held = Max(S)
    BY DEF Held, S
  <2>. QED BY <1>1, <1>2, <2>1, GreatestNat
<1>4. ASSUME NEW i \in DOMAIN wire.pending, i > Held PROVE ~Sending(wire.pending[i])
  <2>1. i \notin S
    BY <1>1, <1>2, <1>3, <1>4
  <2>. QED BY <2>1
<1>. QED BY <1>2, <1>3, <1>4

\* The end of a sequence, and the same backwards.
LEMMA SuffixFacts ==
  ASSUME NEW S, NEW q \in Seq(S), NEW h \in 0..Len(q)
  PROVE  LET t == SubSeq(q, h + 1, Len(q))
         IN  /\ t \in Seq(S) /\ Len(t) = Len(q) - h
             /\ \A i \in 1..(Len(q) - h) : t[i] = q[h + i]
<1>1. Len(q) \in Nat /\ h \in Nat /\ h <= Len(q)
  OBVIOUS
<1>2. \A i \in (h + 1)..Len(q) : q[i] \in S
  BY <1>1, ElementOfSeq
<1>3. SubSeq(q, h + 1, Len(q)) \in Seq(S)
  BY <1>1, <1>2, SubSeqProperties
<1>4. Len(SubSeq(q, h + 1, Len(q))) = Len(q) - h
  BY <1>1, SubSeqProperties
<1>5. ASSUME NEW i \in 1..(Len(q) - h) PROVE SubSeq(q, h + 1, Len(q))[i] = q[h + i]
  BY <1>1, SubSeqProperties
<1>. QED BY <1>3, <1>4, <1>5

LEMMA BackwardFacts ==
  ASSUME NEW S, NEW t \in Seq(S)
  PROVE  /\ Reverse(t) \in Seq(S) /\ Len(Reverse(t)) = Len(t)
         /\ \A i \in 1..Len(t) : Reverse(t)[i] = t[Len(t) + 1 - i]
<1>1. Reverse(t) = [i \in 1..Len(t) |-> t[(Len(t) - i) + 1]]
  BY DEF Reverse
<1>2. Len(t) \in Nat
  OBVIOUS
<1>3. ASSUME NEW i \in 1..Len(t)
      PROVE  (Len(t) - i) + 1 = Len(t) + 1 - i /\ (Len(t) - i) + 1 \in 1..Len(t)
  BY <1>2
<1>4. \A i \in 1..Len(t) : t[(Len(t) - i) + 1] \in S
  BY <1>3, ElementOfSeq
<1>5. [i \in 1..Len(t) |-> t[(Len(t) - i) + 1]] \in Seq(S)
  BY <1>2, <1>4
<1>6. Len([i \in 1..Len(t) |-> t[(Len(t) - i) + 1]]) = Len(t)
  BY <1>2
<1>. QED BY <1>1, <1>3, <1>5, <1>6

\* The buffers to reuse: the free ones, then those reclaimed, oldest first.
CandidateAt(cat, free, pend, h, i) ==
  \/ i \in DOMAIN free /\ i <= Len(free) /\ cat[i] = free[i]
  \/ \E k \in DOMAIN pend : /\ k > h /\ k = Len(pend) + 1 - (i - Len(free)) /\ i > Len(free)
                             /\ cat[i] = pend[k]

LEMMA CandidateFacts ==
  ASSUME NEW S, NEW free \in Seq(S), NEW pend \in Seq(S), NEW h \in 0..Len(pend),
         NEW cat, cat = free \o Reverse(SubSeq(pend, h + 1, Len(pend)))
  PROVE  /\ cat \in Seq(S)
         /\ \A i \in 1..Len(cat) : CandidateAt(cat, free, pend, h, i)
<1>. DEFINE t == SubSeq(pend, h + 1, Len(pend))
            r == Reverse(t)
<1>1. t \in Seq(S) /\ Len(t) = Len(pend) - h /\ \A i \in 1..(Len(pend) - h) : t[i] = pend[h + i]
  BY SuffixFacts
<1>. HIDE DEF t
<1>2. r \in Seq(S) /\ Len(r) = Len(t) /\ \A i \in 1..Len(t) : r[i] = t[Len(t) + 1 - i]
  BY <1>1, BackwardFacts
<1>3. cat = free \o r
  BY DEF t
<1>. HIDE DEF r
<1>4. /\ Len(pend) \in Nat /\ Len(free) \in Nat /\ h \in Nat /\ h <= Len(pend)
      /\ DOMAIN free = 1..Len(free) /\ DOMAIN pend = 1..Len(pend)
  OBVIOUS
<1>5. /\ cat \in Seq(S) /\ Len(cat) = Len(free) + Len(r)
      /\ \A i \in 1..(Len(free) + Len(r)) : cat[i] = IF i <= Len(free) THEN free[i] ELSE r[i - Len(free)]
  <2>1. free \o r \in Seq(S) /\ Len(free \o r) = Len(free) + Len(r)
    BY <1>2, ConcatProperties
  <2>2. \A i \in 1..(Len(free) + Len(r)) :
          (free \o r)[i] = IF i <= Len(free) THEN free[i] ELSE r[i - Len(free)]
    BY <1>2
  <2>. QED BY <1>3, <2>1, <2>2
<1>6. ASSUME NEW i \in 1..Len(cat), i <= Len(free)
      PROVE  i \in DOMAIN free /\ i <= Len(free) /\ cat[i] = free[i]
  BY <1>4, <1>5, <1>6
<1>7. ASSUME NEW i \in 1..Len(cat), ~(i <= Len(free))
      PROVE  \E k \in DOMAIN pend : k > h /\ k = Len(pend) + 1 - (i - Len(free)) /\ i > Len(free)
                                        /\ cat[i] = pend[k]
  <2>1. Len(r) = Len(pend) - h /\ Len(r) \in Nat /\ Len(cat) = Len(free) + Len(r)
    BY <1>1, <1>2, <1>4, <1>5
  <2>2. i - Len(free) \in 1..(Len(pend) - h) /\ i > Len(free)
    BY <1>4, <1>7, <2>1
  <2>3. cat[i] = r[i - Len(free)]
    BY <1>5, <1>7, <2>1
  <2>. DEFINE j == Len(t) + 1 - (i - Len(free))
  <2>4. r[i - Len(free)] = t[j]
    BY <1>1, <1>2, <2>2
  <2>5. j \in 1..(Len(pend) - h) /\ h + j = Len(pend) + 1 - (i - Len(free)) /\ h + j > h
        /\ h + j \in 1..Len(pend)
    BY <1>1, <1>4, <2>2
  <2>. HIDE DEF j
  <2>6. t[j] = pend[h + j]
    BY <1>1, <2>5
  <2>. QED BY <1>4, <2>2, <2>3, <2>4, <2>5, <2>6
<1>. QED BY <1>5, <1>6, <1>7 DEF CandidateAt

LEMMA FreeFacts ==
  ASSUME wire \in Wire, WireInv
  PROVE  /\ FreeNow \in Seq(BufferIds) /\ Len(FreeNow) <= 2
         /\ \A i \in DOMAIN FreeNow : ~Sending(FreeNow[i])
         /\ \A i, j \in DOMAIN FreeNow : FreeNow[i] = FreeNow[j] => i = j
         /\ \A i \in DOMAIN FreeNow : \A j \in 1..Held : FreeNow[i] # wire.pending[j]
<1>. DEFINE cat == wire.free \o Reverse(Reclaimed)
            pend == wire.pending
            free == wire.free
<1>1. /\ free \in Seq(BufferIds) /\ pend \in Seq(BufferIds)
      /\ Len(pend) \in Nat /\ DOMAIN pend = 1..Len(pend) /\ Len(free) \in Nat
  BY DEF Wire
<1>2. Held \in 0..Len(pend) /\ Held \in Nat /\ \A i \in DOMAIN pend : i > Held => ~Sending(pend[i])
  BY <1>1, HeldFacts
<1>3. /\ cat \in Seq(BufferIds)
      /\ \A i \in 1..Len(cat) :
              \/ i \in DOMAIN free /\ i <= Len(free) /\ cat[i] = free[i]
              \/ \E k \in DOMAIN pend : k > Held /\ k = Len(pend) + 1 - (i - Len(free)) /\ i > Len(free)
                                        /\ cat[i] = pend[k]
  <2>1. cat = free \o Reverse(SubSeq(pend, Held + 1, Len(pend)))
    BY DEF Reclaimed
  <2>2. free \in Seq(BufferIds) /\ pend \in Seq(BufferIds) /\ Held \in 0..Len(pend)
    BY <1>1, <1>2
  <2>. HIDE DEF cat, free, pend
  <2>3. cat \in Seq(BufferIds)
    BY ONLY <2>1, <2>2, CandidateFacts, Zenon
  <2>4. \A i \in 1..Len(cat) : CandidateAt(cat, free, pend, Held, i)
    BY ONLY <2>1, <2>2, CandidateFacts, Zenon
  <2>. QED BY <2>3, <2>4 DEF CandidateAt
<1>4. /\ FreeNow \in Seq(BufferIds) /\ Len(FreeNow) <= 2
      /\ \A i \in DOMAIN FreeNow : i \in 1..Len(cat) /\ FreeNow[i] = cat[i]
  <2>1. Len(cat) \in Nat
    BY <1>3
  <2>2. Min({2, Len(cat)}) = IF 2 <= Len(cat) THEN 2 ELSE Len(cat)
    BY <2>1, MinOfTwo
  <2>. DEFINE m == IF 2 <= Len(cat) THEN 2 ELSE Len(cat)
  <2>3. FreeNow = SubSeq(cat, 1, m)
    BY <2>2 DEF FreeNow, Kept
  <2>4. m \in Nat /\ m <= 2 /\ m <= Len(cat)
    BY <2>1
  <2>. HIDE DEF cat, m
  <2>5. \A i \in 1..m : i \in 1..Len(cat) /\ cat[i] \in BufferIds
    BY <1>3, <2>1, <2>4, ElementOfSeq
  <2>6. SubSeq(cat, 1, m) = [i \in 1..m |-> cat[i]]
    BY <1>3, <2>1, <2>4
  <2>. QED BY <2>3, <2>4, <2>5, <2>6
<1>5. /\ \A i \in DOMAIN free : ~Sending(free[i])
      /\ \A i, j \in DOMAIN free : free[i] = free[j] => i = j
      /\ \A i, j \in DOMAIN pend : pend[i] = pend[j] => i = j
      /\ \A i \in DOMAIN free, j \in DOMAIN pend : free[i] # pend[j]
  BY DEF WireInv
<1>. HIDE DEF cat, free, pend
<1>6. ASSUME NEW i \in DOMAIN FreeNow PROVE ~Sending(FreeNow[i])
  BY <1>2, <1>3, <1>4, <1>5
<1>7. ASSUME NEW i \in DOMAIN FreeNow, NEW j \in 1..Held PROVE FreeNow[i] # pend[j]
  <2>1. j \in DOMAIN pend /\ ~(j > Held)
    BY <1>1, <1>2
  <2>2. i \in 1..Len(cat) /\ FreeNow[i] = cat[i]
    BY <1>4
  <2>3. CASE i \in DOMAIN free /\ cat[i] = free[i]
    BY <1>5, <2>1, <2>2, <2>3
  <2>4. CASE \E k \in DOMAIN pend : k > Held /\ cat[i] = pend[k]
    <3>1. PICK k \in DOMAIN pend : k > Held /\ cat[i] = pend[k]
      BY <2>4
    <3>2. k # j
      BY <2>1, <3>1
    <3>3. pend[k] # pend[j]
      BY <1>5, <2>1, <3>1, <3>2
    <3>. QED BY <2>2, <3>1, <3>3
  <2>. QED BY <1>3, <2>2, <2>3, <2>4
<1>8. ASSUME NEW i \in DOMAIN FreeNow, NEW j \in DOMAIN FreeNow, FreeNow[i] = FreeNow[j] PROVE i = j
  <2>1. i \in 1..Len(cat) /\ j \in 1..Len(cat) /\ cat[i] = cat[j] /\ i \in Int /\ j \in Int
    BY <1>4, <1>8
  <2>2. CASE i \in DOMAIN free /\ cat[i] = free[i]
    BY <1>3, <1>5, <2>1, <2>2
  <2>3. CASE \E k \in DOMAIN pend : k = Len(pend) + 1 - (i - Len(free)) /\ cat[i] = pend[k]
    <3>1. PICK k \in DOMAIN pend : k = Len(pend) + 1 - (i - Len(free)) /\ cat[i] = pend[k]
      BY <2>3
    <3>2. PICK l \in DOMAIN pend : l = Len(pend) + 1 - (j - Len(free)) /\ cat[j] = pend[l]
      BY <1>3, <1>5, <2>1, <3>1
    <3>3. k = l
      BY <1>5, <2>1, <3>1, <3>2
    <3>. QED BY <1>1, <2>1, <3>1, <3>2, <3>3
  <2>. QED BY <1>3, <2>1, <2>2, <2>3
<1>. QED BY <1>4, <1>6, <1>7, <1>8 DEF pend

\* The buffer written to is not one that zmq still reads.
LEMMA BufFacts ==
  ASSUME wire \in Wire, WireInv, FreeNow # <<>> \/ Unused # {}
  PROVE  /\ NextBuf \in 1..Buffers /\ ~Sending(NextBuf)
         /\ \A j \in 1..Held : NextBuf # wire.pending[j]
         /\ \A i \in DOMAIN FreeNow : i < Len(FreeNow) => FreeNow[i] # NextBuf
<1>. USE FreeFacts
<1>1. CASE FreeNow = <<>>
  <2>1. NextBuf \in Unused
    BY <1>1 DEF NextBuf
  <2>2. NextBuf \in 1..Buffers /\ ~Sending(NextBuf) /\ NextBuf \notin ToSet(wire.pending \o wire.free)
    BY <2>1 DEF Unused
  <2>3. wire.pending \in Seq(BufferIds) /\ wire.free \in Seq(BufferIds)
    BY DEF Wire
  <2>4. NextBuf \notin ToSet(wire.pending)
    BY <2>2, <2>3, ToSetConcat
  <2>5. \A j \in 1..Held : j \in DOMAIN wire.pending
    BY <2>3, HeldFacts
  <2>6. \A j \in 1..Held : NextBuf # wire.pending[j]
    BY <2>4, <2>5 DEF ToSet
  <2>7. DOMAIN FreeNow = {}
    BY <1>1
  <2>. QED BY <2>2, <2>6, <2>7
<1>2. CASE FreeNow # <<>>
  <2>1. NextBuf = FreeNow[Len(FreeNow)] /\ Len(FreeNow) \in DOMAIN FreeNow /\ Len(FreeNow) \in Nat
    BY <1>2 DEF NextBuf, Last
  <2>2. FreeNow[Len(FreeNow)] \in BufferIds
    BY <2>1, ElementOfSeq
  <2>3. \A i \in DOMAIN FreeNow : i < Len(FreeNow) => FreeNow[i] # FreeNow[Len(FreeNow)]
    BY <2>1
  <2>. QED BY <2>1, <2>2, <2>3 DEF BufferIds
<1>. QED BY <1>1, <1>2

-----------------------------------------------------------------------------
(* What a step leaves alone.                                               *)

LEMMA SameMessages ==
  ASSUME Messages' = Messages
  PROVE  \A id : /\ (AddSent(id)' <=> AddSent(id)) /\ (AbortSent(id)' <=> AbortSent(id))
                 /\ (FinalSent(id)' <=> FinalSent(id)) /\ (OnlyFinal(id)' <=> OnlyFinal(id))
BY DEF AddSent, AbortSent, FinalSent, OnlyFinal, AddOf, AbortOf

LEMMA SameRunning ==
  ASSUME engine'.running = engine.running
  PROVE  \A id : /\ (RunsOn(id)' <=> RunsOn(id)) /\ (RunsFinal(id)' <=> RunsFinal(id))
BY DEF RunsOn, RunsFinal

LEMMA SameAbortQueue ==
  ASSUME engine'.abq = engine.abq
  PROVE  \A id : InAbortQueue(id)' <=> InAbortQueue(id)
BY DEF InAbortQueue

LEMMA SameAnswers ==
  ASSUME engine'.outq = engine.outq, wire' = wire,
         client'.outputs = client.outputs, handler'.todo = handler.todo
  PROVE  \A id : Answered(id)' <=> Answered(id)
<1>. TAKE id
<1>1. /\ (InOutq(id)' <=> InOutq(id)) /\ (OnWire(id)' <=> OnWire(id))
      /\ (InOutputs(id)' <=> InOutputs(id)) /\ (InTodo(id)' <=> InTodo(id))
  BY DEF InOutq, OnWire, InOutputs, InTodo, Fin
<1>. QED BY <1>1, AnsweredIs, AnsweredIsNext

LEMMA SameSplit ==
  ASSUME setup' = setup, engine'.refused = engine.refused
  PROVE  \A id : Split(id)' <=> Split(id)
BY SameSetup DEF Split

LEMMA SameOpen ==
  ASSUME feeder' = feeder, task' = task
  PROVE  \A id : Open(id)' <=> Open(id)
BY DEF Open

\* The front end acts: what the engine holds stays.
LEMMA SameEngine ==
  ASSUME setup' = setup, engine' = engine, wire' = wire,
         client'.outputs = client.outputs, handler'.todo = handler.todo
  PROVE  \A id : /\ (RunsOn(id)' <=> RunsOn(id)) /\ (RunsFinal(id)' <=> RunsFinal(id))
                 /\ (InAbortQueue(id)' <=> InAbortQueue(id))
                 /\ (Answered(id)' <=> Answered(id)) /\ (Split(id)' <=> Split(id))
BY SameRunning, SameAbortQueue, SameAnswers, SameSplit

LEMMA SameWire ==
  ASSUME setup' = setup, wire' = wire, WireInv
  PROVE  WireInv'
BY SameSetup DEF WireInv, Sending

\* The invariant of a request depends on these facts only; that the front end
\* will send no more of it can only become true.
LEMMA SameRequest ==
  ASSUME NEW id, RequestInv(id), setup' = setup,
         Open(id)' => Open(id), AddSent(id)' <=> AddSent(id), AbortSent(id)' <=> AbortSent(id),
         FinalSent(id)' <=> FinalSent(id), OnlyFinal(id)' <=> OnlyFinal(id),
         InAbortQueue(id)' <=> InAbortQueue(id),
         RunsOn(id)' <=> RunsOn(id), RunsFinal(id)' <=> RunsFinal(id),
         Answered(id)' <=> Answered(id), Split(id)' <=> Split(id),
         id \in states' <=> id \in states, id \in handler'.aborts <=> id \in handler.aborts,
         feeder[id[1]].on => feeder'[id[1]].on \/ Split(id)
  PROVE  RequestInv(id)'
BY SameSetup DEF RequestInv, OpenInv, PlainInv, ServedInv, OrphanInv, AnswerInv, ForgottenInv

LEMMA SameOrder ==
  ASSUME setup' = setup, toEngine' = toEngine, engine'.inq = engine.inq,
         engine'.running = engine.running, OrderInv
  PROVE  OrderInv' /\ Messages' = Messages
<1>1. Messages' = Messages
  BY DEF Messages
<1>2. AllIds' = AllIds
  BY SameSetup
<1>. QED BY <1>1, <1>2, SameMessages, SameRunning DEF OrderInv, InOrder, AddOf, AbortOf, Closes

LEMMA SameLast ==
  ASSUME setup' = setup, queue' = queue, LastInv,
         \A g \in Calls : Open(<<g, 1>>)' => Open(<<g, 1>>),
         \A id : Split(id) => Split(id)'
  PROVE  LastInv'
BY SameSetup DEF LastInv

\* Fewer requests known are no more than the cap.
LEMMA FewerStates ==
  ASSUME setup \in Setups, setup' = setup, states \in SUBSET AllIds, states' \subseteq states, CapInv
  PROVE  CapInv'
<1>1. IsFiniteSet(PlainStates)
  BY IdsFinite, FS_Subset DEF PlainStates
<1>2. PlainStates' \subseteq PlainStates
  BY SameSetup DEF PlainStates
<1>3. Cardinality(PlainStates') <= Cardinality(PlainStates) /\ Cardinality(PlainStates') \in Nat
      /\ Cardinality(PlainStates) \in Nat
  BY <1>1, <1>2, FS_Subset, FS_CardinalityType
<1>4. setup.cap \in Nat
  BY SetupFacts
<1>. QED BY <1>3, <1>4 DEF CapInv

\* One more is admitted only below the cap; a fan-out is not counted.
LEMMA OneMoreState ==
  ASSUME setup \in Setups, setup' = setup, states \in SUBSET AllIds, CapInv,
         NEW id \in AllIds, states' = states \cup {id},
         id \in states \/ Shape(id[1]).n # 1 \/ Admits(1)
  PROVE  CapInv'
<1>1. CASE id \in states
  BY <1>1, FewerStates
<1>2. CASE Shape(id[1]).n # 1
  <2>1. PlainStates' = PlainStates
    BY <1>2, SameSetup DEF PlainStates
  <2>. QED BY <2>1 DEF CapInv
<1>3. CASE Admits(1)
  <2>1. IsFiniteSet(states) /\ IsFiniteSet(PlainStates)
    BY IdsFinite, FS_Subset DEF PlainStates
  <2>2. PlainStates' \subseteq PlainStates \cup {id}
    BY SameSetup DEF PlainStates
  <2>3. PlainStates \subseteq states
    BY DEF PlainStates
  <2>4. /\ IsFiniteSet(PlainStates \cup {id})
        /\ Cardinality(PlainStates \cup {id}) <= Cardinality(PlainStates) + 1
    <3>1. Cardinality(PlainStates) \in Nat
      BY <2>1, FS_CardinalityType
    <3>2. IsFiniteSet(PlainStates \cup {id})
      BY <2>1, FS_AddElement
    <3>3. \/ Cardinality(PlainStates \cup {id}) = Cardinality(PlainStates) + 1
          \/ Cardinality(PlainStates \cup {id}) = Cardinality(PlainStates)
      BY <2>1, FS_AddElement
    <3>. QED BY <3>1, <3>2, <3>3
  <2>5. Cardinality(PlainStates') <= Cardinality(PlainStates \cup {id})
    BY <2>2, <2>4, FS_Subset
  <2>6. Cardinality(PlainStates) <= Cardinality(states)
    BY <2>1, <2>3, FS_Subset
  <2>7. Cardinality(states) + 1 <= setup.cap
    BY <1>3 DEF Admits
  <2>8. /\ Cardinality(states) \in Nat /\ Cardinality(PlainStates) \in Nat /\ setup.cap \in Nat
        /\ Cardinality(PlainStates \cup {id}) \in Nat
    BY <2>1, <2>4, SetupFacts, FS_CardinalityType
  <2>9. Cardinality(PlainStates') \in Nat
    BY <2>2, <2>4, FS_Subset, FS_CardinalityType
  <2>. QED BY <2>4, <2>5, <2>6, <2>7, <2>8, <2>9 DEF CapInv
<1>. QED BY <1>1, <1>2, <1>3

-----------------------------------------------------------------------------
(* What sending adds.                                                      *)

SentIs(new) ==
  \A id : /\ AddSent(id)' <=> AddSent(id) \/ \E m \in ToSet(new) : AddOf(m, id)
          /\ AbortSent(id)' <=> AbortSent(id) \/ \E m \in ToSet(new) : AbortOf(m, id)
          /\ FinalSent(id)' <=> FinalSent(id) \/ \E m \in ToSet(new) : AddOf(m, id) /\ m.final
          /\ OnlyFinal(id)' <=> OnlyFinal(id) /\ \A m \in ToSet(new) : AddOf(m, id) => m.final

LEMMA AfterSend ==
  ASSUME toEngine \in Seq(Message), NEW new \in Seq(Message),
         toEngine' = toEngine \o new, engine'.inq = engine.inq
  PROVE  SentIs(new)
<1>1. Messages' = Messages \cup ToSet(new)
  BY Sends
<1>. QED BY <1>1 DEF SentIs, AddSent, AbortSent, FinalSent, OnlyFinal, AddOf, AbortOf

\* A message that is neither an input nor an abort.
LEMMA AfterUtility ==
  ASSUME toEngine \in Seq(Message), engine.inq \in Seq(Message), NEW g \in Calls,
         toEngine' = Append(toEngine, Utility(g)), engine' = engine, setup' = setup, OrderInv
  PROVE  /\ toEngine' \in Seq(Message) /\ OrderInv'
         /\ \A id : /\ AddSent(id)' <=> AddSent(id)
                    /\ AbortSent(id)' <=> AbortSent(id)
                    /\ FinalSent(id)' <=> FinalSent(id)
                    /\ OnlyFinal(id)' <=> OnlyFinal(id)
<1>. DEFINE m == Utility(g)
            new == <<m>>
<1>1. m \in Message /\ m.type = "UTILITY"
  BY MessageFacts
<1>. HIDE DEF m
<1>2. new \in Seq(Message) /\ ToSet(new) = {m} /\ InOrder(new) /\ toEngine' = toEngine \o new
  BY <1>1, OneMessage DEF m
<1>3. \A id : ~AddOf(m, id) /\ ~AbortOf(m, id)
  BY <1>1 DEF AddOf, AbortOf
<1>4. toEngine' \in Seq(Message)
  BY <1>2, Sends
<1>5. OrderInv'
  BY <1>2, <1>3, SameSetup, SendsInOrder
<1>6. SentIs(new)
  BY <1>2, AfterSend
<1>. QED BY <1>2, <1>3, <1>4, <1>5, <1>6 DEF SentIs

LEMMA AfterAborts ==
  ASSUME toEngine \in Seq(Message), engine.inq \in Seq(Message), NEW ids \in SUBSET AllIds,
         SendAborts(ids), engine' = engine, setup' = setup, OrderInv, ~client.dead
  PROVE  /\ toEngine' \in Seq(Message) /\ OrderInv'
         /\ \A id : /\ AddSent(id)' <=> AddSent(id)
                    /\ AbortSent(id)' <=> AbortSent(id) \/ id \in ids
                    /\ FinalSent(id)' <=> FinalSent(id)
                    /\ OnlyFinal(id)' <=> OnlyFinal(id)
<1>1. CASE ids = {}
  <2>1. toEngine' = toEngine
    BY <1>1 DEF SendAborts
  <2>2. OrderInv' /\ Messages' = Messages
    BY <2>1, SameOrder
  <2>. QED BY <1>1, <2>1, <2>2, SameMessages
<1>2. CASE ids # {}
  <2>. DEFINE m == Abort(ids)
              new == <<m>>
  <2>1. m \in Message /\ m.type = "ABORT" /\ m.ids = ids
    BY MessageFacts
  <2>2. toEngine' = Append(toEngine, m)
    BY <1>2 DEF SendAborts
  <2>. HIDE DEF m
  <2>3. new \in Seq(Message) /\ ToSet(new) = {m} /\ InOrder(new) /\ toEngine' = toEngine \o new
    BY <2>1, <2>2, OneMessage
  <2>4. \A id : ~AddOf(m, id) /\ (AbortOf(m, id) <=> id \in ids)
    BY <2>1 DEF AddOf, AbortOf
  <2>5. toEngine' \in Seq(Message)
    BY <2>3, Sends
  <2>6. OrderInv'
    BY <2>3, <2>4, SameSetup, SendsInOrder
  <2>7. SentIs(new)
    BY <2>3, AfterSend
  <2>. QED BY <2>3, <2>4, <2>5, <2>6, <2>7 DEF SentIs
<1>. QED BY <1>1, <1>2

\* Whatever is sent, the type of the socket's content is kept.
LEMMA AbortsTyped ==
  ASSUME toEngine \in Seq(Message), NEW ids \in SUBSET AllIds, SendAborts(ids)
  PROVE  toEngine' \in Seq(Message)
<1>1. Abort(ids) \in Message
  BY MessageFacts
<1>. QED BY <1>1 DEF SendAborts

\* One input of a stream, which nothing has closed.
LEMMA AfterAdd ==
  ASSUME toEngine \in Seq(Message), engine.inq \in Seq(Message), NEW id \in AllIds,
         NEW input \in BOOLEAN, NEW final \in BOOLEAN,
         toEngine' = toEngine \o <<Add(id, input, final)>>, engine' = engine, setup' = setup,
         OrderInv, ~AbortSent(id), ~FinalSent(id), ~RunsFinal(id)
  PROVE  /\ OrderInv'
         /\ \A i : /\ AddSent(i)' <=> AddSent(i) \/ i = id
                   /\ AbortSent(i)' <=> AbortSent(i)
                   /\ FinalSent(i)' <=> FinalSent(i) \/ (i = id /\ final)
                   /\ i # id => (OnlyFinal(i)' <=> OnlyFinal(i))
<1>. DEFINE m == Add(id, input, final)
            new == <<m>>
<1>1. m \in Message /\ m.type = "ADD" /\ m.id = id /\ m.final = final
  BY MessageFacts
<1>2. toEngine' = toEngine \o new
  OBVIOUS
<1>. HIDE DEF m
<1>3. new \in Seq(Message) /\ ToSet(new) = {m} /\ InOrder(new)
  BY <1>1, OneMessage
<1>4. \A i : ~AbortOf(m, i) /\ (AddOf(m, i) <=> i = id)
  BY <1>1 DEF AddOf, AbortOf
<1>5. OrderInv'
  BY <1>2, <1>3, <1>4, SameSetup, SendsInOrder
<1>6. SentIs(new)
  BY <1>2, <1>3, AfterSend
<1>. QED BY <1>1, <1>3, <1>4, <1>5, <1>6 DEF SentIs

LEMMA AddTyped ==
  ASSUME toEngine \in Seq(Message), NEW id \in AllIds, NEW input \in BOOLEAN, NEW final \in BOOLEAN
  PROVE  toEngine \o <<Add(id, input, final)>> \in Seq(Message)
<1>1. Add(id, input, final) \in Message
  BY MessageFacts
<1>. QED BY <1>1

\* The requests of a call, all at once.
AllAdds(g) == [i \in 1..Shape(g).n |-> Add(<<g, i>>, TRUE, TRUE)]

LEMMA AllAddsFacts ==
  ASSUME setup \in Setups, NEW g \in Calls
  PROVE  /\ AllAdds(g) \in Seq(Message) /\ InOrder(AllAdds(g))
         /\ \A id : (\E m \in ToSet(AllAdds(g)) : AddOf(m, id)) <=> id \in Ids(g)
         /\ \A m \in ToSet(AllAdds(g)) : \A id : ~AbortOf(m, id) /\ m.final
<1>. DEFINE n == Shape(g).n
            s == AllAdds(g)
<1>1. n \in Nat \ {0}
  BY SetupFacts
<1>2. \A i \in 1..n : <<g, i>> \in AllIds
  BY DEF AllIds, Ids
<1>3. s = [i \in 1..n |-> Add(<<g, i>>, TRUE, TRUE)]
  BY DEF AllAdds
<1>. HIDE DEF n, s
<1>4. DOMAIN s = 1..n
  BY <1>3
<1>5. \A i \in 1..n : s[i] \in Message /\ s[i].type = "ADD" /\ s[i].id = <<g, i>> /\ s[i].final
  <2>1. ASSUME NEW i \in 1..n
        PROVE  s[i] \in Message /\ s[i].type = "ADD" /\ s[i].id = <<g, i>> /\ s[i].final
    <3>1. s[i] = Add(<<g, i>>, TRUE, TRUE) /\ <<g, i>> \in AllIds
      BY <1>2, <1>3
    <3>2. \A id \in AllIds :
            LET a == Add(id, TRUE, TRUE)
            IN  a \in Message /\ a.type = "ADD" /\ a.id = id /\ a.final
      BY MessageFacts
    <3>. QED BY <3>1, <3>2
  <2>. QED BY <2>1
<1>6. s \in Seq(Message)
  <2>1. s \in [1..n -> Message]
    BY <1>3, <1>5
  <2>. QED BY <1>1, <2>1
<1>7. \A i \in DOMAIN s : \A id : (AddOf(s[i], id) <=> id = <<g, i>>) /\ ~AbortOf(s[i], id)
  BY <1>4, <1>5 DEF AddOf, AbortOf
<1>8. InOrder(s)
  BY <1>4, <1>7 DEF InOrder, Closes
<1>9. ToSet(s) = {s[i] : i \in 1..n}
  BY <1>4 DEF ToSet
<1>10. \A id : (\E m \in ToSet(s) : AddOf(m, id)) <=> id \in {<<g, i>> : i \in 1..n}
  BY <1>4, <1>7, <1>9
<1>11. Ids(g) = {<<g, i>> : i \in 1..n}
  BY DEF Ids, n
<1>. QED BY <1>4, <1>5, <1>6, <1>7, <1>8, <1>9, <1>10, <1>11 DEF s

-----------------------------------------------------------------------------
(* Adding a request.                                                       *)

\* What get_supported_tasks and its result may change of the client.
ClientSame ==
  /\ client' \in Client
  /\ client'.dead = client.dead /\ client'.reading = client.reading
  /\ client'.outputs = client.outputs

LEMMA HandlerSame ==
  ASSUME setup' = setup, ClientSame, handler'.on = handler.on, HandlerInv,
         \A g \in Calls : queue'[g].err = queue[g].err \/ queue'[g].err # "dead"
  PROVE  HandlerInv'
BY SameSetup DEF HandlerInv, ClientSame

\* A call goes on to another await before its requests are registered, or ends.
LEMMA StartMoves ==
  ASSUME RInv, NEW g \in Calls, task[g] \in Starting, NEW t \in Starting \cup Ended,
         task' = [task EXCEPT ![g] = t], ClientSame,
         UNCHANGED <<setup, feeder, queue, got, states, handler, engine, wire>>,
         toEngine' = toEngine \/ toEngine' = Append(toEngine, Utility(g))
  PROVE  RInv'
<1>1. Typed /\ FeederInv /\ WireInv /\ HandlerInv /\ CapInv /\ PathInv
  BY DEF RInv
<1>2. toEngine \in Seq(Message) /\ engine.inq \in Seq(Message) /\ setup \in Setups
      /\ states \in SUBSET AllIds /\ DOMAIN task = Calls
  BY <1>1 DEF Typed, Engine
<1>. USE SameSetup
<1>3. toEngine' \in Seq(Message)
  <2>1. Utility(g) \in Message
    BY MessageFacts
  <2>. QED BY <1>2, <2>1
<1>4. Typed'
  BY <1>1, <1>3 DEF Typed, ClientSame
<1>5. feeder[g].on = FALSE
  BY <1>1 DEF Typed, FeederInv, Starting
<1>6. FeederInv'
  BY <1>1, <1>2, <1>5 DEF FeederInv
<1>7. WireInv' /\ HandlerInv' /\ CapInv'
  BY <1>1, <1>2, SameWire, HandlerSame, FewerStates
<1>8. ASSUME Connected' PROVE OrderInv' /\ LastInv' /\ \A id \in AllIds' : RequestInv(id)'
  <2>1. OrderInv /\ LastInv /\ \A id \in AllIds : RequestInv(id)
    BY <1>1, <1>8 DEF PathInv, Connected, ClientSame
  <2>2. /\ OrderInv'
        /\ \A id : /\ AddSent(id)' <=> AddSent(id)
                   /\ AbortSent(id)' <=> AbortSent(id)
                   /\ FinalSent(id)' <=> FinalSent(id)
                   /\ OnlyFinal(id)' <=> OnlyFinal(id)
    <3>1. CASE toEngine' = toEngine
      BY <2>1, <3>1, SameOrder, SameMessages
    <3>2. CASE toEngine' = Append(toEngine, Utility(g))
      BY <1>2, <2>1, <3>2, AfterUtility
    <3>. QED BY <3>1, <3>2
  <2>3. \A id : /\ RunsOn(id)' <=> RunsOn(id)
                /\ RunsFinal(id)' <=> RunsFinal(id)
                /\ InAbortQueue(id)' <=> InAbortQueue(id)
                /\ Answered(id)' <=> Answered(id)
                /\ Split(id)' <=> Split(id)
    BY SameEngine DEF ClientSame
  <2>4. \A id : id[1] \in Calls /\ Open(id)' => Open(id)
    BY <1>2 DEF Open
  <2>5. LastInv'
    <3>1. \A h \in Calls : <<h, 1>>[1] = h
      OBVIOUS
    <3>. QED BY <2>1, <2>3, <2>4, <3>1, SameLast
  <2>6. ASSUME NEW id \in AllIds PROVE RequestInv(id)'
    BY <1>2, <2>1, <2>2, <2>3, <2>4, IdFacts, SameRequest
  <2>. QED BY <2>2, <2>5, <2>6
<1>. QED BY <1>4, <1>6, <1>7, <1>8 DEF RInv, PathInv

\* A streamed input gets its task.
LEMMA StreamStarts ==
  ASSUME RInv, NEW g \in Calls, task[g] \in Starting, Streams(g),
         feeder' = [feeder EXCEPT ![g].on = TRUE], task' = [task EXCEPT ![g] = "reading"],
         ClientSame, UNCHANGED <<setup, queue, got, states, handler, toEngine, engine, wire>>
  PROVE  RInv'
<1>1. Typed /\ FeederInv /\ WireInv /\ HandlerInv /\ CapInv /\ PathInv
  BY DEF RInv
<1>2. toEngine \in Seq(Message) /\ engine.inq \in Seq(Message) /\ setup \in Setups
      /\ states \in SUBSET AllIds /\ DOMAIN task = Calls /\ DOMAIN feeder = Calls
  BY <1>1 DEF Typed, Engine
<1>. USE SameSetup
<1>3. Typed'
  BY <1>1 DEF Typed, ClientSame
<1>4. FeederInv'
  BY <1>1 DEF FeederInv, Typed
<1>5. WireInv' /\ HandlerInv' /\ CapInv'
  BY <1>1, <1>2, SameWire, HandlerSame, FewerStates
<1>6. ASSUME Connected' PROVE OrderInv' /\ LastInv' /\ \A id \in AllIds' : RequestInv(id)'
  <2>1. OrderInv /\ LastInv /\ \A id \in AllIds : RequestInv(id)
    BY <1>1, <1>6 DEF PathInv, Connected, ClientSame
  <2>2. /\ OrderInv'
        /\ \A id : /\ AddSent(id)' <=> AddSent(id)
                   /\ AbortSent(id)' <=> AbortSent(id)
                   /\ FinalSent(id)' <=> FinalSent(id)
                   /\ OnlyFinal(id)' <=> OnlyFinal(id)
    BY <2>1, SameOrder, SameMessages
  <2>3. \A id : /\ RunsOn(id)' <=> RunsOn(id)
                /\ RunsFinal(id)' <=> RunsFinal(id)
                /\ InAbortQueue(id)' <=> InAbortQueue(id)
                /\ Answered(id)' <=> Answered(id)
                /\ Split(id)' <=> Split(id)
    BY SameEngine DEF ClientSame
  <2>4. \A id : id[1] \in Calls =>
          (Open(id)' => Open(id)) /\ (feeder[id[1]].on => feeder'[id[1]].on)
    BY <1>1, <1>2 DEF Open, Typed
  <2>5. LastInv'
    <3>1. \A h \in Calls : <<h, 1>>[1] = h
      OBVIOUS
    <3>. QED BY <2>1, <2>3, <2>4, <3>1, SameLast
  <2>6. ASSUME NEW id \in AllIds PROVE RequestInv(id)'
    BY <1>2, <2>1, <2>2, <2>3, <2>4, IdFacts, SameRequest
  <2>. QED BY <2>2, <2>5, <2>6
<1>. QED BY <1>3, <1>4, <1>5, <1>6 DEF RInv, PathInv

\* The requests of a call are registered and sent; a dead engine stops that at
\* the first one.
LEMMA AllSent ==
  ASSUME RInv, NEW g \in Calls, task[g] \in Starting, ~Streams(g),
         Shape(g).n = 1 => Admits(1), Sent(g),
         ClientSame, UNCHANGED <<setup, queue, got, handler, engine, wire>>
  PROVE  RInv'
<1>1. Typed /\ FeederInv /\ WireInv /\ HandlerInv /\ CapInv /\ PathInv
  BY DEF RInv
<1>2. toEngine \in Seq(Message) /\ engine.inq \in Seq(Message) /\ setup \in Setups
      /\ states \in SUBSET AllIds /\ DOMAIN task = Calls /\ DOMAIN feeder = Calls
  BY <1>1 DEF Typed, Engine
<1>. USE SameSetup
<1>3. /\ AllAdds(g) \in Seq(Message) /\ InOrder(AllAdds(g))
      /\ \A id : (\E m \in ToSet(AllAdds(g)) : AddOf(m, id)) <=> id \in Ids(g)
      /\ \A m \in ToSet(AllAdds(g)) : \A id : ~AbortOf(m, id) /\ m.final
  BY <1>2, AllAddsFacts
<1>4. /\ states' = states \cup Registered(g) /\ feeder' = feeder
      /\ IF client.dead THEN task' = [task EXCEPT ![g] = "failed"] /\ toEngine' = toEngine
         ELSE task' = [task EXCEPT ![g] = "reading"] /\ toEngine' = toEngine \o AllAdds(g)
  BY DEF Sent, AllAdds
<1>5. Registered(g) \subseteq Ids(g) /\ Ids(g) \subseteq AllIds
  <2>1. <<g, 1>> \in Ids(g) /\ Ids(g) \subseteq AllIds
    BY <1>2, IdFacts
  <2>. QED BY <2>1 DEF Registered
<1>6. toEngine' \in Seq(Message)
  <2>1. toEngine \o AllAdds(g) \in Seq(Message)
    BY <1>2, <1>3, ToSetConcat
  <2>. QED BY <1>2, <1>4, <2>1
<1>7. Typed'
  <2>1. task' \in [Calls -> Starting \cup {"reading"} \cup Ended]
    BY <1>1, <1>4 DEF Typed, Ended
  <2>2. states' \in SUBSET AllIds
    BY <1>2, <1>4, <1>5
  <2>. QED BY <1>1, <1>4, <1>6, <2>1, <2>2 DEF Typed, ClientSame
<1>8. feeder[g].on = FALSE
  BY <1>1 DEF Typed, FeederInv, Starting
<1>9. FeederInv'
  BY <1>1, <1>2, <1>4, <1>8 DEF FeederInv
<1>10. WireInv' /\ HandlerInv'
  BY <1>1, <1>2, SameWire, HandlerSame
<1>11. CapInv'
  <2>1. CASE Shape(g).n = 1
    <3>1. states' = states \cup {<<g, 1>>} /\ <<g, 1>> \in AllIds
      BY <1>2, <1>4, <1>5, <2>1, IdFacts DEF Registered
    <3>. QED BY <1>1, <1>2, <2>1, <3>1, OneMoreState
  <2>2. CASE Shape(g).n # 1
    <3>1. \A id \in Registered(g) : id[1] = g
      BY <1>2, <1>5, IdFacts
    <3>2. PlainStates' = PlainStates
      BY <1>4, <2>2, <3>1 DEF PlainStates
    <3>. QED BY <1>1, <3>2 DEF CapInv
  <2>. QED BY <2>1, <2>2
<1>12. ASSUME Connected' PROVE OrderInv' /\ LastInv' /\ \A id \in AllIds' : RequestInv(id)'
  <2>1. OrderInv /\ LastInv /\ (\A id \in AllIds : RequestInv(id)) /\ ~client.dead
    BY <1>1, <1>12 DEF PathInv, Connected, ClientSame
  <2>2. task' = [task EXCEPT ![g] = "reading"] /\ toEngine' = toEngine \o AllAdds(g)
        /\ states' = states \cup Ids(g)
    BY <1>4, <2>1 DEF Registered
  <2>3. \A id : Open(id)' <=> Open(id) /\ id[1] # g
    <3>1. "reading" \notin Starting
      BY DEF Starting
    <3>. QED BY <1>1, <1>2, <1>4, <1>8, <2>2, <3>1 DEF Open
  <2>4. \A id \in Ids(g) : id \in AllIds /\ id[1] = g /\ Open(id)
    BY <1>2, IdFacts DEF Open
  <2>5. \A id \in Ids(g) : ~AbortSent(id) /\ ~FinalSent(id) /\ ~RunsFinal(id)
    BY <2>1, <2>4 DEF RequestInv, OpenInv
  <2>6. OrderInv'
    BY <1>2, <1>3, <2>1, <2>2, <2>5, SendsInOrder
  <2>7. SentIs(AllAdds(g))
    BY <1>2, <1>3, <2>2, AfterSend
  <2>8. \A id : /\ AddSent(id)' <=> AddSent(id) \/ id \in Ids(g)
                /\ AbortSent(id)' <=> AbortSent(id)
                /\ FinalSent(id)' <=> FinalSent(id) \/ id \in Ids(g)
                /\ OnlyFinal(id)' <=> OnlyFinal(id)
    BY <1>3, <2>7 DEF SentIs
  <2>9. \A id : /\ RunsOn(id)' <=> RunsOn(id)
                /\ RunsFinal(id)' <=> RunsFinal(id)
                /\ InAbortQueue(id)' <=> InAbortQueue(id)
                /\ Answered(id)' <=> Answered(id)
                /\ Split(id)' <=> Split(id)
    BY SameEngine DEF ClientSame
  <2>10. LastInv'
    BY <2>1, <2>3, <2>9, SameLast
  <2>11. ASSUME NEW id \in AllIds, id \notin Ids(g) PROVE RequestInv(id)'
    <3>1. id \in states' <=> id \in states
      BY <2>2, <2>11
    <3>. QED BY <1>4, <2>1, <2>3, <2>8, <2>9, <2>11, <3>1, SameRequest
  <2>12. ASSUME NEW id \in Ids(g) PROVE RequestInv(id)'
    <3>1. Open(id) /\ id[1] = g /\ ~Split(id) /\ RequestInv(id) /\ ~Open(id)' /\ id \in states'
      BY <2>1, <2>2, <2>3, <2>4 DEF Split
    <3>2. AddSent(id)' /\ FinalSent(id)'
      BY <2>8
    <3>. QED BY <2>8, <2>9, <3>1, <3>2
         DEF RequestInv, OpenInv, PlainInv, ServedInv, OrphanInv, AnswerInv, ForgottenInv
  <2>. QED BY <2>6, <2>10, <2>11, <2>12
<1>. QED BY <1>7, <1>9, <1>10, <1>11, <1>12 DEF RInv, PathInv

\* generate, the supported tasks, the prepared inputs.
LEMMA AddedKeeps ==
  ASSUME RInv, NEW g \in Calls, task[g] \in Starting, Added(g),
         ClientSame, UNCHANGED <<setup, queue, got, handler, engine, wire>>
  PROVE  RInv'
<1>1. CASE Streams(g)
  BY <1>1, StreamStarts DEF Added
<1>2. CASE ~Streams(g) /\ Shape(g).n = 1 /\ ~Admits(1)
  <2>1. "rejected" \in Starting \cup Ended
    BY DEF Ended
  <2>2. task' = [task EXCEPT ![g] = "rejected"] /\ UNCHANGED <<feeder, states, toEngine>>
    BY <1>2 DEF Added
  <2>. QED BY <2>1, <2>2, StartMoves
<1>3. CASE ~Streams(g) /\ ~(Shape(g).n = 1 /\ ~Admits(1))
  <2>1. Sent(g)
    BY <1>3 DEF Added
  <2>. QED BY <1>3, <2>1, AllSent
<1>. QED BY <1>1, <1>2, <1>3

LEMMA PreparedKeeps ==
  ASSUME RInv, NEW g \in Calls, task[g] \in Starting, Prepared(g),
         ClientSame, UNCHANGED <<setup, queue, got, handler, engine, wire>>
  PROVE  RInv'
<1>1. CASE Added(g)
  BY <1>1, AddedKeeps
<1>2. CASE task' = [task EXCEPT ![g] = "inputs"] /\ UNCHANGED <<feeder, states, toEngine>>
  <2>1. "inputs" \in Starting \cup Ended
    BY DEF Starting
  <2>. QED BY <1>2, <2>1, StartMoves
<1>. QED BY <1>1, <1>2 DEF Prepared

LEMMA GenerateKeeps ==
  ASSUME RInv, NEW g \in Calls, Generate(g) \/ GotTasks(g) \/ GotInputs(g)
  PROVE  RInv'
<1>1. client \in Client /\ setup \in Setups
  BY DEF RInv, Typed
<1>2. CASE Generate(g)
  <2>1. task[g] \in Starting /\ UNCHANGED <<setup, queue, got, handler, engine, wire>>
    BY <1>2 DEF Generate, Engines, Starting
  <2>2. CASE client' = client /\ task' = [task EXCEPT ![g] = "failed"] /\ UNCHANGED <<feeder, states, toEngine>>
    <3>1. ClientSame /\ "failed" \in Starting \cup Ended
      BY <1>1, <2>2 DEF ClientSame, Ended
    <3>. QED BY <2>1, <2>2, <3>1, StartMoves
  <2>3. CASE client' = client /\ task' = [task EXCEPT ![g] = "rejected"] /\ UNCHANGED <<feeder, states, toEngine>>
    <3>1. ClientSame /\ "rejected" \in Starting \cup Ended
      BY <1>1, <2>3 DEF ClientSame, Ended
    <3>. QED BY <2>1, <2>3, <3>1, StartMoves
  <2>4. CASE client' = client /\ Prepared(g)
    <3>1. ClientSame
      BY <1>1, <2>4 DEF ClientSame
    <3>. QED BY <2>1, <2>4, <3>1, PreparedKeeps
  <2>5. CASE /\ task' = [task EXCEPT ![g] = "tasks"]
             /\ client' = [client EXCEPT !.asked = @ \cup {g}]
             /\ toEngine' = Append(toEngine, Utility(g)) /\ UNCHANGED <<feeder, states>>
    <3>1. ClientSame /\ "tasks" \in Starting \cup Ended
      BY <1>1, <2>5 DEF ClientSame, Starting, Client
    <3>. QED BY <2>1, <2>5, <3>1, StartMoves
  <2>. QED BY <1>2, <2>2, <2>3, <2>4, <2>5 DEF Generate
<1>3. CASE GotTasks(g)
  <2>1. /\ task[g] \in Starting /\ UNCHANGED <<setup, queue, got, handler, engine, wire>>
        /\ client' = [client EXCEPT !.known = TRUE] /\ Prepared(g)
    BY <1>3 DEF GotTasks, Engines, Starting
  <2>2. ClientSame
    BY <1>1, <2>1 DEF ClientSame, Client
  <2>. QED BY <2>1, <2>2, PreparedKeeps
<1>4. CASE GotInputs(g)
  <2>1. /\ task[g] \in Starting /\ UNCHANGED <<setup, queue, got, handler, engine, wire>>
        /\ client' = client /\ Added(g)
    BY <1>4 DEF GotInputs, Engines, Starting
  <2>2. ClientSame
    BY <1>1, <2>1 DEF ClientSame
  <2>. QED BY <2>1, <2>2, AddedKeeps
<1>. QED BY <1>2, <1>3, <1>4

-----------------------------------------------------------------------------
(* Streamed inputs.                                                        *)

\* Registering an input: below the cap, and of a known call.
LEMMA FedStates ==
  ASSUME Typed, CapInv, setup' = setup, NEW id \in AllIds, NEW messages, Fed(id, messages)
  PROVE  CapInv' /\ states' \in SUBSET AllIds
<1>1. setup \in Setups /\ states \in SUBSET AllIds
  BY DEF Typed
<1>2. CASE states' = states \cup {id} /\ (id \in states \/ Admits(1))
  BY <1>1, <1>2, OneMoreState
<1>3. CASE states' = states
  BY <1>1, <1>3, FewerStates
<1>. QED BY <1>2, <1>3 DEF Fed

LEMMA FeedChunkKeeps ==
  ASSUME RInv, NEW g \in Calls, FeedChunk(g)
  PROVE  RInv'
<1>1. Typed /\ FeederInv /\ WireInv /\ HandlerInv /\ CapInv /\ PathInv
  BY DEF RInv
<1>2. toEngine \in Seq(Message) /\ engine.inq \in Seq(Message) /\ setup \in Setups
      /\ states \in SUBSET AllIds /\ DOMAIN task = Calls /\ DOMAIN feeder = Calls
  BY <1>1 DEF Typed, Engine
<1>. DEFINE id == <<g, 1>>
<1>3. /\ feeder[g].on /\ feeder[g].sent < Shape(g).chunks /\ CanFeed(id)
      /\ feeder' = [feeder EXCEPT ![g].sent = @ + 1] /\ Fed(id, <<Add(id, TRUE, FALSE)>>)
      /\ UNCHANGED <<setup, task, queue, got, client, handler, engine, wire>>
  BY DEF FeedChunk, Engines
<1>. USE SameSetup
<1>4. id \in AllIds /\ id[1] = g
  BY <1>2, IdFacts
<1>. HIDE DEF id
<1>5. states' = states \cup {id} /\ toEngine' = toEngine \o <<Add(id, TRUE, FALSE)>> /\ ~client.dead
  BY <1>3 DEF Fed, CanFeed
<1>6. Typed'
  <2>1. feeder' \in [Calls -> [on : BOOLEAN, sent : Nat]]
    <3>1. feeder \in [Calls -> [on : BOOLEAN, sent : Nat]]
      BY <1>1 DEF Typed
    <3>2. [feeder[g] EXCEPT !.sent = @ + 1] \in [on : BOOLEAN, sent : Nat]
      BY <3>1
    <3>. QED BY <1>3, <3>1, <3>2
  <2>2. toEngine' \in Seq(Message)
    BY <1>2, <1>4, <1>5, AddTyped
  <2>3. states' \in SUBSET AllIds
    BY <1>1, <1>3, <1>4, FedStates
  <2>. QED BY <1>1, <1>3, <2>1, <2>2, <2>3 DEF Typed
<1>7. FeederInv'
  <2>1. \A h \in Calls : feeder[h].sent \in Nat /\ Shape(h).chunks \in Nat
    BY <1>1, <1>2, SetupFacts DEF Typed
  <2>2. \A h \in Calls : /\ feeder'[h].on = feeder[h].on
                         /\ feeder'[h].sent = IF h = g THEN feeder[g].sent + 1 ELSE feeder[h].sent
    BY <1>1, <1>2, <1>3 DEF Typed
  <2>. QED BY <1>1, <1>3, <2>1, <2>2 DEF FeederInv
<1>8. WireInv' /\ CapInv'
  BY <1>1, <1>3, <1>4, SameWire, FedStates
<1>9. HandlerInv'
  BY <1>1, <1>3 DEF HandlerInv
<1>10. ASSUME Connected' PROVE OrderInv' /\ LastInv' /\ \A i \in AllIds' : RequestInv(i)'
  <2>1. OrderInv /\ LastInv /\ (\A i \in AllIds : RequestInv(i))
    BY <1>1, <1>3, <1>10 DEF PathInv, Connected
  <2>2. Streams(g) /\ Open(id)
    BY <1>1, <1>3, <1>4 DEF FeederInv, Open
  <2>3. ~AbortSent(id) /\ ~FinalSent(id) /\ ~RunsFinal(id)
    BY <1>4, <2>1, <2>2 DEF RequestInv, OpenInv
  <2>4. /\ OrderInv'
        /\ \A i : /\ AddSent(i)' <=> AddSent(i) \/ i = id
                  /\ AbortSent(i)' <=> AbortSent(i)
                  /\ FinalSent(i)' <=> FinalSent(i)
                  /\ i # id => (OnlyFinal(i)' <=> OnlyFinal(i))
    BY <1>2, <1>3, <1>4, <1>5, <2>1, <2>3, AfterAdd
  <2>5. \A i : /\ RunsOn(i)' <=> RunsOn(i)
               /\ RunsFinal(i)' <=> RunsFinal(i)
               /\ InAbortQueue(i)' <=> InAbortQueue(i)
               /\ Answered(i)' <=> Answered(i)
               /\ Split(i)' <=> Split(i)
    BY <1>3, SameEngine
  <2>6. \A i \in AllIds : (feeder'[i[1]].on <=> feeder[i[1]].on) /\ (Open(i)' <=> Open(i))
    BY <1>1, <1>2, <1>3, IdFacts DEF Open, Typed
  <2>7. LastInv'
    <3>1. \A h \in Calls : <<h, 1>> \in AllIds
      BY <1>2, IdFacts
    <3>. QED BY <1>3, <2>1, <2>5, <2>6, <3>1, SameLast
  <2>8. ASSUME NEW i \in AllIds, i # id PROVE RequestInv(i)'
    <3>1. i \in states' <=> i \in states
      BY <1>5, <2>8
    <3>. QED BY <1>3, <2>1, <2>4, <2>5, <2>6, <2>8, <3>1, SameRequest
  <2>9. RequestInv(id)'
    <3>1. RequestInv(id) /\ id \in states' /\ Streams(id[1]) /\ feeder'[id[1]].on
      BY <1>3, <1>4, <1>5, <2>1, <2>2, <2>6
    <3>. QED BY <1>3, <1>4, <2>2, <2>4, <2>5, <2>6, <3>1
         DEF RequestInv, OpenInv, PlainInv, ServedInv, OrphanInv, AnswerInv, ForgottenInv
  <2>. QED BY <1>3, <2>4, <2>7, <2>8, <2>9
<1>. QED BY <1>6, <1>7, <1>8, <1>9, <1>10 DEF RInv, PathInv

\* The last message of a stream, and the end of its task.
LEMMA FeedEndKeeps ==
  ASSUME RInv, NEW g \in Calls, FeedFails(g) \/ FeedFinal(g)
  PROVE  RInv'
<1>1. Typed /\ FeederInv /\ WireInv /\ HandlerInv /\ CapInv /\ PathInv
  BY DEF RInv
<1>2. toEngine \in Seq(Message) /\ engine.inq \in Seq(Message) /\ setup \in Setups
      /\ states \in SUBSET AllIds /\ DOMAIN task = Calls /\ DOMAIN feeder = Calls /\ DOMAIN queue = Calls
  BY <1>1 DEF Typed, Engine
<1>. DEFINE id == <<g, 1>>
<1>3. /\ feeder[g].on /\ feeder' = [feeder EXCEPT ![g].on = FALSE] /\ Fed(id, <<Add(id, FALSE, TRUE)>>)
      /\ UNCHANGED <<setup, task, got, client, handler, engine, wire>>
      /\ queue' = queue \/ queue' = [queue EXCEPT ![g] = Raised(@, "input")]
  BY DEF FeedFails, FeedFinal, Engines
<1>. USE SameSetup
<1>4. id \in AllIds /\ id[1] = g
  BY <1>2, IdFacts
<1>. HIDE DEF id
<1>5. /\ DOMAIN queue' = Calls
      /\ \A h \in Calls : queue'[h] = queue[h] \/ (queue'[h].last = FALSE /\ queue'[h].err = "input")
  BY <1>2, <1>3 DEF Raised
<1>6. Typed'
  <2>1. feeder' \in [Calls -> [on : BOOLEAN, sent : Nat]]
    <3>1. feeder \in [Calls -> [on : BOOLEAN, sent : Nat]]
      BY <1>1 DEF Typed
    <3>2. feeder' = [feeder EXCEPT ![g] = [@ EXCEPT !.on = FALSE]] /\ [feeder[g] EXCEPT !.on = FALSE] \in [on : BOOLEAN, sent : Nat]
      BY <1>3, <3>1
    <3>. QED BY <3>1, <3>2
  <2>2. toEngine' \in Seq(Message)
    <3>1. toEngine \o <<Add(id, FALSE, TRUE)>> \in Seq(Message)
      BY <1>2, <1>4, AddTyped
    <3>. QED BY <1>2, <1>3, <3>1 DEF Fed
  <2>3. states' \in SUBSET AllIds
    BY <1>1, <1>3, <1>4, FedStates
  <2>. QED BY <1>1, <1>3, <1>5, <2>1, <2>2, <2>3 DEF Typed
<1>7. /\ feeder'[g].on = FALSE
      /\ \A h \in Calls : feeder'[h].sent = feeder[h].sent /\ (h # g => feeder'[h] = feeder[h])
  BY <1>1, <1>2, <1>3 DEF Typed
<1>8. FeederInv'
  BY <1>1, <1>3, <1>7 DEF FeederInv
<1>9. WireInv' /\ CapInv'
  BY <1>1, <1>3, <1>4, SameWire, FedStates
<1>10. HandlerInv'
  BY <1>1, <1>3, <1>5 DEF HandlerInv
<1>11. ASSUME Connected' PROVE OrderInv' /\ LastInv' /\ \A i \in AllIds' : RequestInv(i)'
  <2>1. OrderInv /\ LastInv /\ (\A i \in AllIds : RequestInv(i)) /\ ~client.dead
    BY <1>1, <1>3, <1>11 DEF PathInv, Connected
  <2>2. Streams(g) /\ Open(id) /\ task[g] = "reading"
    BY <1>1, <1>3, <1>4 DEF FeederInv, Open
  <2>3. \A i : /\ RunsOn(i)' <=> RunsOn(i)
               /\ RunsFinal(i)' <=> RunsFinal(i)
               /\ InAbortQueue(i)' <=> InAbortQueue(i)
               /\ Answered(i)' <=> Answered(i)
               /\ Split(i)' <=> Split(i)
    BY <1>3, SameEngine
  <2>4. ~Open(id)'
    <3>1. "reading" \notin Starting
      BY DEF Starting
    <3>. QED BY <1>3, <1>4, <1>7, <2>2, <3>1 DEF Open
  <2>5. \A i \in AllIds : i # id => i[1] # g
    BY <1>2, <2>2, IdFacts DEF id
  <2>6. \A i \in AllIds : i # id => (feeder'[i[1]].on <=> feeder[i[1]].on) /\ (Open(i)' <=> Open(i))
    BY <1>2, <1>3, <1>7, <2>5, IdFacts DEF Open
  <2>7. \A i \in AllIds : Open(i)' => Open(i)
    BY <2>4, <2>6
  <2>8. LastInv'
    <3>1. \A h \in Calls : <<h, 1>> \in AllIds
      BY <1>2, IdFacts
    <3>. QED BY <1>3, <1>5, <2>1, <2>3, <2>7, <3>1 DEF LastInv
  <2>9. CASE CanFeed(id)
    <3>1. states' = states \cup {id} /\ toEngine' = toEngine \o <<Add(id, FALSE, TRUE)>>
      BY <1>3, <2>9 DEF Fed, CanFeed
    <3>2. ~AbortSent(id) /\ ~FinalSent(id) /\ ~RunsFinal(id)
      BY <1>4, <2>1, <2>2 DEF RequestInv, OpenInv
    <3>3. /\ OrderInv'
          /\ \A i : /\ AddSent(i)' <=> AddSent(i) \/ i = id
                    /\ AbortSent(i)' <=> AbortSent(i)
                    /\ FinalSent(i)' <=> FinalSent(i) \/ i = id
                    /\ i # id => (OnlyFinal(i)' <=> OnlyFinal(i))
      BY <1>2, <1>3, <1>4, <2>1, <3>1, <3>2, AfterAdd
    <3>4. ASSUME NEW i \in AllIds, i # id PROVE RequestInv(i)'
      <4>1. i \in states' <=> i \in states
        BY <3>1, <3>4
      <4>. QED BY <1>3, <2>1, <2>3, <2>6, <3>3, <3>4, <4>1, SameRequest
    <3>5. RequestInv(id)'
      <4>1. RequestInv(id) /\ id \in states' /\ Streams(id[1]) /\ FinalSent(id)'
        BY <1>3, <1>4, <2>1, <2>2, <3>1, <3>3
      <4>. QED BY <1>3, <1>4, <2>2, <2>3, <2>4, <3>3, <4>1
           DEF RequestInv, OpenInv, PlainInv, ServedInv, OrphanInv, AnswerInv, ForgottenInv
    <3>. QED BY <1>3, <2>8, <3>3, <3>4, <3>5
  <2>10. CASE ~CanFeed(id)
    <3>1. states' = states /\ toEngine' = toEngine /\ id \notin states
      BY <1>3, <2>1, <2>10 DEF Fed, CanFeed
    <3>2. OrderInv' /\ Messages' = Messages
      BY <1>3, <2>1, <3>1, SameOrder
    <3>3. \A i : /\ AddSent(i)' <=> AddSent(i)
                 /\ AbortSent(i)' <=> AbortSent(i)
                 /\ FinalSent(i)' <=> FinalSent(i)
                 /\ OnlyFinal(i)' <=> OnlyFinal(i)
      BY <3>2, SameMessages
    <3>4. ASSUME NEW i \in AllIds, i # id PROVE RequestInv(i)'
      BY <1>3, <2>1, <2>3, <2>6, <3>1, <3>3, <3>4, SameRequest
    <3>5. RequestInv(id)'
      <4>1. RequestInv(id) /\ id \notin states' /\ Streams(id[1])
        BY <1>3, <1>4, <2>1, <2>2, <3>1
      <4>. QED BY <1>3, <1>4, <2>3, <2>4, <3>1, <3>3, <4>1
           DEF RequestInv, OpenInv, PlainInv, ServedInv, OrphanInv, AnswerInv, ForgottenInv
    <3>. QED BY <1>3, <2>8, <3>2, <3>4, <3>5
  <2>. QED BY <2>9, <2>10
<1>. QED BY <1>6, <1>8, <1>9, <1>10, <1>11 DEF RInv, PathInv

-----------------------------------------------------------------------------
(* Reading and leaving.                                                    *)

LEMMA ReadKeeps ==
  ASSUME RInv, NEW g \in Calls, Read(g)
  PROVE  RInv'
<1>1. Typed /\ FeederInv /\ WireInv /\ HandlerInv /\ CapInv /\ PathInv
  BY DEF RInv
<1>2. toEngine \in Seq(Message) /\ engine.inq \in Seq(Message) /\ setup \in Setups
      /\ states \in SUBSET AllIds /\ DOMAIN task = Calls /\ DOMAIN feeder = Calls
      /\ DOMAIN queue = Calls /\ DOMAIN got = Calls
  BY <1>1 DEF Typed, Engine
<1>3. /\ task[g] = "reading" /\ queue' = [queue EXCEPT ![g] = EmptyQueue]
      /\ got' = [got EXCEPT ![g] = @ \o queue[g].outs]
      /\ IF queue[g].last
         THEN task' = [task EXCEPT ![g] = "done"] /\ feeder' = [feeder EXCEPT ![g].on = FALSE]
         ELSE UNCHANGED <<task, feeder>>
      /\ UNCHANGED <<setup, states, client, handler, toEngine, engine, wire>>
  BY DEF Read, Close, Engines
<1>. USE SameSetup
<1>4. /\ DOMAIN queue' = Calls /\ DOMAIN got' = Calls
      /\ \A h \in Calls : queue'[h] = queue[h] \/ (queue'[h].last = FALSE /\ queue'[h].err = "none")
  BY <1>2, <1>3 DEF EmptyQueue
<1>5. /\ task' \in [Calls -> Starting \cup {"reading"} \cup Ended]
      /\ feeder' \in [Calls -> [on : BOOLEAN, sent : Nat]]
  <2>1. /\ task \in [Calls -> Starting \cup {"reading"} \cup Ended]
        /\ feeder \in [Calls -> [on : BOOLEAN, sent : Nat]] /\ "done" \in Ended
    BY <1>1 DEF Typed, Ended
  <2>2. CASE queue[g].last
    BY <1>3, <2>1, <2>2
  <2>3. CASE ~queue[g].last
    BY <1>3, <2>1, <2>3
  <2>. QED BY <2>2, <2>3
<1>6. Typed'
  BY <1>1, <1>3, <1>4, <1>5 DEF Typed
<1>7. /\ \A h \in Calls : feeder'[h].sent = feeder[h].sent
      /\ \A h \in Calls : h # g => feeder'[h] = feeder[h] /\ task'[h] = task[h]
      /\ IF queue[g].last THEN feeder'[g].on = FALSE /\ task'[g] = "done"
                          ELSE feeder'[g] = feeder[g] /\ task'[g] = task[g]
  <2>1. /\ task \in [Calls -> Starting \cup {"reading"} \cup Ended]
        /\ feeder \in [Calls -> [on : BOOLEAN, sent : Nat]]
    BY <1>1 DEF Typed
  <2>2. CASE queue[g].last
    BY <1>3, <2>1, <2>2
  <2>3. CASE ~queue[g].last
    BY <1>3, <2>3
  <2>. QED BY <2>2, <2>3
<1>8. FeederInv'
  BY <1>1, <1>3, <1>7 DEF FeederInv
<1>9. WireInv' /\ CapInv'
  BY <1>1, <1>2, <1>3, SameWire, FewerStates
<1>10. HandlerInv'
  BY <1>1, <1>3, <1>4 DEF HandlerInv
<1>11. ASSUME Connected' PROVE OrderInv' /\ LastInv' /\ \A i \in AllIds' : RequestInv(i)'
  <2>1. OrderInv /\ LastInv /\ (\A i \in AllIds : RequestInv(i))
    BY <1>1, <1>3, <1>11 DEF PathInv, Connected
  <2>2. \A i : /\ RunsOn(i)' <=> RunsOn(i)
               /\ RunsFinal(i)' <=> RunsFinal(i)
               /\ InAbortQueue(i)' <=> InAbortQueue(i)
               /\ Answered(i)' <=> Answered(i)
               /\ Split(i)' <=> Split(i)
    BY <1>3, SameEngine
  <2>3. OrderInv' /\ Messages' = Messages
    BY <1>3, <2>1, SameOrder
  <2>4. \A i : /\ AddSent(i)' <=> AddSent(i)
               /\ AbortSent(i)' <=> AbortSent(i)
               /\ FinalSent(i)' <=> FinalSent(i)
               /\ OnlyFinal(i)' <=> OnlyFinal(i)
    BY <2>3, SameMessages
  <2>5. \A i \in AllIds : Open(i)' => Open(i)
    <3>1. "done" \notin Starting
      BY DEF Starting
    <3>2. \A i \in AllIds : i[1] \in Calls
      BY <1>2, IdFacts
    <3>. QED BY <1>3, <1>7, <3>1, <3>2 DEF Open
  <2>6. LastInv'
    <3>1. \A h \in Calls : <<h, 1>> \in AllIds
      BY <1>2, IdFacts
    <3>. QED BY <1>3, <1>4, <2>1, <2>2, <2>5, <3>1 DEF LastInv
  <2>7. ASSUME NEW i \in AllIds PROVE feeder[i[1]].on => feeder'[i[1]].on \/ Split(i)
    <3>1. i[1] \in Calls /\ (Streams(i[1]) => i = <<i[1], 1>>)
      BY <1>2, IdFacts
    <3>2. CASE i[1] = g /\ queue[g].last /\ feeder[g].on
      <4>1. Streams(g) /\ i = <<g, 1>> /\ Open(i)
        BY <1>1, <3>1, <3>2 DEF FeederInv, Open
      <4>. QED BY <2>1, <3>2, <4>1 DEF LastInv
    <3>. QED BY <1>7, <3>1, <3>2
  <2>8. ASSUME NEW i \in AllIds PROVE RequestInv(i)'
    BY <1>3, <2>1, <2>2, <2>4, <2>5, <2>7, SameRequest
  <2>. QED BY <1>3, <2>3, <2>6, <2>8
<1>. QED BY <1>6, <1>8, <1>9, <1>10, <1>11 DEF RInv, PathInv

\* A call ends and gives up its requests, or was never given any.
LEMMA LeaveKeeps ==
  ASSUME RInv, NEW g \in Calls, NEW t \in Ended,
         task' = [task EXCEPT ![g] = t], Close(g),
         \/ task[g] = "reading" /\ AbortIds(Ids(g))
         \/ task[g] = "reading" /\ queue[g].err = "dead" /\ UNCHANGED <<states, toEngine>>
         \/ task[g] \in Starting /\ UNCHANGED <<states, toEngine>>,
         UNCHANGED <<setup, queue, got, client, handler, engine, wire>>
  PROVE  RInv'
<1>1. Typed /\ FeederInv /\ WireInv /\ HandlerInv /\ CapInv /\ PathInv
  BY DEF RInv
<1>2. toEngine \in Seq(Message) /\ engine.inq \in Seq(Message) /\ setup \in Setups
      /\ states \in SUBSET AllIds /\ DOMAIN task = Calls /\ DOMAIN feeder = Calls
  BY <1>1 DEF Typed, Engine
<1>. USE SameSetup
<1>3. states' \subseteq states /\ Ids(g) \subseteq AllIds
  BY <1>2, IdFacts DEF AbortIds
<1>4. toEngine' \in Seq(Message)
  <2>1. CASE AbortIds(Ids(g))
    <3>1. Ids(g) \cap states \in SUBSET AllIds /\ SendAborts(Ids(g) \cap states)
      BY <1>2, <2>1 DEF AbortIds
    <3>. QED BY <1>2, <3>1, AbortsTyped
  <2>. QED BY <1>2, <2>1
<1>5. /\ task' \in [Calls -> Starting \cup {"reading"} \cup Ended]
      /\ feeder' \in [Calls -> [on : BOOLEAN, sent : Nat]]
  BY <1>1 DEF Typed, Close
<1>6. Typed'
  BY <1>1, <1>2, <1>3, <1>4, <1>5 DEF Typed
<1>7. /\ \A h \in Calls : feeder'[h].sent = feeder[h].sent
      /\ \A h \in Calls : h # g => feeder'[h] = feeder[h] /\ task'[h] = task[h]
      /\ feeder'[g].on = FALSE /\ task'[g] = t
  BY <1>1, <1>2 DEF Typed, Close
<1>8. FeederInv'
  BY <1>1, <1>7 DEF FeederInv
<1>9. WireInv' /\ CapInv'
  BY <1>1, <1>2, <1>3, SameWire, FewerStates
<1>10. HandlerInv'
  BY <1>1 DEF HandlerInv
<1>11. ASSUME Connected' PROVE OrderInv' /\ LastInv' /\ \A i \in AllIds' : RequestInv(i)'
  <2>1. OrderInv /\ LastInv /\ (\A i \in AllIds : RequestInv(i)) /\ ~client.dead
    BY <1>1, <1>11 DEF PathInv, Connected
  <2>2. \A i : /\ RunsOn(i)' <=> RunsOn(i)
               /\ RunsFinal(i)' <=> RunsFinal(i)
               /\ InAbortQueue(i)' <=> InAbortQueue(i)
               /\ Answered(i)' <=> Answered(i)
               /\ Split(i)' <=> Split(i)
    BY SameEngine
  <2>3. \A i \in AllIds : (Open(i)' => Open(i)) /\ (i[1] = g => ~Open(i)')
    <3>1. t \notin Starting
      BY DEF Starting, Ended
    <3>2. \A i \in AllIds : i[1] \in Calls
      BY <1>2, IdFacts
    <3>. QED BY <1>7, <3>1, <3>2 DEF Open
  <2>4. LastInv'
    <3>1. \A h \in Calls : <<h, 1>> \in AllIds
      BY <1>2, IdFacts
    <3>. QED BY <2>1, <2>2, <2>3, <3>1, SameLast
  <2>5. CASE task[g] = "reading" /\ AbortIds(Ids(g))
    <3>. DEFINE ids == Ids(g) \cap states
    <3>1. states' = states \ Ids(g) /\ SendAborts(ids) /\ ids \in SUBSET AllIds
      BY <1>2, <2>5 DEF AbortIds
    <3>2. /\ OrderInv'
          /\ \A i : /\ AddSent(i)' <=> AddSent(i)
                    /\ AbortSent(i)' <=> AbortSent(i) \/ i \in ids
                    /\ FinalSent(i)' <=> FinalSent(i)
                    /\ OnlyFinal(i)' <=> OnlyFinal(i)
      <4>. HIDE DEF ids
      <4>. QED BY <1>2, <2>1, <3>1, AfterAborts
    <3>3. ASSUME NEW i \in AllIds PROVE RequestInv(i)'
      <4>1. RequestInv(i) /\ i[1] \in Calls /\ (i \in Ids(g) <=> i[1] = g)
        BY <1>2, <2>1, IdFacts
      <4>2. CASE i[1] # g
        <5>1. i \notin ids /\ (i \in states' <=> i \in states)
          BY <3>1, <4>1, <4>2
        <5>. QED BY <1>7, <2>2, <2>3, <3>2, <4>1, <4>2, <5>1, SameRequest
      <4>3. CASE i[1] = g
        <5>1. i \notin states' /\ (i \in states => i \in ids) /\ ~Open(i)'
          BY <2>3, <3>1, <4>1, <4>3
        <5>. HIDE DEF ids
        <5>. QED BY <2>2, <3>2, <4>1, <5>1
             DEF RequestInv, OpenInv, PlainInv, ServedInv, OrphanInv, AnswerInv, ForgottenInv
      <4>. QED BY <4>2, <4>3
    <3>. QED BY <2>4, <3>2, <3>3
  <2>6. CASE task[g] \in Starting /\ UNCHANGED <<states, toEngine>>
    <3>1. OrderInv' /\ Messages' = Messages
      BY <2>1, <2>6, SameOrder
    <3>2. \A i : /\ AddSent(i)' <=> AddSent(i)
                 /\ AbortSent(i)' <=> AbortSent(i)
                 /\ FinalSent(i)' <=> FinalSent(i)
                 /\ OnlyFinal(i)' <=> OnlyFinal(i)
      BY <3>1, SameMessages
    <3>3. ~feeder[g].on
      BY <1>1, <2>6 DEF FeederInv, Starting
    <3>4. ASSUME NEW i \in AllIds PROVE RequestInv(i)'
      <4>1. i[1] \in Calls
        BY <1>2, IdFacts
      <4>. QED BY <1>7, <2>1, <2>2, <2>3, <2>6, <3>2, <3>3, <4>1, SameRequest
    <3>. QED BY <2>4, <3>1, <3>4
  <2>7. queue[g].err # "dead"
    BY <1>1, <1>2, <1>11 DEF HandlerInv, Connected
  <2>. QED BY <2>5, <2>6, <2>7
<1>. QED BY <1>6, <1>8, <1>9, <1>10, <1>11 DEF RInv, PathInv

LEMMA CancelKeeps ==
  ASSUME RInv, NEW g \in Calls, ReadError(g) \/ Cancel(g)
  PROVE  RInv'
<1>1. CASE ReadError(g)
  <2>1. "failed" \in Ended
    BY DEF Ended
  <2>2. /\ task[g] = "reading" /\ task' = [task EXCEPT ![g] = "failed"] /\ Close(g)
        /\ UNCHANGED <<setup, queue, got, client, handler, engine, wire>>
        /\ IF queue[g].err = "dead" THEN UNCHANGED <<states, toEngine>> ELSE AbortIds(Ids(g))
    BY <1>1 DEF ReadError, Engines
  <2>. QED BY <2>1, <2>2, LeaveKeeps
<1>2. CASE Cancel(g)
  <2>1. "gone" \in Ended
    BY DEF Ended
  <2>2. /\ task' = [task EXCEPT ![g] = "gone"] /\ Close(g)
        /\ UNCHANGED <<setup, queue, got, client, handler, engine, wire>>
        /\ \/ task[g] = "reading" /\ AbortIds(Ids(g))
           \/ task[g] \in Starting /\ UNCHANGED <<states, toEngine>>
    BY <1>2 DEF Cancel, Engines, Starting
  <2>. QED BY <2>1, <2>2, LeaveKeeps
<1>. QED BY <1>1, <1>2

-----------------------------------------------------------------------------
(* The engine.                                                             *)

\* The engine acts alone: the front end stays as it is.
FrontSame ==
  UNCHANGED <<setup, task, feeder, queue, got, states, client, handler>>

LEMMA EngineStep ==
  ASSUME RInv, FrontSame, wire' = wire, toEngine' \in Seq(Message), engine' \in Engine,
         Connected' => /\ Connected /\ OrderInv'
                       /\ \A id : Split(id) => Split(id)'
                       /\ \A id \in AllIds : RequestInv(id)'
  PROVE  RInv'
<1>1. Typed /\ FeederInv /\ WireInv /\ HandlerInv /\ CapInv /\ PathInv /\ setup' = setup
  BY DEF RInv, FrontSame
<1>. USE SameSetup
<1>2. Typed'
  BY <1>1 DEF Typed, FrontSame
<1>3. FeederInv' /\ HandlerInv'
  BY <1>1 DEF FeederInv, HandlerInv, FrontSame
<1>4. WireInv'
  BY <1>1, SameWire
<1>5. CapInv'
  BY <1>1, FewerStates DEF Typed, FrontSame
<1>6. Connected' => LastInv'
  BY <1>1, SameLast, SameOpen DEF FrontSame, PathInv
<1>. QED BY <1>1, <1>2, <1>3, <1>4, <1>5, <1>6 DEF RInv, PathInv

\* What such a step leaves alone of a request.
LEMMA FrontFacts ==
  ASSUME FrontSame
  PROVE  /\ setup' = setup
         /\ \A id : /\ Open(id)' <=> Open(id)
                    /\ id \in states' <=> id \in states
                    /\ id \in handler'.aborts <=> id \in handler.aborts
                    /\ feeder'[id[1]].on <=> feeder[id[1]].on
                    /\ InOutputs(id)' <=> InOutputs(id)
                    /\ InTodo(id)' <=> InTodo(id)
BY SameOpen DEF FrontSame, InOutputs, InTodo, Fin

LEMMA EngineFacts ==
  ASSUME engine \in Engine
  PROVE  /\ engine.inq \in Seq(Message) /\ engine.abq \in Seq(SUBSET AllIds)
         /\ engine.outq \in Seq(Answer) /\ engine.running \in Runs
         /\ engine.batch \in SUBSET AllIds /\ engine.refused \in SUBSET AllIds
BY DEF Engine

\* An answer that ends nobody, or one that ends request done.
LEMMA AfterAnswer ==
  ASSUME engine.outq \in Seq(Answer), NEW m \in Answer, FrontSame, wire' = wire,
         engine'.outq = Append(engine.outq, m)
  PROVE  \A id : Answered(id)' <=> Answered(id) \/ Fin(m, id)
<1>. TAKE id
<1>1. InOutq(id)' <=> InOutq(id) \/ Fin(m, id)
  <2>1. /\ DOMAIN engine'.outq = DOMAIN engine.outq \cup {Len(engine.outq) + 1}
        /\ \A k \in DOMAIN engine.outq : engine'.outq[k] = engine.outq[k]
        /\ engine'.outq[Len(engine.outq) + 1] = m
    BY AppendFacts
  <2>. QED BY <2>1 DEF InOutq, Fin
<1>2. OnWire(id)' <=> OnWire(id)
  BY DEF OnWire, Fin
<1>. QED BY <1>1, <1>2, FrontFacts, AnsweredIs, AnsweredIsNext

LEMMA InputThreadKeeps ==
  ASSUME RInv, InputThread
  PROVE  RInv'
<1>1. Typed /\ PathInv /\ engine \in Engine /\ toEngine \in Seq(Message)
  BY DEF RInv, Typed
<1>2. /\ engine.alive = "up" /\ toEngine # <<>> /\ toEngine' = Tail(toEngine)
      /\ engine' = [engine EXCEPT
           !.inq = Append(@, Head(toEngine)),
           !.abq = IF Head(toEngine).type = "ABORT" THEN Append(@, Head(toEngine).ids) ELSE @]
      /\ FrontSame /\ wire' = wire
  BY DEF InputThread, FrontSame
<1>. USE SameSetup, FrontFacts
<1>. DEFINE m == Head(toEngine)
<1>3. /\ m \in Message /\ Tail(toEngine) \in Seq(Message) /\ m = toEngine[1] /\ 1 \in DOMAIN toEngine
      /\ m.type = "ABORT" => m.ids \in SUBSET AllIds
  <2>1. m \in Message /\ Tail(toEngine) \in Seq(Message) /\ m = toEngine[1] /\ 1 \in DOMAIN toEngine
    BY <1>1, <1>2, TailFacts
  <2>. QED BY <2>1, MessageFacts
<1>. HIDE DEF m
<1>4. /\ engine'.inq = Append(engine.inq, m) /\ engine'.running = engine.running
      /\ engine'.abq = IF m.type = "ABORT" THEN Append(engine.abq, m.ids) ELSE engine.abq
      /\ engine'.outq = engine.outq /\ engine'.refused = engine.refused /\ engine'.alive = engine.alive
  BY <1>1, <1>2 DEF Engine, m
<1>5. /\ engine.inq \in Seq(Message) /\ engine.abq \in Seq(SUBSET AllIds)
      /\ engine'.inq \in Seq(Message) /\ engine'.abq \in Seq(SUBSET AllIds)
  BY <1>1, <1>3, <1>4, EngineFacts, AppendFacts
<1>6. engine' \in Engine
  BY <1>1, <1>2, <1>4, <1>5 DEF Engine
<1>7. ASSUME Connected'
      PROVE /\ Connected /\ OrderInv' /\ (\A id : Split(id) => Split(id)')
            /\ \A id \in AllIds : RequestInv(id)'
  <2>1. Connected /\ OrderInv /\ \A id \in AllIds : RequestInv(id)
    BY <1>1, <1>2, <1>4, <1>7 DEF PathInv, Connected, FrontSame
  <2>2. QueuesInOrder /\ \A id \in AllIds : RunsFinal(id) => ~AddSent(id)
    BY <2>1 DEF OrderInv, QueuesInOrder
  <2>3. Messages' = Messages /\ QueuesInOrder'
    BY <1>1, <1>2, <1>4, <1>5, <2>2, Moves DEF m
  <2>4. \A i : /\ AddSent(i)' <=> AddSent(i)
               /\ AbortSent(i)' <=> AbortSent(i)
               /\ FinalSent(i)' <=> FinalSent(i)
               /\ OnlyFinal(i)' <=> OnlyFinal(i)
    BY <2>3, SameMessages
  <2>5. \A i : (RunsOn(i)' <=> RunsOn(i)) /\ (RunsFinal(i)' <=> RunsFinal(i))
    BY <1>4, SameRunning
  <2>6. \A i : (Answered(i)' <=> Answered(i)) /\ (Split(i)' <=> Split(i))
    BY <1>2, <1>4, SameAnswers, SameSplit DEF FrontSame
  <2>7. OrderInv'
    BY <1>2, <2>2, <2>3, <2>4, <2>5 DEF OrderInv, QueuesInOrder
  <2>8. ASSUME NEW i, InAbortQueue(i)' PROVE InAbortQueue(i) \/ AbortSent(i)
    <3>1. CASE m.type = "ABORT"
      <4>1. /\ DOMAIN engine'.abq = DOMAIN engine.abq \cup {Len(engine.abq) + 1}
            /\ \A k \in DOMAIN engine.abq : engine'.abq[k] = engine.abq[k]
            /\ engine'.abq[Len(engine.abq) + 1] = m.ids
        BY <1>3, <1>4, <1>5, <3>1, AppendFacts
      <4>2. InAbortQueue(i) \/ i \in m.ids
        BY <2>8, <4>1 DEF InAbortQueue
      <4>3. m \in Messages
        BY <1>1, <1>3, <1>5, MessagesAre
      <4>. QED BY <3>1, <4>2, <4>3 DEF AbortSent, AbortOf
    <3>2. CASE m.type # "ABORT"
      BY <1>4, <2>8, <3>2 DEF InAbortQueue
    <3>. QED BY <3>1, <3>2
  <2>9. ASSUME NEW i \in AllIds PROVE RequestInv(i)'
    BY <1>2, <2>1, <2>4, <2>5, <2>6, <2>8
    DEF RequestInv, OpenInv, PlainInv, ServedInv, OrphanInv, AnswerInv, ForgottenInv
  <2>. QED BY <2>1, <2>6, <2>7, <2>9
<1>. QED BY <1>1, <1>2, <1>3, <1>6, <1>7, EngineStep

LEMMA PreprocessFailsKeeps ==
  ASSUME RInv, PreprocessFails
  PROVE  RInv'
<1>1. Typed /\ PathInv /\ engine \in Engine /\ toEngine \in Seq(Message) /\ setup \in Setups
  BY DEF RInv, Typed
<1>2. /\ engine.alive = "up" /\ toEngine # <<>> /\ toEngine' = Tail(toEngine)
      /\ Head(toEngine).type = "ADD"
      /\ engine' = [engine EXCEPT !.refused = @ \cup {Head(toEngine).id},
                                  !.outq = Append(@, Refusal(Head(toEngine).id))]
      /\ FrontSame /\ wire' = wire
  BY DEF PreprocessFails, FrontSame
<1>. USE SameSetup, FrontFacts
<1>0. PICK m \in Message : m = Head(toEngine)
  BY <1>1, <1>2, TailFacts
<1>3. Tail(toEngine) \in Seq(Message) /\ m = toEngine[1] /\ 1 \in DOMAIN toEngine
  BY <1>0, <1>1, <1>2, TailFacts
<1>. DEFINE id == m.id
<1>4. m.type = "ADD" /\ id \in AllIds /\ m.final \in BOOLEAN
  BY <1>0, <1>2, MessageFacts
<1>. HIDE DEF id
<1>5. Refusal(id) \in Answer /\ \A i : Fin(Refusal(id), i) <=> i = id
  <2>. DEFINE o == Output(id, 0, TRUE)
              r == Outputs(<<o>>)
  <2>1. o \in Out /\ o.id = id /\ o.fin = TRUE
    BY <1>4 DEF Output, Out
  <2>. HIDE DEF o
  <2>2. r.type = "outputs" /\ r.outs = <<o>> /\ r \in OutputsMessage
    BY <2>1 DEF Outputs, OutputsMessage
  <2>3. Refusal(id) = r
    BY DEF Refusal, o
  <2>. HIDE DEF r
  <2>4. \A i : Fin(r, i) <=> i = id
    BY <2>1, <2>2 DEF Fin
  <2>. QED BY <2>2, <2>3, <2>4 DEF Answer
<1>6. /\ engine'.inq = engine.inq /\ engine'.running = engine.running /\ engine'.abq = engine.abq
      /\ engine'.outq = Append(engine.outq, Refusal(id)) /\ engine'.alive = engine.alive
      /\ engine'.refused = engine.refused \cup {id}
  BY <1>0, <1>1, <1>2 DEF Engine, id
<1>7. /\ engine.inq \in Seq(Message) /\ engine.outq \in Seq(Answer)
      /\ engine'.outq \in Seq(Answer) /\ engine'.refused \in SUBSET AllIds
  BY <1>1, <1>4, <1>5, <1>6, EngineFacts, AppendFacts
<1>8. engine' \in Engine
  BY <1>1, <1>2, <1>6, <1>7 DEF Engine
<1>9. ASSUME Connected'
      PROVE /\ Connected /\ OrderInv' /\ (\A i : Split(i) => Split(i)')
            /\ \A i \in AllIds : RequestInv(i)'
  <2>1. Connected /\ OrderInv /\ \A i \in AllIds : RequestInv(i)
    BY <1>1, <1>2, <1>6, <1>9 DEF PathInv, Connected, FrontSame
  <2>2. QueuesInOrder /\ \A i \in AllIds : RunsFinal(i) => ~AddSent(i)
    BY <2>1 DEF OrderInv, QueuesInOrder
  <2>3. /\ Messages = Messages' \cup {m} /\ QueuesInOrder'
        /\ \A i \in AllIds : Closes(m, i) => \A j \in DOMAIN toEngine' : ~AddOf(toEngine'[j], i)
    BY <1>0, <1>1, <1>2, <1>6, <1>7, <2>2, Drops
  <2>4. \A i : ~AbortOf(m, i) /\ (AddOf(m, i) <=> i = id)
    BY <1>4 DEF AddOf, AbortOf, id
  <2>5. \A i : /\ AddSent(i)' => AddSent(i)
               /\ AbortSent(i)' <=> AbortSent(i)
               /\ FinalSent(i)' => FinalSent(i)
               /\ OnlyFinal(i) => OnlyFinal(i)'
               /\ i # id => /\ AddSent(i)' <=> AddSent(i)
                            /\ FinalSent(i)' <=> FinalSent(i)
                            /\ OnlyFinal(i)' <=> OnlyFinal(i)
    BY <2>3, <2>4 DEF AddSent, AbortSent, FinalSent, OnlyFinal, AddOf, AbortOf
  <2>6. \A i : /\ RunsOn(i)' <=> RunsOn(i)
               /\ RunsFinal(i)' <=> RunsFinal(i)
               /\ InAbortQueue(i)' <=> InAbortQueue(i)
    BY <1>6, SameRunning, SameAbortQueue
  <2>7. \A i : Answered(i)' <=> Answered(i) \/ i = id
    BY <1>2, <1>5, <1>6, <1>7, AfterAnswer
  <2>8. \A i : (Split(i) => Split(i)') /\ (i # id => (Split(i)' <=> Split(i)))
    BY <1>2, <1>6 DEF Split
  <2>9. OrderInv'
    BY <1>2, <2>2, <2>3, <2>5, <2>6 DEF OrderInv, QueuesInOrder
  <2>10. ASSUME NEW i \in AllIds, i # id PROVE RequestInv(i)'
    BY <1>2, <2>1, <2>5, <2>6, <2>7, <2>8, <2>10, SameRequest
  <2>11. RequestInv(id)
    BY <1>4, <2>1
  <2>12. CASE Streams(id[1])
    <3>1. Split(id)'
      BY <1>2, <1>6, <2>12 DEF Split
    <3>2. RequestInv(id)'
      BY <1>2, <2>5, <2>6, <2>11, <2>12, <3>1
      DEF RequestInv, OpenInv, PlainInv, ServedInv, OrphanInv, AnswerInv, ForgottenInv
    <3>. QED BY <2>1, <2>8, <2>9, <2>10, <3>2
  <2>13. CASE ~Streams(id[1])
    <3>1. m \in Messages /\ AddOf(m, id) /\ OnlyFinal(id)
      BY <1>4, <2>3, <2>4, <2>11, <2>13 DEF RequestInv, PlainInv
    <3>2. m.final /\ FinalSent(id) /\ AddSent(id) /\ Closes(m, id)
      BY <3>1 DEF OnlyFinal, FinalSent, AddSent, Closes
    <3>3. ~RunsOn(id)
      BY <1>4, <2>2, <2>11, <2>13, <3>2 DEF RequestInv, PlainInv
    <3>4. ~Open(id)
      BY <2>11, <3>2 DEF RequestInv, OpenInv
    <3>5. ~AddSent(id)'
      <4>1. \A j \in DOMAIN toEngine' : ~AddOf(toEngine'[j], id)
        BY <1>4, <2>3, <3>2
      <4>2. \A j \in DOMAIN engine.inq : ~AddOf(engine.inq[j], id)
        <5>1. SUFFICES ASSUME NEW j \in DOMAIN engine.inq, AddOf(engine.inq[j], id) PROVE FALSE
          OBVIOUS
        <5>2. engine.inq[j] \in Messages
          BY <1>1, <1>7, MessagesAre
        <5>3. Closes(engine.inq[j], id)
          BY <3>1, <5>1, <5>2 DEF OnlyFinal, Closes
        <5>. QED BY <1>3, <1>4, <2>2, <3>1, <5>3 DEF QueuesInOrder
      <4>3. \A x \in Messages' : ~AddOf(x, id)
        BY <1>6, <4>1, <4>2 DEF Messages, ToSet
      <4>. QED BY <4>3 DEF AddSent, AddOf
    <3>6. RequestInv(id)'
      BY <1>2, <2>5, <2>6, <2>7, <2>11, <2>13, <3>3, <3>4, <3>5
      DEF RequestInv, OpenInv, PlainInv, ServedInv, OrphanInv, AnswerInv, ForgottenInv
    <3>. QED BY <2>1, <2>8, <2>9, <2>10, <3>6
  <2>. QED BY <2>12, <2>13
<1>. QED BY <1>1, <1>2, <1>3, <1>8, <1>9, EngineStep

\* The scheduler's requests.
LEMMA RunsFacts ==
  ASSUME NEW r \in Runs
  PROVE  DOMAIN r \in SUBSET AllIds /\ r \in [DOMAIN r -> Work]
BY DEF Runs

LEMMA TakenFacts ==
  ASSUME NEW r \in Runs, NEW m \in Message, m.type = "ADD"
  PROVE  /\ Taken(r, m) \in Runs
         /\ DOMAIN Taken(r, m) = DOMAIN r \cup {m.id}
         /\ \A i \in DOMAIN r : i # m.id => Taken(r, m)[i] = r[i]
         /\ Taken(r, m)[m.id].final = m.final
<1>. DEFINE id == m.id
            old == IF id \in DOMAIN r THEN r[id]
                   ELSE [inputs |-> IF m.input THEN 0 ELSE 1, made |-> 0, final |-> FALSE]
            new == [old EXCEPT !.inputs = IF m.input THEN @ + 1 ELSE @, !.final = m.final]
            f == [i \in DOMAIN r \cup {id} |-> IF i = id THEN new ELSE r[i]]
<1>1. DOMAIN r \in SUBSET AllIds /\ r \in [DOMAIN r -> Work]
  BY RunsFacts
<1>2. id \in AllIds /\ m.input \in BOOLEAN /\ m.final \in BOOLEAN
  BY MessageFacts
<1>3. Taken(r, m) = f
  BY DEF Taken
<1>. HIDE DEF id
<1>4. old \in Work
  <2>1. CASE id \in DOMAIN r
    BY <1>1, <2>1
  <2>2. CASE id \notin DOMAIN r
    BY <2>2 DEF Work
  <2>. QED BY <2>1, <2>2
<1>. HIDE DEF old
<1>5. new \in Work /\ new.final = m.final
  <2>. DEFINE n == IF m.input THEN old.inputs + 1 ELSE old.inputs
  <2>1. n \in Nat
    BY <1>4 DEF Work
  <2>2. new = [old EXCEPT !.inputs = n, !.final = m.final]
    BY <1>4 DEF Work
  <2>. HIDE DEF n, new
  <2>. QED BY <1>2, <1>4, <2>1, <2>2 DEF Work
<1>. HIDE DEF new
<1>6. f \in [DOMAIN r \cup {id} -> Work]
  BY <1>1, <1>5
<1>7. f \in Runs
  <2>1. DOMAIN r \cup {id} \in SUBSET AllIds
    BY <1>1, <1>2
  <2>. HIDE DEF f
  <2>. QED BY <1>6, <2>1 DEF Runs
<1>8. DOMAIN f = DOMAIN r \cup {id} /\ f[id] = new /\ \A i \in DOMAIN r : i # id => f[i] = r[i]
  OBVIOUS
<1>. QED BY <1>3, <1>5, <1>7, <1>8 DEF id

LEMMA WithoutFacts ==
  ASSUME NEW r \in Runs, NEW ids
  PROVE  /\ Without(r, ids) \in Runs
         /\ DOMAIN Without(r, ids) = DOMAIN r \ ids
         /\ \A i \in DOMAIN r \ ids : Without(r, ids)[i] = r[i]
<1>1. DOMAIN r \in SUBSET AllIds /\ r \in [DOMAIN r -> Work]
  BY RunsFacts
<1>2. [i \in DOMAIN r \ ids |-> r[i]] \in [DOMAIN r \ ids -> Work] /\ DOMAIN r \ ids \in SUBSET AllIds
  BY <1>1
<1>3. [i \in DOMAIN r \ ids |-> r[i]] \in Runs
  BY <1>2 DEF Runs
<1>. QED BY <1>3 DEF Without

\* The main loop takes an input.
LEMMA HandleAddKeeps ==
  ASSUME RInv, HandleInput, Head(engine.inq).type = "ADD"
  PROVE  RInv'
<1>1. Typed /\ PathInv /\ engine \in Engine /\ toEngine \in Seq(Message) /\ setup \in Setups
  BY DEF RInv, Typed
<1>2. /\ engine.alive = "up" /\ engine.inq # <<>>
      /\ engine' = [Handled(Head(engine.inq)) EXCEPT !.inq = Tail(@)]
      /\ FrontSame /\ wire' = wire /\ toEngine' = toEngine
  BY DEF HandleInput, FrontSame
<1>. USE SameSetup, FrontFacts
<1>3. engine.inq \in Seq(Message) /\ engine.running \in Runs
  BY <1>1, EngineFacts
<1>4. PICK m \in Message : m = Head(engine.inq) /\ m.type = "ADD"
  BY <1>2, <1>3, TailFacts
<1>. DEFINE id == m.id
<1>5. id \in AllIds /\ m.final \in BOOLEAN
  BY <1>4, MessageFacts
<1>. HIDE DEF id
<1>6. /\ engine'.inq = Tail(engine.inq) /\ engine'.running = Taken(engine.running, m)
      /\ engine'.abq = engine.abq /\ engine'.outq = engine.outq
      /\ engine'.refused = engine.refused /\ engine'.alive = engine.alive /\ engine'.batch = engine.batch
      /\ engine' = [engine EXCEPT !.running = Taken(@, m), !.inq = Tail(@)]
  <2>1. Handled(m) = [engine EXCEPT !.running = Taken(@, m)]
    BY <1>4 DEF Handled
  <2>. QED BY <1>1, <1>2, <1>4, <2>1 DEF Engine
<1>7. /\ Taken(engine.running, m) \in Runs
      /\ DOMAIN engine'.running = DOMAIN engine.running \cup {id}
      /\ \A i \in DOMAIN engine.running : i # id => engine'.running[i] = engine.running[i]
      /\ engine'.running[id].final = m.final
  <2>. DEFINE r == Taken(engine.running, m)
  <2>1. /\ r \in Runs /\ DOMAIN r = DOMAIN engine.running \cup {m.id}
        /\ \A i \in DOMAIN engine.running : i # m.id => r[i] = engine.running[i]
        /\ r[m.id].final = m.final
    BY <1>3, <1>4, TakenFacts
  <2>. HIDE DEF r
  <2>2. engine'.running = r
    BY <1>6 DEF r
  <2>. QED BY <2>1, <2>2 DEF id, r
<1>8. engine' \in Engine
  <2>1. Tail(engine.inq) \in Seq(Message)
    BY <1>2, <1>3, TailFacts
  <2>. QED BY <1>1, <1>6, <1>7, <2>1 DEF Engine
<1>9. ASSUME Connected'
      PROVE /\ Connected /\ OrderInv' /\ (\A i : Split(i) => Split(i)')
            /\ \A i \in AllIds : RequestInv(i)'
  <2>1. Connected /\ OrderInv /\ \A i \in AllIds : RequestInv(i)
    BY <1>1, <1>2, <1>6, <1>9 DEF PathInv, Connected, FrontSame
  <2>2. QueuesInOrder /\ \A i \in AllIds : RunsFinal(i) => ~AddSent(i)
    BY <2>1 DEF OrderInv, QueuesInOrder
  <2>3. /\ Messages = Messages' \cup {m} /\ QueuesInOrder'
        /\ \A i \in AllIds : Closes(m, i) => ~AddSent(i)'
    BY <1>1, <1>2, <1>3, <1>4, <1>6, <2>2, Handles
  <2>4. \A i : ~AbortOf(m, i) /\ (AddOf(m, i) <=> i = id)
    BY <1>4 DEF AddOf, AbortOf, id
  <2>5. \A i : /\ AddSent(i)' => AddSent(i)
               /\ AbortSent(i)' <=> AbortSent(i)
               /\ FinalSent(i)' => FinalSent(i)
               /\ FinalSent(i) => FinalSent(i)' \/ (i = id /\ m.final)
               /\ OnlyFinal(i) => OnlyFinal(i)'
               /\ i # id => /\ AddSent(i)' <=> AddSent(i)
                            /\ FinalSent(i)' <=> FinalSent(i)
                            /\ OnlyFinal(i)' <=> OnlyFinal(i)
    BY <2>3, <2>4 DEF AddSent, AbortSent, FinalSent, OnlyFinal, AddOf, AbortOf
  <2>6. /\ \A i : i # id => (RunsOn(i)' <=> RunsOn(i)) /\ (RunsFinal(i)' <=> RunsFinal(i))
        /\ RunsOn(id)' /\ (RunsFinal(id)' <=> m.final)
    BY <1>7 DEF RunsOn, RunsFinal
  <2>7. \A i : /\ InAbortQueue(i)' <=> InAbortQueue(i)
               /\ Answered(i)' <=> Answered(i)
               /\ Split(i)' <=> Split(i)
    BY <1>2, <1>6, SameAbortQueue, SameAnswers, SameSplit DEF FrontSame
  <2>8. AddSent(id) /\ (m.final => FinalSent(id) /\ ~AddSent(id)') /\ (OnlyFinal(id) => m.final)
    BY <1>5, <2>3, <2>4 DEF AddSent, FinalSent, Closes, OnlyFinal
  <2>9. OrderInv'
    BY <1>2, <2>2, <2>3, <2>5, <2>6, <2>8 DEF OrderInv, QueuesInOrder
  <2>10. ASSUME NEW i \in AllIds, i # id PROVE RequestInv(i)'
    BY <1>2, <2>1, <2>5, <2>6, <2>7, <2>10, SameRequest
  <2>11. RequestInv(id)'
    <3>1. RequestInv(id) /\ ~RunsFinal(id)
      BY <1>5, <2>1, <2>2, <2>8
    <3>. QED BY <1>2, <2>5, <2>6, <2>7, <2>8, <3>1
         DEF RequestInv, OpenInv, PlainInv, ServedInv, OrphanInv, AnswerInv, ForgottenInv
  <2>. QED BY <2>1, <2>7, <2>9, <2>10, <2>11
<1>. QED BY <1>1, <1>2, <1>8, <1>9, EngineStep

LEMMA HandleAbortKeeps ==
  ASSUME RInv, HandleInput, Head(engine.inq).type = "ABORT"
  PROVE  RInv'
<1>1. Typed /\ PathInv /\ engine \in Engine /\ toEngine \in Seq(Message) /\ setup \in Setups
  BY DEF RInv, Typed
<1>2. /\ engine.alive = "up" /\ engine.inq # <<>>
      /\ engine' = [Handled(Head(engine.inq)) EXCEPT !.inq = Tail(@)]
      /\ FrontSame /\ wire' = wire /\ toEngine' = toEngine
  BY DEF HandleInput, FrontSame
<1>. USE SameSetup, FrontFacts
<1>3. engine.inq \in Seq(Message) /\ engine.running \in Runs
  BY <1>1, EngineFacts
<1>4. PICK m \in Message : m = Head(engine.inq) /\ m.type = "ABORT"
  BY <1>2, <1>3, TailFacts
<1>5. /\ engine'.inq = Tail(engine.inq) /\ engine'.running = Without(engine.running, m.ids)
      /\ engine'.abq = engine.abq /\ engine'.outq = engine.outq
      /\ engine'.refused = engine.refused /\ engine'.alive = engine.alive
      /\ engine' = [engine EXCEPT !.running = Without(@, m.ids), !.inq = Tail(@)]
  <2>1. Handled(m) = [engine EXCEPT !.running = Without(@, m.ids)]
    BY <1>4 DEF Handled
  <2>. QED BY <1>1, <1>2, <1>4, <2>1 DEF Engine
<1>6. /\ Without(engine.running, m.ids) \in Runs
      /\ DOMAIN engine'.running = DOMAIN engine.running \ m.ids
      /\ \A i \in DOMAIN engine.running \ m.ids : engine'.running[i] = engine.running[i]
  <2>. DEFINE r == Without(engine.running, m.ids)
  <2>1. /\ r \in Runs /\ DOMAIN r = DOMAIN engine.running \ m.ids
        /\ \A i \in DOMAIN engine.running \ m.ids : r[i] = engine.running[i]
    BY <1>3, WithoutFacts
  <2>2. engine'.running = r
    BY <1>5
  <2>. HIDE DEF r
  <2>. QED BY <2>1, <2>2 DEF r
<1>7. engine' \in Engine
  <2>1. Tail(engine.inq) \in Seq(Message)
    BY <1>2, <1>3, TailFacts
  <2>. QED BY <1>1, <1>5, <1>6, <2>1 DEF Engine
<1>8. ASSUME Connected'
      PROVE /\ Connected /\ OrderInv' /\ (\A i : Split(i) => Split(i)')
            /\ \A i \in AllIds : RequestInv(i)'
  <2>1. Connected /\ OrderInv /\ \A i \in AllIds : RequestInv(i)
    BY <1>1, <1>2, <1>5, <1>8 DEF PathInv, Connected, FrontSame
  <2>2. QueuesInOrder /\ \A i \in AllIds : RunsFinal(i) => ~AddSent(i)
    BY <2>1 DEF OrderInv, QueuesInOrder
  <2>3. /\ Messages = Messages' \cup {m} /\ QueuesInOrder'
        /\ \A i \in AllIds : Closes(m, i) => ~AddSent(i)'
    BY <1>1, <1>2, <1>3, <1>4, <1>5, <2>2, Handles
  <2>4. \A i : ~AddOf(m, i) /\ (AbortOf(m, i) <=> i \in m.ids)
    BY <1>4 DEF AddOf, AbortOf
  <2>5. \A i : /\ AddSent(i)' <=> AddSent(i)
               /\ AbortSent(i)' => AbortSent(i)
               /\ AbortSent(i) <=> AbortSent(i)' \/ i \in m.ids
               /\ FinalSent(i)' <=> FinalSent(i)
               /\ OnlyFinal(i)' <=> OnlyFinal(i)
    BY <2>3, <2>4 DEF AddSent, AbortSent, FinalSent, OnlyFinal, AddOf, AbortOf
  <2>6. \A i : /\ RunsOn(i)' <=> RunsOn(i) /\ i \notin m.ids
               /\ RunsFinal(i)' <=> RunsFinal(i) /\ i \notin m.ids
    BY <1>6 DEF RunsOn, RunsFinal
  <2>7. \A i : /\ InAbortQueue(i)' <=> InAbortQueue(i)
               /\ Answered(i)' <=> Answered(i)
               /\ Split(i)' <=> Split(i)
    BY <1>2, <1>5, SameAbortQueue, SameAnswers, SameSplit DEF FrontSame
  <2>8. OrderInv'
    BY <1>2, <2>2, <2>3, <2>5, <2>6 DEF OrderInv, QueuesInOrder
  <2>9. ASSUME NEW i \in AllIds PROVE RequestInv(i)'
    <3>1. RequestInv(i) /\ (i \in m.ids => ~AddSent(i)')
      BY <2>1, <2>3, <2>4 DEF Closes
    <3>. QED BY <1>2, <2>5, <2>6, <2>7, <3>1
         DEF RequestInv, OpenInv, PlainInv, ServedInv, OrphanInv, AnswerInv, ForgottenInv
  <2>. QED BY <2>1, <2>7, <2>8, <2>9
<1>. QED BY <1>1, <1>2, <1>7, <1>8, EngineStep

LEMMA HandleUtilityKeeps ==
  ASSUME RInv, HandleInput, Head(engine.inq).type = "UTILITY"
  PROVE  RInv'
<1>1. Typed /\ PathInv /\ engine \in Engine /\ toEngine \in Seq(Message) /\ setup \in Setups
  BY DEF RInv, Typed
<1>2. /\ engine.alive = "up" /\ engine.inq # <<>>
      /\ engine' = [Handled(Head(engine.inq)) EXCEPT !.inq = Tail(@)]
      /\ FrontSame /\ wire' = wire /\ toEngine' = toEngine
  BY DEF HandleInput, FrontSame
<1>. USE SameSetup, FrontFacts
<1>3. engine.inq \in Seq(Message) /\ engine.outq \in Seq(Answer)
  BY <1>1, EngineFacts
<1>4. PICK m \in Message : m = Head(engine.inq) /\ m.type = "UTILITY"
  BY <1>2, <1>3, TailFacts
<1>5. m \in Answer
  BY <1>4, MessageFacts
<1>6. /\ engine'.inq = Tail(engine.inq) /\ engine'.running = engine.running
      /\ engine'.abq = engine.abq /\ engine'.outq = Append(engine.outq, m)
      /\ engine'.refused = engine.refused /\ engine'.alive = engine.alive
      /\ engine' = [engine EXCEPT !.outq = Append(@, m), !.inq = Tail(@)]
  <2>1. Handled(m) = [engine EXCEPT !.outq = Append(@, m)]
    BY <1>4 DEF Handled
  <2>. QED BY <1>1, <1>2, <1>4, <2>1 DEF Engine
<1>7. engine' \in Engine
  <2>1. Tail(engine.inq) \in Seq(Message) /\ Append(engine.outq, m) \in Seq(Answer)
    BY <1>2, <1>3, <1>5, TailFacts, AppendFacts
  <2>. QED BY <1>1, <1>6, <2>1 DEF Engine
<1>8. ASSUME Connected'
      PROVE /\ Connected /\ OrderInv' /\ (\A i : Split(i) => Split(i)')
            /\ \A i \in AllIds : RequestInv(i)'
  <2>1. Connected /\ OrderInv /\ \A i \in AllIds : RequestInv(i)
    BY <1>1, <1>2, <1>6, <1>8 DEF PathInv, Connected, FrontSame
  <2>2. QueuesInOrder /\ \A i \in AllIds : RunsFinal(i) => ~AddSent(i)
    BY <2>1 DEF OrderInv, QueuesInOrder
  <2>3. Messages = Messages' \cup {m} /\ QueuesInOrder'
    BY <1>1, <1>2, <1>3, <1>4, <1>6, <2>2, Handles
  <2>4. \A i : ~AddOf(m, i) /\ ~AbortOf(m, i) /\ ~Fin(m, i)
    BY <1>4 DEF AddOf, AbortOf, Fin
  <2>5. \A i : /\ AddSent(i)' <=> AddSent(i)
               /\ AbortSent(i)' <=> AbortSent(i)
               /\ FinalSent(i)' <=> FinalSent(i)
               /\ OnlyFinal(i)' <=> OnlyFinal(i)
    BY <2>3, <2>4 DEF AddSent, AbortSent, FinalSent, OnlyFinal, AddOf, AbortOf
  <2>6. \A i : /\ RunsOn(i)' <=> RunsOn(i)
               /\ RunsFinal(i)' <=> RunsFinal(i)
               /\ InAbortQueue(i)' <=> InAbortQueue(i)
               /\ Split(i)' <=> Split(i)
    BY <1>2, <1>6, SameAbortQueue, SameRunning, SameSplit
  <2>7. \A i : Answered(i)' <=> Answered(i)
    BY <1>2, <1>3, <1>5, <1>6, <2>4, AfterAnswer
  <2>8. OrderInv'
    BY <1>2, <2>2, <2>3, <2>5, <2>6 DEF OrderInv, QueuesInOrder
  <2>9. ASSUME NEW i \in AllIds PROVE RequestInv(i)'
    BY <1>2, <2>1, <2>5, <2>6, <2>7, SameRequest
  <2>. QED BY <2>1, <2>6, <2>8, <2>9
<1>. QED BY <1>1, <1>2, <1>7, <1>8, EngineStep

LEMMA HandleInputKeeps ==
  ASSUME RInv, HandleInput
  PROVE  RInv'
<1>1. engine.inq \in Seq(Message) /\ engine.inq # <<>>
  BY EngineFacts DEF RInv, Typed, HandleInput
<1>2. Head(engine.inq).type \in {"ADD", "ABORT", "UTILITY"}
  BY <1>1, TailFacts, MessageFacts
<1>. QED BY <1>2, HandleAddKeeps, HandleAbortKeeps, HandleUtilityKeeps

\* The members of a finite set, in some order.
LEMMA SetToSeqFacts ==
  ASSUME NEW S, IsFiniteSet(S)
  PROVE  /\ SetToSeq(S) \in Seq(S)
         /\ \A x \in S : \E k \in DOMAIN SetToSeq(S) : SetToSeq(S)[k] = x
<1>. DEFINE n == Cardinality(S)
            f == SetToSeq(S)
<1>1. n \in Nat /\ ExistsBijection(1..n, S)
  BY FS_CardinalityType
<1>2. \E h \in [1..n -> S] : IsInjective(h)
  BY <1>1 DEF ExistsBijection, Bijection, Injection, IsInjective
<1>3. f \in [1..n -> S] /\ IsInjective(f)
  BY <1>2 DEF SetToSeq
<1>. HIDE DEF f
<1>4. f \in Injection(1..n, S)
  BY <1>3 DEF Injection, IsInjective
<1>5. Cardinality(1..n) = n
  <2>1. 1 \in Int /\ n \in Int /\ (IF 1 > n THEN 0 ELSE n - 1 + 1) = n
    BY <1>1
  <2>. HIDE DEF n
  <2>. QED BY <2>1, FS_Interval
<1>6. f \in Surjection(1..n, S)
  <2>1. Cardinality(1..n) = Cardinality(S) <=> f \in Surjection(1..n, S)
    <3>. HIDE DEF n
    <3>. QED BY <1>4, FS_Injection
  <2>. QED BY <1>5, <2>1
<1>7. \A x \in S : \E k \in 1..n : f[k] = x
  BY <1>6 DEF Surjection
<1>. HIDE DEF n
<1>8. f \in Seq(S) /\ DOMAIN f = 1..n
  BY <1>1, <1>3
<1>. QED BY <1>7, <1>8 DEF f

\* A step of the engine: which requests it works on decides nothing yet.
LEMMA StepBeginKeeps ==
  ASSUME RInv, StepBegin
  PROVE  RInv'
<1>1. Typed /\ PathInv /\ engine \in Engine /\ toEngine \in Seq(Message) /\ setup \in Setups
  BY DEF RInv, Typed
<1>2. /\ engine' = [engine EXCEPT !.batch = Schedulable]
      /\ FrontSame /\ wire' = wire /\ toEngine' = toEngine
  BY DEF StepBegin, FrontSame
<1>. USE SameSetup, FrontFacts
<1>3. Schedulable \in SUBSET AllIds
  <2>1. DOMAIN engine.running \in SUBSET AllIds
    BY <1>1, EngineFacts, RunsFacts
  <2>. QED BY <2>1 DEF Schedulable
<1>4. /\ engine'.inq = engine.inq /\ engine'.running = engine.running /\ engine'.abq = engine.abq
      /\ engine'.outq = engine.outq /\ engine'.refused = engine.refused /\ engine'.alive = engine.alive
  BY <1>1, <1>2 DEF Engine
<1>5. engine' \in Engine
  BY <1>1, <1>2, <1>3 DEF Engine
<1>6. ASSUME Connected'
      PROVE /\ Connected /\ OrderInv' /\ (\A i : Split(i) => Split(i)')
            /\ \A i \in AllIds : RequestInv(i)'
  <2>1. Connected /\ OrderInv /\ \A i \in AllIds : RequestInv(i)
    BY <1>1, <1>2, <1>4, <1>6 DEF PathInv, Connected, FrontSame
  <2>2. OrderInv' /\ Messages' = Messages
    BY <1>2, <1>4, <2>1, SameOrder
  <2>3. \A i : /\ AddSent(i)' <=> AddSent(i)
               /\ AbortSent(i)' <=> AbortSent(i)
               /\ FinalSent(i)' <=> FinalSent(i)
               /\ OnlyFinal(i)' <=> OnlyFinal(i)
    BY <2>2, SameMessages
  <2>4. \A i : /\ RunsOn(i)' <=> RunsOn(i)
               /\ RunsFinal(i)' <=> RunsFinal(i)
               /\ InAbortQueue(i)' <=> InAbortQueue(i)
               /\ Answered(i)' <=> Answered(i)
               /\ Split(i)' <=> Split(i)
    BY <1>2, <1>4, SameRunning, SameAbortQueue, SameAnswers, SameSplit DEF FrontSame
  <2>5. ASSUME NEW i \in AllIds PROVE RequestInv(i)'
    BY <1>2, <2>1, <2>3, <2>4, SameRequest
  <2>. QED BY <2>1, <2>2, <2>4, <2>5
<1>. QED BY <1>1, <1>2, <1>5, <1>6, EngineStep

\* The outputs of a step.
Left == Without(engine.running, Aborted)
Batch == engine.batch \cap DOMAIN Left
Produced == {Output(id, TokenOf(Left[id]), Finishes(Left[id])) : id \in Batch}
Finished == {id \in Batch : Finishes(Left[id])}
Moved ==
  [id \in DOMAIN Left |->
     IF id \in Batch THEN [Left[id] EXCEPT !.made = Made(Left[id])] ELSE Left[id]]

LEMMA WorkFacts ==
  ASSUME setup \in Setups, NEW w \in Work
  PROVE  /\ Made(w) \in Nat /\ TokenOf(w) \in Nat /\ Finishes(w) \in BOOLEAN
         /\ (Finishes(w) => w.final)
         /\ [w EXCEPT !.made = Made(w)] \in Work /\ [w EXCEPT !.made = Made(w)].final = w.final
<1>1. w.inputs \in Nat /\ w.made \in Nat /\ w.final \in BOOLEAN /\ setup.tokens \in Nat
  BY SetupFacts DEF Work
<1>2. Made(w) \in Nat /\ TokenOf(w) \in Nat
  BY <1>1 DEF Made, TokenOf
<1>3. Finishes(w) \in BOOLEAN /\ (Finishes(w) => w.final)
  BY <1>1 DEF Finishes
<1>4. [w EXCEPT !.made = Made(w)] \in Work /\ [w EXCEPT !.made = Made(w)].final = w.final
  BY <1>2 DEF Work
<1>. QED BY <1>2, <1>3, <1>4

LEMMA StepFacts ==
  ASSUME setup \in Setups, engine \in Engine
  PROVE  /\ Left \in Runs /\ Without(Moved, Finished) \in Runs
         /\ SetToSeq(Produced) \in Seq(Out)
         /\ \A i : i \in DOMAIN Left <=> RunsOn(i) /\ ~InAbortQueue(i)
         /\ \A i : i \in DOMAIN Without(Moved, Finished) <=> i \in DOMAIN Left /\ i \notin Finished
         /\ \A i \in DOMAIN Without(Moved, Finished) :
              Without(Moved, Finished)[i].final = engine.running[i].final
         /\ \A i \in Finished : i \in AllIds /\ i \in DOMAIN Left /\ RunsFinal(i)
         /\ \A i : (\E k \in DOMAIN SetToSeq(Produced) :
                       SetToSeq(Produced)[k].id = i /\ SetToSeq(Produced)[k].fin) <=> i \in Finished
<1>1. engine.running \in Runs /\ engine.batch \in SUBSET AllIds /\ engine.abq \in Seq(SUBSET AllIds)
  BY EngineFacts
<1>2. /\ Left \in Runs /\ DOMAIN Left = DOMAIN engine.running \ Aborted
      /\ \A i \in DOMAIN Left : Left[i] = engine.running[i]
  <2>1. /\ Left \in Runs /\ DOMAIN Left = DOMAIN engine.running \ Aborted
        /\ \A i \in DOMAIN engine.running \ Aborted : Left[i] = engine.running[i]
    BY <1>1, WithoutFacts DEF Left
  <2>. QED BY <2>1
<1>3. \A i : i \in Aborted <=> InAbortQueue(i)
  BY DEF Aborted, InAbortQueue, ToSet
<1>4. DOMAIN Left \in SUBSET AllIds /\ Left \in [DOMAIN Left -> Work]
  BY <1>2, RunsFacts
<1>5. \A i \in DOMAIN Left :
        /\ TokenOf(Left[i]) \in Nat /\ Finishes(Left[i]) \in BOOLEAN
        /\ (Finishes(Left[i]) => Left[i].final)
        /\ [Left[i] EXCEPT !.made = Made(Left[i])] \in Work
        /\ [Left[i] EXCEPT !.made = Made(Left[i])].final = Left[i].final
  BY <1>4, WorkFacts
<1>6. /\ DOMAIN Moved = DOMAIN Left /\ Moved \in [DOMAIN Left -> Work]
      /\ \A i \in DOMAIN Left : Moved[i].final = Left[i].final
  BY <1>4, <1>5 DEF Moved
<1>7. Moved \in Runs
  BY <1>4, <1>6 DEF Runs
<1>8. /\ Without(Moved, Finished) \in Runs
      /\ DOMAIN Without(Moved, Finished) = DOMAIN Left \ Finished
      /\ \A i \in DOMAIN Left \ Finished : Without(Moved, Finished)[i] = Moved[i]
  <2>1. /\ Without(Moved, Finished) \in Runs
        /\ DOMAIN Without(Moved, Finished) = DOMAIN Moved \ Finished
        /\ \A i \in DOMAIN Moved \ Finished : Without(Moved, Finished)[i] = Moved[i]
    BY <1>7, WithoutFacts
  <2>. QED BY <1>6, <2>1
<1>9. Produced \in SUBSET Out
  <2>1. ASSUME NEW id \in Batch PROVE Output(id, TokenOf(Left[id]), Finishes(Left[id])) \in Out
    <3>1. id \in AllIds /\ TokenOf(Left[id]) \in Nat /\ Finishes(Left[id]) \in BOOLEAN
      BY <1>4, <1>5 DEF Batch
    <3>. QED BY <3>1 DEF Output, Out
  <2>. QED BY <2>1 DEF Produced
<1>10. IsFiniteSet(Produced)
  <2>1. IsFiniteSet(Batch)
    BY <1>1, IdsFinite, FS_Subset DEF Batch
  <2>. DEFINE p == [id \in Batch |-> Output(id, TokenOf(Left[id]), Finishes(Left[id]))]
  <2>2. p \in Surjection(Batch, Produced)
    BY DEF Produced, Surjection
  <2>. HIDE DEF p
  <2>. QED BY <2>1, <2>2, FS_Surjection
<1>. DEFINE s == SetToSeq(Produced)
<1>11. s \in Seq(Produced) /\ \A x \in Produced : \E k \in DOMAIN s : s[k] = x
  BY <1>10, SetToSeqFacts
<1>. HIDE DEF s
<1>12. \A k \in DOMAIN s : s[k] \in Produced
  BY <1>11
<1>13. s \in Seq(Out)
  <2>1. Len(s) \in Nat /\ DOMAIN s = 1..Len(s) /\ s \in [1..Len(s) -> Produced]
    BY <1>11
  <2>2. s \in [1..Len(s) -> Out]
    BY <1>9, <2>1
  <2>. QED BY <2>1, <2>2
<1>14. \A i \in Finished : i \in AllIds /\ i \in DOMAIN Left /\ RunsFinal(i)
  BY <1>2, <1>4, <1>5 DEF Finished, Batch, RunsFinal
<1>15. ASSUME NEW i PROVE (\E k \in DOMAIN s : s[k].id = i /\ s[k].fin) <=> i \in Finished
  <2>1. ASSUME NEW k \in DOMAIN s, s[k].id = i, s[k].fin PROVE i \in Finished
    <3>1. PICK j \in Batch : s[k] = Output(j, TokenOf(Left[j]), Finishes(Left[j]))
      BY <1>12 DEF Produced
    <3>2. j = i /\ Finishes(Left[i])
      BY <2>1, <3>1 DEF Output
    <3>. QED BY <3>1, <3>2 DEF Finished
  <2>2. ASSUME i \in Finished PROVE \E k \in DOMAIN s : s[k].id = i /\ s[k].fin
    <3>. DEFINE o == Output(i, TokenOf(Left[i]), Finishes(Left[i]))
    <3>1. o \in Produced /\ o.id = i /\ o.fin
      BY <2>2 DEF Finished, Produced, Output
    <3>. HIDE DEF o
    <3>. QED BY <1>11, <3>1
  <2>. QED BY <2>1, <2>2
<1>16. \A i : i \in DOMAIN Left <=> RunsOn(i) /\ ~InAbortQueue(i)
  BY <1>2, <1>3 DEF RunsOn
<1>17. \A i \in DOMAIN Without(Moved, Finished) :
         Without(Moved, Finished)[i].final = engine.running[i].final
  BY <1>2, <1>6, <1>8
<1>. QED BY <1>2, <1>8, <1>13, <1>14, <1>15, <1>16, <1>17 DEF s

LEMMA StepEndKeeps ==
  ASSUME RInv, StepEnd
  PROVE  RInv'
<1>1. Typed /\ PathInv /\ engine \in Engine /\ toEngine \in Seq(Message) /\ setup \in Setups
  BY DEF RInv, Typed
<1>. DEFINE s == SetToSeq(Produced)
            r == Without(Moved, Finished)
<1>2. /\ engine' = [engine EXCEPT !.abq = <<>>, !.batch = {}, !.running = r,
                                  !.outq = IF s = <<>> THEN @ ELSE Append(@, Outputs(s))]
      /\ FrontSame /\ wire' = wire /\ toEngine' = toEngine
  BY DEF StepEnd, FrontSame, Left, Batch, Produced, Finished, Moved
<1>. USE SameSetup, FrontFacts
<1>3. /\ r \in Runs /\ s \in Seq(Out)
      /\ \A i : i \in DOMAIN r <=> RunsOn(i) /\ ~InAbortQueue(i) /\ i \notin Finished
      /\ \A i \in DOMAIN r : r[i].final = engine.running[i].final
      /\ \A i \in Finished : i \in AllIds /\ RunsFinal(i)
      /\ \A i : (\E k \in DOMAIN s : s[k].id = i /\ s[k].fin) <=> i \in Finished
  BY <1>1, StepFacts
<1>. HIDE DEF s, r
<1>4. /\ engine'.inq = engine.inq /\ engine'.running = r /\ engine'.abq = <<>>
      /\ engine'.outq = (IF s = <<>> THEN engine.outq ELSE Append(engine.outq, Outputs(s)))
      /\ engine'.refused = engine.refused /\ engine'.alive = engine.alive
  BY <1>1, <1>2 DEF Engine
<1>5. Outputs(s) \in Answer /\ \A i : Fin(Outputs(s), i) <=> i \in Finished
  <2>1. Outputs(s) \in OutputsMessage /\ Outputs(s).type = "outputs" /\ Outputs(s).outs = s
    BY <1>3 DEF Outputs, OutputsMessage
  <2>. QED BY <1>3, <2>1 DEF Answer, Fin
<1>6. engine.outq \in Seq(Answer) /\ engine'.outq \in Seq(Answer)
  BY <1>1, <1>4, <1>5, EngineFacts, AppendFacts
<1>7. engine' \in Engine
  <2>. DEFINE q == IF s = <<>> THEN engine.outq ELSE Append(engine.outq, Outputs(s))
  <2>1. engine' = [engine EXCEPT !.abq = <<>>, !.batch = {}, !.running = r, !.outq = q]
    BY <1>1, <1>2 DEF Engine
  <2>2. q \in Seq(Answer)
    BY <1>4, <1>6
  <2>. HIDE DEF q
  <2>3. <<>> \in Seq(SUBSET AllIds) /\ {} \in SUBSET AllIds
    OBVIOUS
  <2>. QED BY <1>1, <1>3, <2>1, <2>2, <2>3 DEF Engine
<1>8. \A i : Answered(i)' <=> Answered(i) \/ i \in Finished
  <2>1. CASE s = <<>>
    <3>1. \A i : i \notin Finished
      BY <1>3, <2>1
    <3>2. engine'.outq = engine.outq
      BY <1>4, <2>1
    <3>. QED BY <1>2, <3>1, <3>2, SameAnswers DEF FrontSame
  <2>2. CASE s # <<>>
    <3>1. engine'.outq = Append(engine.outq, Outputs(s))
      BY <1>4, <2>2
    <3>2. \A i : Answered(i)' <=> Answered(i) \/ Fin(Outputs(s), i)
      BY <1>2, <1>5, <1>6, <3>1, AfterAnswer
    <3>. QED BY <1>5, <3>2
  <2>. QED BY <2>1, <2>2
<1>9. ASSUME Connected'
      PROVE /\ Connected /\ OrderInv' /\ (\A i : Split(i) => Split(i)')
            /\ \A i \in AllIds : RequestInv(i)'
  <2>1. Connected /\ OrderInv /\ \A i \in AllIds : RequestInv(i)
    BY <1>1, <1>2, <1>4, <1>9 DEF PathInv, Connected, FrontSame
  <2>2. Messages' = Messages
    BY <1>2, <1>4 DEF Messages
  <2>3. \A i : /\ AddSent(i)' <=> AddSent(i)
               /\ AbortSent(i)' <=> AbortSent(i)
               /\ FinalSent(i)' <=> FinalSent(i)
               /\ OnlyFinal(i)' <=> OnlyFinal(i)
    BY <2>2, SameMessages
  <2>4. \A i : /\ RunsOn(i)' <=> RunsOn(i) /\ ~InAbortQueue(i) /\ i \notin Finished
               /\ RunsFinal(i)' <=> RunsFinal(i) /\ ~InAbortQueue(i) /\ i \notin Finished
    BY <1>3, <1>4 DEF RunsOn, RunsFinal
  <2>5. \A i : ~InAbortQueue(i)' /\ (Split(i)' <=> Split(i))
    BY <1>2, <1>4, SameSplit DEF InAbortQueue
  <2>6. OrderInv'
    BY <1>2, <1>4, <2>1, <2>3, <2>4 DEF OrderInv, InOrder, AddOf, AbortOf, Closes
  <2>7. ASSUME NEW i \in AllIds PROVE RequestInv(i)'
    <3>1. RequestInv(i) /\ (i \in Finished => RunsFinal(i) /\ RunsOn(i) /\ ~AddSent(i))
      BY <1>3, <2>1 DEF OrderInv, RunsFinal, RunsOn
    <3>. QED BY <1>2, <1>8, <2>3, <2>4, <2>5, <3>1
         DEF RequestInv, OpenInv, PlainInv, ServedInv, OrphanInv, AnswerInv, ForgottenInv
  <2>. QED BY <2>1, <2>5, <2>6, <2>7
<1>. QED BY <1>1, <1>2, <1>7, <1>9, EngineStep

\* A crash: the engine is no longer up.
LEMMA CrashKeeps ==
  ASSUME RInv, Raise \/ Kill
  PROVE  RInv'
<1>1. Typed /\ engine \in Engine /\ toEngine \in Seq(Message)
  BY DEF RInv, Typed
<1>2. FrontSame /\ wire' = wire /\ toEngine' = toEngine
  BY DEF Raise, Kill, FrontSame
<1>3. engine' \in Engine /\ engine'.alive # "up"
  <2>1. engine.outq \in Seq(Answer) /\ DEAD \in Answer
    BY <1>1, EngineFacts DEF Answer
  <2>2. Append(engine.outq, DEAD) \in Seq(Answer) /\ <<>> \in Seq(Answer)
    BY <2>1, AppendFacts
  <2>. QED BY <1>1, <2>2 DEF Engine, Raise, Kill
<1>. QED BY <1>1, <1>2, <1>3, EngineStep DEF Connected

-----------------------------------------------------------------------------
(* The output thread and the output socket.                                *)

LEMMA PrefixFacts ==
  ASSUME NEW S, NEW q \in Seq(S), NEW h \in Int, h <= Len(q), h >= -1
  PROVE  LET t == SubSeq(q, 1, h)
         IN  /\ t \in Seq(S) /\ Len(t) <= Len(q) /\ DOMAIN t = 1..h
             /\ (h \in Nat => Len(t) = h)
             /\ \A i \in 1..h : i \in DOMAIN q /\ t[i] = q[i]
<1>1. Len(q) \in Nat /\ DOMAIN q = 1..Len(q)
  OBVIOUS
<1>2. \A i \in 1..h : i \in 1..Len(q) /\ q[i] \in S
  BY <1>1, ElementOfSeq
<1>3. CASE h \in Nat
  <2>1. SubSeq(q, 1, h) = [i \in 1..h |-> q[i]]
    BY <1>1, <1>3
  <2>2. [i \in 1..h |-> q[i]] \in Seq(S) /\ Len([i \in 1..h |-> q[i]]) = h
    BY <1>2, <1>3
  <2>. QED BY <1>1, <1>2, <2>1, <2>2
<1>4. CASE h = -1
  <2>1. SubSeq(q, 1, h) = <<>> /\ 1..h = {}
    BY <1>1, <1>4
  <2>2. <<>> \in Seq(S) /\ Len(<<>>) = 0 /\ DOMAIN <<>> = {}
    OBVIOUS
  <2>. QED BY <1>1, <1>4, <2>1, <2>2
<1>. QED BY <1>3, <1>4

PrependAt(b, t, i) ==
  \/ i = 1 /\ (<<b>> \o t)[i] = b
  \/ i > 1 /\ i \in Nat /\ i - 1 \in DOMAIN t /\ (<<b>> \o t)[i] = t[i - 1]

LEMMA PrependFacts ==
  ASSUME NEW S, NEW b \in S, NEW t \in Seq(S)
  PROVE  /\ <<b>> \o t \in Seq(S)
         /\ \A i \in DOMAIN (<<b>> \o t) : PrependAt(b, t, i)
<1>1. Len(t) \in Nat /\ DOMAIN t = 1..Len(t) /\ <<b>> \in Seq(S) /\ Len(<<b>>) = 1
  OBVIOUS
<1>2. <<b>> \o t \in Seq(S) /\ Len(<<b>> \o t) = 1 + Len(t)
  BY <1>1
<1>3. DOMAIN (<<b>> \o t) = 1..(1 + Len(t))
  BY <1>2
<1>4. (<<b>> \o t)[1] = b
  BY <1>1
<1>5. ASSUME NEW i \in 2..(1 + Len(t)) PROVE (<<b>> \o t)[i] = t[i - 1] /\ i - 1 \in DOMAIN t
  BY <1>1
<1>. QED BY <1>1, <1>2, <1>3, <1>4, <1>5 DEF PrependAt

\* What OutputThread leaves of the socket and its buffers.
LEMMA WrittenFacts ==
  ASSUME wire \in Wire, WireInv, NEW m \in Answer, setup' = setup,
         FreeNow # <<>> \/ Unused # {},
         wire' = [wire EXCEPT !.sent = Append(@, [buf |-> NextBuf]),
                              !.content[NextBuf] = m,
                              !.pending = <<NextBuf>> \o SubSeq(@, 1, Held),
                              !.free = SubSeq(FreeNow, 1, Len(FreeNow) - 1)]
  PROVE  /\ wire' \in Wire /\ WireInv'
         /\ \A id : OnWire(id)' <=> OnWire(id) \/ Fin(m, id)
<1>0. PICK b \in BufferIds : b = NextBuf
  BY BufFacts DEF BufferIds
<1>1. /\ ~Sending(b) /\ (\A j \in 1..Held : b # wire.pending[j])
      /\ \A i \in DOMAIN FreeNow : i < Len(FreeNow) => FreeNow[i] # b
  BY <1>0, BufFacts
<1>2. /\ wire.sent \in Seq([buf : 0..Buffers]) /\ wire.content \in [1..Buffers -> Answer \cup {<<>>}]
      /\ wire.pending \in Seq(BufferIds) /\ wire.free \in Seq(BufferIds)
  BY DEF Wire
<1>. DEFINE pend == SubSeq(wire.pending, 1, Held)
            free == SubSeq(FreeNow, 1, Len(FreeNow) - 1)
            cell == [buf |-> b]
<1>3. /\ wire'.sent = Append(wire.sent, cell) /\ wire'.content = [wire.content EXCEPT ![b] = m]
      /\ wire'.pending = <<b>> \o pend /\ wire'.free = free
  BY <1>0, <1>2 DEF Wire
<1>4. /\ FreeNow \in Seq(BufferIds) /\ Len(FreeNow) <= 2 /\ Len(FreeNow) \in Nat
      /\ DOMAIN FreeNow = 1..Len(FreeNow)
      /\ \A i \in DOMAIN FreeNow : ~Sending(FreeNow[i])
      /\ \A i, j \in DOMAIN FreeNow : FreeNow[i] = FreeNow[j] => i = j
      /\ \A i \in DOMAIN FreeNow : \A j \in 1..Held : FreeNow[i] # wire.pending[j]
  BY FreeFacts
<1>5. Held \in 0..Len(wire.pending) /\ Held \in Nat /\ Held <= Len(wire.pending) /\ Held >= -1
  BY <1>2, HeldFacts
<1>6. /\ pend \in Seq(BufferIds) /\ DOMAIN pend = 1..Held
      /\ \A i \in 1..Held : i \in DOMAIN wire.pending /\ pend[i] = wire.pending[i]
  BY <1>2, <1>5, PrefixFacts
<1>7. /\ free \in Seq(BufferIds) /\ Len(free) <= Len(FreeNow) /\ DOMAIN free = 1..(Len(FreeNow) - 1)
      /\ \A i \in 1..(Len(FreeNow) - 1) : i \in DOMAIN FreeNow /\ free[i] = FreeNow[i]
  <2>1. Len(FreeNow) - 1 \in Int /\ Len(FreeNow) - 1 <= Len(FreeNow) /\ Len(FreeNow) - 1 >= -1
    BY <1>4
  <2>. QED BY <1>4, <2>1, PrefixFacts
<1>. HIDE DEF pend, free
<1>8. /\ <<b>> \o pend \in Seq(BufferIds)
      /\ \A i \in DOMAIN (<<b>> \o pend) :
           \/ i = 1 /\ (<<b>> \o pend)[i] = b
           \/ i > 1 /\ i \in Nat /\ i - 1 \in DOMAIN pend /\ (<<b>> \o pend)[i] = pend[i - 1]
  <2>1. <<b>> \o pend \in Seq(BufferIds) /\ \A i \in DOMAIN (<<b>> \o pend) : PrependAt(b, pend, i)
    BY <1>6, PrependFacts
  <2>. QED BY <2>1 DEF PrependAt
<1>9. cell \in [buf : 0..Buffers] /\ cell.buf = b /\ b # 0 /\ b \in 1..Buffers
  BY DEF BufferIds
<1>. HIDE DEF cell
<1>10. wire' \in Wire
  <2>1. Append(wire.sent, cell) \in Seq([buf : 0..Buffers])
    BY <1>2, <1>9, AppendFacts
  <2>2. [wire.content EXCEPT ![b] = m] \in [1..Buffers -> Answer \cup {<<>>}]
    BY <1>2
  <2>3. wire' = [wire EXCEPT !.sent = Append(wire.sent, cell), !.content = [wire.content EXCEPT ![b] = m],
                             !.pending = <<b>> \o pend, !.free = free]
    BY <1>0, <1>2 DEF Wire, pend, free, cell
  <2>. QED BY <1>7, <1>8, <2>1, <2>2, <2>3 DEF Wire
<1>. DEFINE n == Len(wire.sent) + 1
<1>11. /\ DOMAIN wire'.sent = DOMAIN wire.sent \cup {n} /\ n \notin DOMAIN wire.sent
       /\ \A i \in DOMAIN wire.sent : wire'.sent[i] = wire.sent[i] /\ wire.sent[i].buf # b
       /\ wire'.sent[n].buf = b
  <2>1. /\ DOMAIN Append(wire.sent, cell) = DOMAIN wire.sent \cup {n} /\ n \notin DOMAIN wire.sent
        /\ \A i \in DOMAIN wire.sent : Append(wire.sent, cell)[i] = wire.sent[i]
        /\ Append(wire.sent, cell)[n] = cell
    BY SMTT(40), <1>2, <1>9, AppendFacts
  <2>2. \A i \in DOMAIN wire.sent : wire.sent[i].buf # b
    BY <1>1 DEF Sending
  <2>. HIDE DEF n
  <2>. QED BY <1>3, <1>9, <2>1, <2>2
<1>. HIDE DEF n
<1>12. wire'.content[b] = m /\ \A x : x \in 1..Buffers /\ x # b => wire'.content[x] = wire.content[x]
  BY <1>2, <1>3, <1>9
<1>13. \A i \in DOMAIN wire.sent : wire.sent[i].buf \in 0..Buffers
  <2>. DEFINE Cell == [buf : 0..Buffers]
  <2>1. wire.sent \in Seq(Cell)
    BY <1>2
  <2>. HIDE DEF Cell
  <2>2. \A i \in DOMAIN wire.sent : wire.sent[i] \in Cell
    BY <2>1
  <2>. QED BY <2>2 DEF Cell
<1>14. \A x : (\E k \in DOMAIN wire'.sent : wire'.sent[k].buf = x) <=> Sending(x) \/ x = b
  BY <1>11 DEF Sending
<1>15. Len(wire'.free) <= 2
  BY <1>3, <1>4, <1>7
<1>16. \A i, j \in DOMAIN wire'.sent :
         wire'.sent[i].buf = wire'.sent[j].buf /\ i # j => wire'.sent[i].buf = 0
  BY <1>11 DEF WireInv
<1>17. \A i \in DOMAIN wire'.sent : wire'.sent[i].buf # 0 => wire'.content[wire'.sent[i].buf] \in Answer
  <2>1. ASSUME NEW i \in DOMAIN wire.sent, wire.sent[i].buf # 0
        PROVE  wire'.content[wire.sent[i].buf] = wire.content[wire.sent[i].buf]
    BY <1>11, <1>12, <1>13, <2>1
  <2>2. ASSUME NEW i \in DOMAIN wire.sent, wire.sent[i].buf # 0
        PROVE  wire'.content[wire'.sent[i].buf] \in Answer
    BY <1>11, <2>1, <2>2 DEF WireInv
  <2>. QED BY <1>11, <1>12, <2>2
<1>18. \A i \in DOMAIN free : free[i] # b /\ ~Sending(free[i]) /\ i \in DOMAIN FreeNow /\ free[i] = FreeNow[i]
  <2>1. \A i \in DOMAIN free : i < Len(FreeNow)
    BY <1>4, <1>7
  <2>. QED BY <1>1, <1>4, <1>7, <2>1
<1>19. /\ \A i \in DOMAIN wire'.free : ~\E k \in DOMAIN wire'.sent : wire'.sent[k].buf = wire'.free[i]
       /\ \A i, j \in DOMAIN wire'.free : wire'.free[i] = wire'.free[j] => i = j
  BY SMTT(40), <1>3, <1>4, <1>14, <1>18
<1>20. \A i, j \in DOMAIN pend : pend[i] = pend[j] => i = j
  BY <1>6 DEF WireInv
<1>21. \A i \in DOMAIN pend : pend[i] # b
  BY <1>1, <1>6
<1>22. \A i, j \in DOMAIN wire'.pending : wire'.pending[i] = wire'.pending[j] => i = j
  <2>1. SUFFICES ASSUME NEW i \in DOMAIN (<<b>> \o pend), NEW j \in DOMAIN (<<b>> \o pend),
                        (<<b>> \o pend)[i] = (<<b>> \o pend)[j]
                 PROVE  i = j
    BY <1>3
  <2>2. CASE i = 1 /\ (<<b>> \o pend)[i] = b
    BY <1>8, <1>21, <2>1, <2>2
  <2>3. CASE i > 1 /\ i \in Nat /\ i - 1 \in DOMAIN pend /\ (<<b>> \o pend)[i] = pend[i - 1]
    <3>1. j > 1 /\ j \in Nat /\ j - 1 \in DOMAIN pend /\ (<<b>> \o pend)[j] = pend[j - 1]
      BY <1>8, <1>21, <2>1, <2>3
    <3>2. i - 1 = j - 1
      BY <1>20, <2>1, <2>3, <3>1
    <3>. QED BY <2>3, <3>1, <3>2
  <2>. QED BY <1>8, <2>2, <2>3
<1>23. \A i \in DOMAIN wire'.free, j \in DOMAIN wire'.pending : wire'.free[i] # wire'.pending[j]
  <2>1. ASSUME NEW i \in DOMAIN free, NEW j \in DOMAIN (<<b>> \o pend)
        PROVE  free[i] # (<<b>> \o pend)[j]
    BY <1>4, <1>6, <1>8, <1>18
  <2>. DEFINE pp == <<b>> \o pend
  <2>2. wire'.free = free /\ wire'.pending = pp
    BY <1>3
  <2>3. \A i \in DOMAIN free, j \in DOMAIN pp : free[i] # pp[j]
    BY <2>1
  <2>. HIDE DEF pp
  <2>. QED BY <2>2, <2>3, Zenon
<1>24. WireInv'
  BY <1>15, <1>16, <1>17, <1>19, <1>22, <1>23, SameSetup DEF WireInv, Sending
<1>25. ASSUME NEW id PROVE OnWire(id)' <=> OnWire(id) \/ Fin(m, id)
  <2>1. ASSUME NEW k \in DOMAIN wire.sent, wire.sent[k].buf # 0
        PROVE  wire'.content[wire'.sent[k].buf] = wire.content[wire.sent[k].buf]
    BY <1>11, <1>12, <1>13, <2>1
  <2>2. OnWire(id)' <=> \E k \in DOMAIN wire'.sent : wire'.sent[k].buf # 0 /\ Fin(wire'.content[wire'.sent[k].buf], id)
    BY DEF OnWire, Fin
  <2>3. OnWire(id)' => OnWire(id) \/ Fin(m, id)
    BY <1>11, <1>12, <2>1, <2>2 DEF OnWire
  <2>4. OnWire(id) => OnWire(id)'
    BY <1>11, <2>1, <2>2 DEF OnWire
  <2>5. Fin(m, id) => OnWire(id)'
    BY <1>9, <1>11, <1>12, <2>2
  <2>. QED BY <2>3, <2>4, <2>5
<1>. QED BY <1>10, <1>24, <1>25

\* An answer moves on from one queue to the next.
LEMMA AnswerStep ==
  ASSUME RInv, UNCHANGED <<setup, task, feeder, queue, got, states, toEngine>>,
         handler'.aborts = handler.aborts, engine'.inq = engine.inq, engine'.abq = engine.abq,
         engine'.running = engine.running, engine'.refused = engine.refused,
         Typed', WireInv', HandlerInv',
         Connected' => Connected /\ \A id : Answered(id)' <=> Answered(id)
  PROVE  RInv'
<1>1. Typed /\ FeederInv /\ CapInv /\ PathInv
  BY DEF RInv
<1>2. setup \in Setups /\ states \in SUBSET AllIds
  BY <1>1 DEF Typed
<1>. USE SameSetup
<1>3. FeederInv'
  BY <1>1 DEF FeederInv
<1>4. CapInv'
  BY <1>1, <1>2, FewerStates
<1>5. ASSUME Connected' PROVE OrderInv' /\ LastInv' /\ \A id \in AllIds' : RequestInv(id)'
  <2>1. OrderInv /\ LastInv /\ \A id \in AllIds : RequestInv(id)
    BY <1>1, <1>5 DEF PathInv
  <2>2. OrderInv' /\ Messages' = Messages
    BY <2>1, SameOrder
  <2>3. \A id : /\ AddSent(id)' <=> AddSent(id)
                /\ AbortSent(id)' <=> AbortSent(id)
                /\ FinalSent(id)' <=> FinalSent(id)
                /\ OnlyFinal(id)' <=> OnlyFinal(id)
    BY <2>2, SameMessages
  <2>4. \A id : /\ RunsOn(id)' <=> RunsOn(id)
                /\ RunsFinal(id)' <=> RunsFinal(id)
                /\ InAbortQueue(id)' <=> InAbortQueue(id)
                /\ Split(id)' <=> Split(id)
                /\ Open(id)' <=> Open(id)
    BY SameRunning, SameAbortQueue, SameSplit, SameOpen
  <2>5. LastInv'
    BY <2>1, <2>4, SameLast
  <2>6. \A id : Answered(id)' <=> Answered(id)
    BY <1>5
  <2>7. ASSUME NEW id \in AllIds PROVE RequestInv(id)'
    BY <2>1, <2>3, <2>4, <2>6, SameRequest
  <2>. QED BY <2>2, <2>5, <2>7
<1>. QED BY <1>3, <1>4, <1>5 DEF RInv, PathInv

LEMMA OutputThreadKeeps ==
  ASSUME RInv, OutputThread
  PROVE  RInv'
<1>1. Typed /\ WireInv /\ HandlerInv /\ engine \in Engine /\ wire \in Wire
  BY DEF RInv, Typed
<1>2. /\ engine.outq # <<>> /\ (FreeNow # <<>> \/ Unused # {})
      /\ wire' = [wire EXCEPT !.sent = Append(@, [buf |-> NextBuf]),
                              !.content[NextBuf] = Head(engine.outq),
                              !.pending = <<NextBuf>> \o SubSeq(@, 1, Held),
                              !.free = SubSeq(FreeNow, 1, Len(FreeNow) - 1)]
      /\ engine' = [engine EXCEPT !.outq = Tail(@)]
      /\ UNCHANGED <<setup, task, feeder, queue, got, states, client, handler, toEngine>>
  BY DEF OutputThread, FreeNow, NextBuf
<1>. USE SameSetup
<1>3. engine.outq \in Seq(Answer)
  BY <1>1, EngineFacts
<1>4. PICK m \in Answer : m = Head(engine.outq)
  BY <1>2, <1>3, TailFacts
<1>5. wire' \in Wire /\ WireInv' /\ \A id : OnWire(id)' <=> OnWire(id) \/ Fin(m, id)
  BY <1>1, <1>2, <1>4, WrittenFacts
<1>6. /\ engine'.outq = Tail(engine.outq) /\ engine'.inq = engine.inq /\ engine'.abq = engine.abq
      /\ engine'.running = engine.running /\ engine'.refused = engine.refused /\ engine'.alive = engine.alive
  BY <1>1, <1>2 DEF Engine
<1>7. engine' \in Engine
  <2>1. Tail(engine.outq) \in Seq(Answer)
    BY <1>2, <1>3, TailFacts
  <2>. QED BY <1>1, <1>2, <2>1 DEF Engine
<1>8. Typed'
  BY <1>1, <1>2, <1>5, <1>7 DEF Typed
<1>9. HandlerInv'
  BY <1>1, <1>2 DEF HandlerInv
<1>10. ASSUME NEW id PROVE Answered(id)' <=> Answered(id)
  <2>1. InOutq(id) <=> InOutq(id)' \/ Fin(m, id)
    <3>1. /\ m = engine.outq[1] /\ 1 \in DOMAIN engine.outq
          /\ \A i \in DOMAIN engine'.outq : i + 1 \in DOMAIN engine.outq /\ engine'.outq[i] = engine.outq[i + 1]
          /\ \A i \in DOMAIN engine.outq : i # 1 =>
                i - 1 \in DOMAIN engine'.outq /\ engine'.outq[i - 1] = engine.outq[i]
      BY <1>2, <1>3, <1>4, <1>6, TailFacts
    <3>2. InOutq(id)' <=> \E k \in DOMAIN engine'.outq : Fin(engine'.outq[k], id)
      BY DEF InOutq, Fin
    <3>. QED BY <3>1, <3>2 DEF InOutq
  <2>2. (InOutputs(id)' <=> InOutputs(id)) /\ (InTodo(id)' <=> InTodo(id))
    BY <1>2 DEF InOutputs, InTodo, Fin
  <2>. QED BY <1>5, <2>1, <2>2, AnsweredIs, AnsweredIsNext
<1>11. Connected' => Connected
  BY <1>2, <1>6 DEF Connected
<1>. QED BY <1>2, <1>5, <1>6, <1>8, <1>9, <1>10, <1>11, AnswerStep

LEMMA OutputDeadKeeps ==
  ASSUME RInv, OutputDead
  PROVE  RInv'
<1>1. Typed /\ WireInv /\ HandlerInv /\ engine \in Engine /\ wire \in Wire
  BY DEF RInv, Typed
<1>. DEFINE cell == [buf |-> 0]
<1>2. /\ wire' = [wire EXCEPT !.sent = Append(@, cell)]
      /\ engine' = [engine EXCEPT !.outq = <<>>, !.alive = "dead"]
      /\ UNCHANGED <<setup, task, feeder, queue, got, states, client, handler, toEngine>>
  BY DEF OutputDead
<1>. USE SameSetup
<1>3. /\ engine'.inq = engine.inq /\ engine'.abq = engine.abq
      /\ engine'.running = engine.running /\ engine'.refused = engine.refused /\ engine'.alive = "dead"
  BY <1>1, <1>2 DEF Engine
<1>4. engine' \in Engine
  <2>1. <<>> \in Seq(Answer)
    OBVIOUS
  <2>. QED BY <1>1, <1>2, <2>1 DEF Engine
<1>5. cell \in [buf : 0..Buffers] /\ cell.buf = 0
  BY BuffersAssumption
<1>. HIDE DEF cell
<1>6. wire.sent \in Seq([buf : 0..Buffers])
  BY <1>1 DEF Wire
<1>7. /\ wire'.sent = Append(wire.sent, cell) /\ wire'.free = wire.free /\ wire'.pending = wire.pending
      /\ wire'.content = wire.content
  BY <1>1, <1>2 DEF Wire
<1>8. wire' \in Wire
  <2>1. Append(wire.sent, cell) \in Seq([buf : 0..Buffers])
    BY <1>5, <1>6, AppendFacts
  <2>. QED BY <1>1, <1>2, <2>1 DEF Wire
<1>9. WireInv'
  <2>. DEFINE n == Len(wire.sent) + 1
  <2>1. /\ DOMAIN Append(wire.sent, cell) = DOMAIN wire.sent \cup {n}
        /\ \A i \in DOMAIN wire.sent : Append(wire.sent, cell)[i] = wire.sent[i]
        /\ Append(wire.sent, cell)[n] = cell
    BY <1>5, <1>6, AppendFacts
  <2>. HIDE DEF n
  <2>2. /\ DOMAIN wire'.sent = DOMAIN wire.sent \cup {n}
        /\ \A i \in DOMAIN wire.sent : wire'.sent[i] = wire.sent[i]
        /\ wire'.sent[n].buf = 0
    BY <1>5, <1>7, <2>1
  <2>3. wire.free \in Seq(BufferIds) /\ \A i \in DOMAIN wire.free : wire.free[i] # 0
    <3>1. wire.free \in Seq(BufferIds)
      BY <1>1 DEF Wire
    <3>2. \A i \in DOMAIN wire.free : wire.free[i] \in BufferIds
      BY <3>1
    <3>. QED BY <3>1, <3>2 DEF BufferIds
  <2>4. \A i \in DOMAIN wire'.free : ~\E k \in DOMAIN wire'.sent : wire'.sent[k].buf = wire'.free[i]
    BY <1>1, <1>7, <2>2, <2>3 DEF WireInv, Sending
  <2>5. /\ \A i, j \in DOMAIN wire'.sent :
             wire'.sent[i].buf = wire'.sent[j].buf /\ i # j => wire'.sent[i].buf = 0
        /\ \A i \in DOMAIN wire'.sent : wire'.sent[i].buf # 0 => wire'.content[wire'.sent[i].buf] \in Answer
    BY <1>1, <1>7, <2>2 DEF WireInv
  <2>. QED BY <1>1, <1>2, <1>7, <2>4, <2>5 DEF WireInv, Sending
<1>10. Typed'
  BY <1>1, <1>2, <1>4, <1>8 DEF Typed
<1>11. HandlerInv'
  BY <1>1, <1>2 DEF HandlerInv
<1>12. ~Connected'
  BY <1>3 DEF Connected
<1>. QED BY <1>2, <1>3, <1>9, <1>10, <1>11, <1>12, AnswerStep

\* The socket after its first message was taken.
LEMMA TakenOffFacts ==
  ASSUME wire \in Wire, WireInv, setup' = setup, wire.sent # <<>>,
         NEW first, first = Head(wire.sent),
         wire' = TakenOff(first)
  PROVE  /\ wire' \in Wire /\ WireInv'
         /\ first.buf # 0 => wire.content[first.buf] \in Answer
         /\ \A id : OnWire(id) <=> OnWire(id)' \/ (first.buf # 0 /\ Fin(wire.content[first.buf], id))
<1>. DEFINE Cell == [buf : 0..Buffers]
            q == wire.sent
            t == Tail(wire.sent)
            c == [b \in DOMAIN wire.content |->
                    IF first \notin ToSet(t) /\ b = first.buf THEN <<>> ELSE wire.content[b]]
<1>1. q \in Seq(Cell) /\ q # <<>> /\ wire.content \in [1..Buffers -> Answer \cup {<<>>}]
  BY DEF Wire
<1>2. wire'.sent = t /\ wire'.content = c /\ wire'.free = wire.free /\ wire'.pending = wire.pending
      /\ wire' = [wire EXCEPT !.sent = t, !.content = c]
  BY DEF Wire, TakenOff
<1>3. c \in [1..Buffers -> Answer \cup {<<>>}] /\ \A b \in 1..Buffers : b # first.buf => c[b] = wire.content[b]
  BY <1>1
<1>. HIDE DEF Cell, c
<1>4. /\ t \in Seq(Cell) /\ first = q[1] /\ 1 \in DOMAIN q
      /\ \A i \in DOMAIN t : i + 1 \in DOMAIN q /\ t[i] = q[i + 1] /\ i + 1 # 1 /\ i \in Int
      /\ \A i \in DOMAIN q : i # 1 => i - 1 \in DOMAIN t /\ t[i - 1] = q[i]
  <2>1. /\ t \in Seq(Cell) /\ first = q[1] /\ DOMAIN q = 1..Len(q) /\ Len(q) \in Nat \ {0}
        /\ DOMAIN t = 1..(Len(q) - 1)
        /\ \A i \in DOMAIN t : i + 1 \in DOMAIN q /\ t[i] = q[i + 1]
        /\ \A i \in DOMAIN q : i # 1 => i - 1 \in DOMAIN t /\ t[i - 1] = q[i]
    BY <1>1, TailFacts
  <2>2. 1 \in DOMAIN q /\ \A i \in DOMAIN t : i + 1 # 1 /\ i \in Int
    BY <2>1
  <2>. QED BY <2>1, <2>2
<1>5. wire' \in Wire
  BY <1>2, <1>3, <1>4 DEF Wire, Cell
<1>6. \A i \in DOMAIN q : q[i] \in Cell
  BY <1>1
<1>7. \A i \in DOMAIN q : q[i].buf \in 0..Buffers
  BY <1>6 DEF Cell
<1>8. /\ \A i, j \in DOMAIN q : q[i].buf = q[j].buf /\ i # j => q[i].buf = 0
      /\ \A i \in DOMAIN q : q[i].buf # 0 => wire.content[q[i].buf] \in Answer
  BY DEF WireInv
<1>. HIDE DEF q, t
<1>9. ASSUME NEW i \in DOMAIN t, t[i].buf # 0
      PROVE  c[t[i].buf] = wire.content[t[i].buf] /\ i + 1 \in DOMAIN q /\ t[i] = q[i + 1]
  <2>1. i + 1 \in DOMAIN q /\ t[i] = q[i + 1] /\ i + 1 # 1
    BY <1>4
  <2>2. t[i].buf # first.buf
    BY <1>4, <1>8, <1>9, <2>1
  <2>3. t[i].buf \in 1..Buffers
    BY <1>7, <1>9, <2>1
  <2>. QED BY <1>3, <2>1, <2>2, <2>3
<1>10. first.buf # 0 => wire.content[first.buf] \in Answer
  BY <1>4, <1>8
<1>11. /\ \A i, j \in DOMAIN t : t[i].buf = t[j].buf /\ i # j => t[i].buf = 0
       /\ \A i \in DOMAIN t : t[i].buf # 0 => c[t[i].buf] \in Answer
  <2>1. ASSUME NEW i \in DOMAIN t, NEW j \in DOMAIN t, t[i].buf = t[j].buf, i # j PROVE t[i].buf = 0
    <3>1. i + 1 # j + 1
      BY <1>4, <2>1
    <3>. QED BY <1>4, <1>8, <2>1, <3>1
  <2>2. ASSUME NEW i \in DOMAIN t, t[i].buf # 0 PROVE c[t[i].buf] \in Answer
    BY <1>8, <1>9, <2>2
  <2>. QED BY <2>1, <2>2
<1>12. \A i \in DOMAIN wire.free : ~\E k \in DOMAIN t : t[k].buf = wire.free[i]
  <2>1. \A i \in DOMAIN wire.free : ~\E k \in DOMAIN q : q[k].buf = wire.free[i]
    BY DEF WireInv, Sending, q
  <2>. QED BY <1>4, <2>1
<1>13. WireInv'
  <2>1. /\ Len(wire.free) <= 2
        /\ \A i, j \in DOMAIN wire.free : wire.free[i] = wire.free[j] => i = j
        /\ \A i, j \in DOMAIN wire.pending : wire.pending[i] = wire.pending[j] => i = j
        /\ \A i \in DOMAIN wire.free, j \in DOMAIN wire.pending : wire.free[i] # wire.pending[j]
    BY DEF WireInv
  <2>2. Answer' = Answer
    BY SameSetup
  <2>3. /\ \A i, j \in DOMAIN wire'.sent : wire'.sent[i].buf = wire'.sent[j].buf /\ i # j => wire'.sent[i].buf = 0
        /\ \A i \in DOMAIN wire'.sent : wire'.sent[i].buf # 0 => wire'.content[wire'.sent[i].buf] \in Answer
    BY <1>2, <1>11
  <2>4. \A i \in DOMAIN wire'.free : ~\E k \in DOMAIN wire'.sent : wire'.sent[k].buf = wire'.free[i]
    BY <1>2, <1>12
  <2>5. /\ Len(wire'.free) <= 2
        /\ \A i, j \in DOMAIN wire'.free : wire'.free[i] = wire'.free[j] => i = j
        /\ \A i, j \in DOMAIN wire'.pending : wire'.pending[i] = wire'.pending[j] => i = j
        /\ \A i \in DOMAIN wire'.free, j \in DOMAIN wire'.pending : wire'.free[i] # wire'.pending[j]
    BY <1>2, <2>1
  <2>. QED BY <2>2, <2>3, <2>4, <2>5 DEF WireInv, Sending
<1>14. ASSUME NEW id
       PROVE  OnWire(id) <=> OnWire(id)' \/ (first.buf # 0 /\ Fin(wire.content[first.buf], id))
  <2>1. OnWire(id) <=> \E k \in DOMAIN q : q[k].buf # 0 /\ Fin(wire.content[q[k].buf], id)
    BY DEF OnWire, q
  <2>2. OnWire(id)' <=> \E k \in DOMAIN t : t[k].buf # 0 /\ Fin(c[t[k].buf], id)
    <3>1. OnWire(id)' <=> \E k \in DOMAIN wire'.sent :
                            wire'.sent[k].buf # 0 /\ Fin(wire'.content[wire'.sent[k].buf], id)
      BY DEF OnWire, Fin
    <3>. QED BY <1>2, <3>1
  <2>3. ASSUME NEW k \in DOMAIN q, q[k].buf # 0, Fin(wire.content[q[k].buf], id), k # 1
        PROVE  \E l \in DOMAIN t : t[l].buf # 0 /\ Fin(c[t[l].buf], id)
    <3>1. k - 1 \in DOMAIN t /\ t[k - 1] = q[k]
      BY <1>4, <2>3
    <3>2. c[t[k - 1].buf] = wire.content[t[k - 1].buf]
      BY <1>9, <2>3, <3>1
    <3>. QED BY <2>3, <3>1, <3>2
  <2>4. ASSUME NEW l \in DOMAIN t, t[l].buf # 0, Fin(c[t[l].buf], id)
        PROVE  \E k \in DOMAIN q : q[k].buf # 0 /\ Fin(wire.content[q[k].buf], id)
    BY <1>9, <2>4
  <2>. QED BY <1>4, <2>1, <2>2, <2>3, <2>4
<1>. QED BY <1>5, <1>10, <1>13, <1>14

LEMMA AnswerTypes ==
  \A m \in Answer : /\ m.type \in {"outputs", "UTILITY", "dead"}
                    /\ m.type = "outputs" => m \in OutputsMessage /\ m # ERROR
                    /\ m.type # "outputs" => \A id : ~Fin(m, id)
<1>. SUFFICES ASSUME NEW m \in Answer
              PROVE  /\ m.type \in {"outputs", "UTILITY", "dead"}
                     /\ m.type = "outputs" => m \in OutputsMessage /\ m # ERROR
                     /\ m.type # "outputs" => \A id : ~Fin(m, id)
  OBVIOUS
<1>1. CASE m \in OutputsMessage
  BY <1>1 DEF OutputsMessage, ERROR, Fin
<1>2. CASE m \in UtilityMessage
  BY <1>2 DEF UtilityMessage, Fin
<1>3. CASE m = DEAD
  BY <1>3 DEF DEAD, Fin
<1>. QED BY <1>1, <1>2, <1>3 DEF Answer

\* process_outputs_socket.
LEMMA ReceiveKeeps ==
  ASSUME RInv, Receive
  PROVE  RInv'
<1>1. Typed /\ WireInv /\ HandlerInv /\ client \in Client /\ wire \in Wire
  BY DEF RInv, Typed
<1>. USE SameSetup
<1>0. wire.sent # <<>> /\ setup' = setup
  BY DEF Receive
<1>2. PICK first : first = Head(wire.sent)
  OBVIOUS
<1>. DEFINE m == IF first.buf = 0 THEN DEAD ELSE wire.content[first.buf]
<1>3. /\ client.reading /\ wire.sent # <<>>
      /\ wire' = TakenOff(first)
      /\ client' =
             CASE m.type = "dead" ->
                    [client EXCEPT !.dead = TRUE, !.reading = FALSE,
                                   !.outputs = Append(@, ERROR)]
               [] m.type = "UTILITY" -> Resolved(m.call)
               [] m.type = "outputs" ->
                    [client EXCEPT !.outputs = Append(@, m)]
      /\ UNCHANGED <<setup, task, feeder, queue, got, states, handler, toEngine, engine>>
  BY <1>2 DEF Receive
<1>4. /\ wire' \in Wire /\ WireInv'
      /\ first.buf # 0 => wire.content[first.buf] \in Answer
      /\ \A id : OnWire(id) <=> OnWire(id)' \/ (first.buf # 0 /\ Fin(wire.content[first.buf], id))
  BY <1>1, <1>2, <1>3, TakenOffFacts
<1>5. m \in Answer /\ (first.buf = 0 => m.type = "dead")
  BY <1>4 DEF Answer, DEAD
<1>6. \A id : OnWire(id) <=> OnWire(id)' \/ (first.buf # 0 /\ Fin(m, id))
  BY <1>4
<1>7. \A id : first.buf = 0 => ~Fin(m, id)
  BY <1>5, AnswerTypes
<1>8. \A id : OnWire(id) <=> OnWire(id)' \/ Fin(m, id)
  BY <1>6, <1>7
<1>9. PICK a \in Answer : a = m
  BY <1>5
<1>. HIDE DEF m
<1>10. client.outputs \in Seq(OutputsMessage \cup {ERROR})
  BY <1>1 DEF Client
<1>11. CASE a.type = "dead"
  <2>1. client' = [client EXCEPT !.dead = TRUE, !.reading = FALSE, !.outputs = Append(@, ERROR)]
    BY <1>3, <1>9, <1>11
  <2>2. Append(client.outputs, ERROR) \in Seq(OutputsMessage \cup {ERROR})
    BY <1>10, AppendFacts
  <2>3. client' \in Client /\ client'.dead /\ ~client'.reading
    BY <1>1, <2>1, <2>2 DEF Client
  <2>4. Typed' /\ HandlerInv' /\ ~Connected'
    BY <1>1, <1>3, <1>4, <2>3 DEF Typed, HandlerInv, Connected
  <2>. QED BY <1>3, <1>4, <2>4, AnswerStep
<1>12. CASE a.type = "UTILITY"
  <2>1. client' = Resolved(a.call)
    BY <1>3, <1>9, <1>12
  <2>2. /\ client' \in Client /\ client'.dead = client.dead /\ client'.outputs = client.outputs
        /\ client'.reading = client.reading
    BY <1>1, <2>1 DEF Client, Resolved
  <2>3. Typed' /\ HandlerInv'
    BY <1>1, <1>3, <1>4, <2>2 DEF Typed, HandlerInv
  <2>4. Connected' => Connected
    BY <1>3, <2>2 DEF Connected
  <2>5. ASSUME NEW id PROVE Answered(id)' <=> Answered(id)
    <3>1. OnWire(id)' <=> OnWire(id)
      BY <1>8, <1>9, <1>12, AnswerTypes
    <3>2. engine' = engine /\ handler' = handler /\ client'.outputs = client.outputs
      BY <1>3, <2>2
    <3>3. InOutq(id)' <=> InOutq(id)
      BY <3>2 DEF InOutq, Fin
    <3>4. InTodo(id)' <=> InTodo(id)
      BY <3>2 DEF InTodo, Fin
    <3>5. InOutputs(id)' <=> InOutputs(id)
      BY <3>2 DEF InOutputs, Fin
    <3>. QED BY <3>1, <3>3, <3>4, <3>5, AnsweredIs, AnsweredIsNext
  <2>. QED BY <1>3, <1>4, <2>3, <2>4, <2>5, AnswerStep
<1>13. CASE a.type = "outputs"
  <2>1. client' = [client EXCEPT !.outputs = Append(@, a)]
    BY <1>3, <1>9, <1>13
  <2>2. a \in OutputsMessage /\ a # ERROR
    BY <1>13, AnswerTypes
  <2>3. /\ Append(client.outputs, a) \in Seq(OutputsMessage \cup {ERROR})
        /\ DOMAIN Append(client.outputs, a) = DOMAIN client.outputs \cup {Len(client.outputs) + 1}
        /\ \A i \in DOMAIN client.outputs : Append(client.outputs, a)[i] = client.outputs[i]
        /\ Append(client.outputs, a)[Len(client.outputs) + 1] = a
    BY <1>10, <2>2, AppendFacts
  <2>4. /\ client' \in Client /\ client'.dead = client.dead /\ client'.outputs = Append(client.outputs, a)
        /\ client'.reading = client.reading
    BY <1>1, <2>1, <2>3 DEF Client
  <2>. DEFINE o == Append(client.outputs, a)
              n == Len(client.outputs) + 1
  <2>. HIDE DEF o, n
  <2>5. /\ client'.outputs = o /\ DOMAIN o = DOMAIN client.outputs \cup {n} /\ o[n] = a
        /\ \A i \in DOMAIN client.outputs : o[i] = client.outputs[i]
    BY <2>3, <2>4 DEF o, n
  <2>6. Typed'
    BY <1>1, <1>3, <1>4, <2>4 DEF Typed
  <2>7. HandlerInv'
    BY <1>1, <1>3, <2>2, <2>4, <2>5 DEF HandlerInv
  <2>8. Connected' => Connected
    BY <1>3, <2>4 DEF Connected
  <2>9. ASSUME NEW id PROVE Answered(id)' <=> Answered(id)
    <3>1. InOutputs(id)' <=> \E k \in DOMAIN client'.outputs : Fin(client'.outputs[k], id)
      BY DEF InOutputs, Fin
    <3>2. InOutputs(id)' <=> InOutputs(id) \/ Fin(a, id)
      BY <2>5, <3>1 DEF InOutputs
    <3>3. (InOutq(id)' <=> InOutq(id)) /\ (InTodo(id)' <=> InTodo(id))
      BY <1>3 DEF InOutq, InTodo, Fin
    <3>4. OnWire(id) <=> OnWire(id)' \/ Fin(a, id)
      BY <1>8, <1>9
    <3>. QED BY <3>2, <3>3, <3>4, AnsweredIs, AnsweredIsNext
  <2>. QED BY <1>3, <1>4, <2>6, <2>7, <2>8, <2>9, AnswerStep
<1>. QED BY <1>11, <1>12, <1>13, AnswerTypes

\* The reader that fails.
LEMMA ReaderFailsKeeps ==
  ASSUME RInv, ReaderFails
  PROVE  RInv'
<1>1. Typed /\ WireInv /\ HandlerInv /\ client \in Client /\ wire \in Wire
  BY DEF RInv, Typed
<1>. USE SameSetup
<1>2. /\ wire.sent # <<>> /\ wire' = TakenOff(Head(wire.sent))
      /\ client' = [client EXCEPT !.reading = FALSE, !.outputs = Append(@, ERROR)]
      /\ UNCHANGED <<setup, task, feeder, queue, got, states, handler, toEngine, engine>>
  BY DEF ReaderFails
<1>3. client' \in Client /\ ~client'.reading
  <2>1. client.outputs \in Seq(OutputsMessage \cup {ERROR})
    BY <1>1 DEF Client
  <2>2. Append(client.outputs, ERROR) \in Seq(OutputsMessage \cup {ERROR})
    BY <2>1, AppendFacts
  <2>. QED BY <1>1, <1>2, <2>2 DEF Client
<1>4. wire' \in Wire /\ WireInv'
  <2>1. PICK first : first = Head(wire.sent)
    OBVIOUS
  <2>. QED BY <1>1, <1>2, <2>1, TakenOffFacts
<1>5. Typed' /\ HandlerInv' /\ ~Connected'
  BY <1>1, <1>2, <1>3, <1>4 DEF Typed, HandlerInv, Connected
<1>. QED BY <1>2, <1>4, <1>5, AnswerStep

\* The monitor, and the reader that is cancelled.
LEMMA DeathKeeps ==
  ASSUME RInv, MonitorSees \/ Shutdown
  PROVE  RInv'
<1>1. Typed /\ WireInv /\ HandlerInv /\ client \in Client /\ wire \in Wire
  BY DEF RInv, Typed
<1>. USE SameSetup
<1>2. UNCHANGED <<setup, task, feeder, queue, got, states, handler, toEngine, engine, wire>>
  BY DEF MonitorSees, Shutdown
<1>3. client' \in Client /\ client'.dead
  <2>1. client.outputs \in Seq(OutputsMessage \cup {ERROR})
    BY <1>1 DEF Client
  <2>2. Append(client.outputs, ERROR) \in Seq(OutputsMessage \cup {ERROR})
    BY <2>1, AppendFacts
  <2>. QED BY <1>1, <2>2 DEF Client, MonitorSees, Shutdown
<1>4. WireInv'
  BY <1>1, <1>2, SameWire
<1>5. \/ client'.reading = client.reading /\ client'.outputs = client.outputs
      \/ ~client'.reading
  BY <1>1 DEF MonitorSees, Shutdown, Client
<1>6. HandlerInv'
  BY <1>1, <1>2, <1>5 DEF HandlerInv
<1>7. Typed' /\ ~Connected'
  BY <1>1, <1>2, <1>3 DEF Typed, Connected
<1>. QED BY <1>2, <1>4, <1>6, <1>7, AnswerStep

-----------------------------------------------------------------------------
(* The output handler.                                                     *)

\* The handler that has ended.
LEMMA OffTyped ==
  ASSUME Typed, NEW known
  PROVE  /\ HandlerOff(known) \in HandlerRecord /\ ~HandlerOff(known).on
<1>1. handler \in HandlerRecord /\ Unreached(known) \subseteq Calls /\ <<>> \in Seq(Out)
  BY EmptyFacts DEF Typed, Unreached
<1>2. (IF client.dead THEN {} ELSE Unreached(known)) \in SUBSET Calls
  BY <1>1
<1>. QED BY <1>1, <1>2 DEF HandlerOff, HandlerRecord

\* The calls that are told of the end of the handler.
LEMMA ToldTyped ==
  ASSUME NEW q, \A g \in Calls : q[g].last \in BOOLEAN /\ q[g].err \in {"none", "dead", "input", "handler"},
         NEW known, NEW err \in {"dead", "handler"}
  PROVE  /\ DOMAIN Told(q, known, err) = Calls
         /\ \A g \in Calls : /\ Told(q, known, err)[g].last \in BOOLEAN
                            /\ Told(q, known, err)[g].err \in {"none", "dead", "input", "handler"}
<1>1. DOMAIN Told(q, known, err) = Calls
  BY DEF Told
<1>2. ASSUME NEW g \in Calls
      PROVE  Told(q, known, err)[g] = q[g] \/ Told(q, known, err)[g] = [outs |-> <<>>, last |-> FALSE, err |-> err]
  BY DEF Told, Raised
<1>3. ASSUME NEW g \in Calls
      PROVE /\ Told(q, known, err)[g].last \in BOOLEAN
            /\ Told(q, known, err)[g].err \in {"none", "dead", "input", "handler"}
  <2>1. CASE Told(q, known, err)[g] = q[g]
    BY <2>1
  <2>2. CASE Told(q, known, err)[g] = [outs |-> <<>>, last |-> FALSE, err |-> err]
    BY <2>2
  <2>. QED BY <1>2, <2>1, <2>2
<1>. QED BY <1>1, <1>3

\* The next batch, or the error that ends the handler.
LEMMA HandlerTakesKeeps ==
  ASSUME RInv, HandlerTakes
  PROVE  RInv'
<1>1. Typed /\ FeederInv /\ WireInv /\ HandlerInv /\ CapInv /\ PathInv /\ client \in Client /\ wire \in Wire
      /\ setup \in Setups /\ states \in SUBSET AllIds
  BY DEF RInv, Typed
<1>. USE SameSetup
<1>2. /\ handler.todo = <<>> /\ client.outputs # <<>>
      /\ client' = [client EXCEPT !.outputs = Tail(@)]
      /\ IF Head(client.outputs) = ERROR
         THEN /\ handler' = HandlerOff(states)
              /\ queue' = Told(queue, states, IF client.dead THEN "dead" ELSE "handler")
         ELSE handler' = [handler EXCEPT !.todo = Head(client.outputs).outs] /\ UNCHANGED queue
      /\ UNCHANGED <<setup, task, feeder, got, states, toEngine, engine, wire>>
  BY DEF HandlerTakes, Engines
<1>3. client.outputs \in Seq(OutputsMessage \cup {ERROR})
  BY <1>1 DEF Client
<1>. DEFINE q == client.outputs
            t == Tail(client.outputs)
            h == Head(client.outputs)
<1>4. /\ t \in Seq(OutputsMessage \cup {ERROR}) /\ h \in OutputsMessage \cup {ERROR}
      /\ h = q[1] /\ 1 \in DOMAIN q
      /\ \A i \in DOMAIN t : i + 1 \in DOMAIN q /\ t[i] = q[i + 1]
      /\ \A i \in DOMAIN q : i # 1 => i - 1 \in DOMAIN t /\ t[i - 1] = q[i]
  BY <1>2, <1>3, TailFacts
<1>5. /\ client' \in Client /\ client'.dead = client.dead /\ client'.outputs = t
      /\ client'.reading = client.reading
  BY <1>1, <1>2, <1>4 DEF Client
<1>. HIDE DEF q, t, h
<1>6. WireInv'
  BY <1>1, <1>2, SameWire
<1>7. CASE h = ERROR
  <2>1. ~client.reading
    <3>1. \E k \in DOMAIN client.outputs : client.outputs[k] = ERROR
      BY <1>4, <1>7 DEF q
    <3>. QED BY <1>1, <3>1 DEF HandlerInv
  <2>2. /\ handler' = HandlerOff(states)
        /\ queue' = Told(queue, states, IF client.dead THEN "dead" ELSE "handler")
    BY <1>2, <1>7 DEF h
  <2>3. handler' \in HandlerRecord
    BY <1>1, <2>2, OffTyped
  <2>4. Typed'
    BY <1>1, <1>2, <1>5, <2>2, <2>3, ToldTyped DEF Typed
  <2>5. HandlerInv' /\ ~Connected'
    BY <1>5, <2>1 DEF HandlerInv, Connected
  <2>6. FeederInv'
    BY <1>1, <1>2 DEF FeederInv
  <2>7. CapInv'
    BY <1>1, <1>2, FewerStates
  <2>. QED BY <1>6, <2>4, <2>5, <2>6, <2>7 DEF RInv, PathInv
<1>8. CASE h # ERROR
  <2>1. handler' = [handler EXCEPT !.todo = h.outs] /\ queue' = queue
    BY <1>2, <1>8 DEF h
  <2>2. h.outs \in Seq(Out) /\ h.type = "outputs"
    BY <1>4, <1>8 DEF OutputsMessage
  <2>3. handler' \in HandlerRecord
        /\ handler'.todo = h.outs /\ handler'.aborts = handler.aborts /\ handler'.on = handler.on
    BY <1>1, <2>1, <2>2 DEF Typed, HandlerRecord
  <2>4. Typed'
    BY <1>1, <1>2, <1>5, <2>1, <2>3 DEF Typed
  <2>5. HandlerInv'
    BY <1>1, <1>2, <1>4, <1>5, <2>1, <2>3 DEF HandlerInv, q
  <2>6. Connected' => Connected
    BY <1>2, <1>5, <2>3 DEF Connected
  <2>7. ASSUME NEW id PROVE Answered(id)' <=> Answered(id)
    <3>1. InOutputs(id)' <=> \E k \in DOMAIN client'.outputs : Fin(client'.outputs[k], id)
      BY DEF InOutputs, Fin
    <3>2. InOutputs(id) <=> InOutputs(id)' \/ Fin(h, id)
      BY <1>4, <1>5, <3>1 DEF InOutputs, q
    <3>3. InTodo(id)' <=> Fin(h, id)
      BY <2>2, <2>3 DEF InTodo, Fin
    <3>4. ~InTodo(id)
      BY <1>2 DEF InTodo
    <3>5. (InOutq(id)' <=> InOutq(id)) /\ (OnWire(id)' <=> OnWire(id))
      BY <1>2 DEF InOutq, OnWire, Fin
    <3>. QED BY <3>2, <3>3, <3>4, <3>5, AnsweredIs, AnsweredIsNext
  <2>. QED BY <1>2, <1>6, <2>1, <2>3, <2>4, <2>5, <2>6, <2>7, AnswerStep
<1>. QED BY <1>7, <1>8

\* An output of a slice that ends request id in the engine.
EndIn(outs, id) == \E k \in DOMAIN outs : outs[k].id = id /\ outs[k].fin

\* What one slice of outputs takes out of the front end.
LEMMA SliceOutputs ==
  ASSUME setup \in Setups, states \in SUBSET AllIds, NEW outs \in Seq(Out)
  PROVE  /\ StatesAfter(outs) \subseteq states
         /\ ToAbort(outs) \subseteq states
         /\ \A id \in ToAbort(outs) : id \notin StatesAfter(outs) /\ ~Streams(id[1])
         /\ \A id \in states : id \notin StatesAfter(outs) => id \in ToAbort(outs) \/ EndIn(outs, id)
         /\ \A id : EndIn(outs, id) => id \notin StatesAfter(outs)
         /\ \A g \in Calls : Streams(g) /\ EndsCall(outs, g) => EndIn(outs, <<g, 1>>)
<1>1. /\ DOMAIN outs = 1..Len(outs) /\ Len(outs) \in Nat
      /\ \A k \in DOMAIN outs : outs[k].id \in AllIds
  <2>1. DOMAIN outs = 1..Len(outs) /\ Len(outs) \in Nat /\ \A k \in DOMAIN outs : outs[k] \in Out
    OBVIOUS
  <2>. QED BY <2>1 DEF Out
<1>2. \A id \in AllIds : id[1] \in Calls /\ (Streams(id[1]) => Shape(id[1]).stop = 0 /\ id = <<id[1], 1>>)
  BY SetupFacts, IdFacts
<1>3. \A id \in AllIds : Streams(id[1]) => \A k \in DOMAIN outs : outs[k].id = id => ~Stops(outs[k])
  BY <1>2 DEF Stops
<1>4. StatesAfter(outs) \subseteq states /\ ToAbort(outs) \subseteq states
  BY DEF StatesAfter, ToAbort, Reaches
<1>5. ASSUME NEW id \in ToAbort(outs) PROVE id \notin StatesAfter(outs) /\ ~Streams(id[1])
  <2>1. PICK k \in DOMAIN outs : outs[k].id = id /\ Stops(outs[k])
    BY DEF ToAbort
  <2>2. id \notin StatesAfter(outs)
    BY <2>1 DEF StatesAfter, Ends
  <2>. QED BY <1>1, <1>3, <2>1, <2>2
<1>6. ASSUME NEW id \in states, id \notin StatesAfter(outs)
      PROVE  id \in ToAbort(outs) \/ EndIn(outs, id)
  <2>. DEFINE K == {k \in DOMAIN outs : outs[k].id = id /\ Ends(outs[k])}
  <2>1. K # {} /\ K \in SUBSET Nat
    BY <1>1, <1>6 DEF StatesAfter
  <2>2. PICK k \in K : \A j \in K : k <= j
    <3>. HIDE DEF K
    <3>. QED BY <2>1, LeastNat
  <2>3. k \in DOMAIN outs /\ outs[k].id = id /\ Ends(outs[k])
    OBVIOUS
  <2>4. Reaches(outs, k)
    <3>1. ASSUME NEW j \in 1..(k - 1), outs[j].id = outs[k].id PROVE ~Ends(outs[j])
      <4>1. k \in Nat /\ j < k /\ j \in DOMAIN outs /\ j \in Nat
        BY <1>1, <2>3
      <4>2. j \notin K
        <5>. HIDE DEF K
        <5>. QED BY <2>1, <2>2, <4>1
      <4>. QED BY <2>3, <3>1, <4>1, <4>2
    <3>. QED BY <2>3, <3>1 DEF Reaches
  <2>5. CASE outs[k].fin
    BY <2>3, <2>5 DEF EndIn
  <2>6. CASE ~outs[k].fin
    <3>1. Stops(outs[k])
      BY <2>3, <2>6 DEF Ends
    <3>. QED BY <2>3, <2>4, <2>6, <3>1 DEF ToAbort
  <2>. QED BY <2>5, <2>6
<1>7. \A id : EndIn(outs, id) => id \notin StatesAfter(outs)
  BY DEF EndIn, StatesAfter, Ends
<1>8. ASSUME NEW g \in Calls, Streams(g), EndsCall(outs, g) PROVE EndIn(outs, <<g, 1>>)
  <2>1. PICK i \in DOMAIN outs : outs[i].id[1] = g /\ Ends(outs[i])
    BY <1>8 DEF EndsCall
  <2>2. outs[i].id \in AllIds /\ outs[i].id = <<g, 1>>
    BY <1>1, <1>2, <1>8, <2>1
  <2>3. outs[i].fin
    BY <1>3, <1>8, <2>1, <2>2 DEF Ends
  <2>. QED BY <2>2, <2>3 DEF EndIn
<1>. QED BY <1>4, <1>5, <1>6, <1>7, <1>8

\* A slice and the rest are what the handler had.
SliceNow == SubSeq(handler.todo, 1, SliceLen)
LEMMA SliceFacts ==
  ASSUME setup \in Setups, handler.todo \in Seq(Out)
  PROVE  /\ SliceNow \in Seq(Out) /\ Rest \in Seq(Out)
         /\ \A id : InTodo(id) <=> EndIn(SliceNow, id) \/ EndIn(Rest, id)
<1>. DEFINE q == handler.todo
            h == SliceLen
<1>1. setup.slice \in Nat /\ Len(q) \in Nat /\ DOMAIN q = 1..Len(q)
  BY SetupFacts
<1>2. h \in 0..Len(q)
  BY <1>1, MinOfTwo DEF SliceLen
<1>. HIDE DEF h
<1>3. /\ SubSeq(q, 1, h) \in Seq(Out) /\ DOMAIN SubSeq(q, 1, h) = 1..h
      /\ \A i \in 1..h : i \in DOMAIN q /\ SubSeq(q, 1, h)[i] = q[i]
  BY <1>1, <1>2, PrefixFacts
<1>4. /\ SubSeq(q, h + 1, Len(q)) \in Seq(Out) /\ Len(SubSeq(q, h + 1, Len(q))) = Len(q) - h
      /\ \A i \in 1..(Len(q) - h) : SubSeq(q, h + 1, Len(q))[i] = q[h + i]
  BY <1>2, SuffixFacts
<1>5. PICK a \in Seq(Out) : a = SubSeq(q, 1, h)
  BY <1>3
<1>6. PICK b \in Seq(Out) : b = SubSeq(q, h + 1, Len(q))
  BY <1>4
<1>7. /\ DOMAIN a = 1..h /\ DOMAIN b = 1..(Len(q) - h)
      /\ \A i \in 1..h : a[i] = q[i]
      /\ \A i \in 1..(Len(q) - h) : b[i] = q[h + i]
  BY <1>3, <1>4, <1>5, <1>6
<1>8. SliceNow = a /\ Rest = b
  BY <1>5, <1>6 DEF SliceNow, Rest, h
<1>9. ASSUME NEW id PROVE InTodo(id) <=> EndIn(a, id) \/ EndIn(b, id)
  <2>1. ASSUME NEW k \in DOMAIN q, q[k].id = id, q[k].fin PROVE EndIn(a, id) \/ EndIn(b, id)
    <3>1. CASE k <= h
      <4>1. k \in DOMAIN a /\ a[k] = q[k]
        BY <1>1, <1>2, <1>7, <3>1
      <4>. QED BY <2>1, <4>1 DEF EndIn
    <3>2. CASE ~(k <= h)
      <4>1. k - h \in 1..(Len(q) - h) /\ h + (k - h) = k
        BY <1>1, <1>2, <3>2
      <4>2. k - h \in DOMAIN b /\ b[k - h] = q[k]
        BY <1>7, <4>1
      <4>. QED BY <2>1, <4>2 DEF EndIn
    <3>. QED BY <3>1, <3>2
  <2>2. ASSUME NEW k \in DOMAIN a, a[k].id = id, a[k].fin PROVE InTodo(id)
    <3>1. k \in DOMAIN q /\ a[k] = q[k]
      BY <1>1, <1>2, <1>7
    <3>. QED BY <2>2, <3>1 DEF InTodo
  <2>3. ASSUME NEW k \in DOMAIN b, b[k].id = id, b[k].fin PROVE InTodo(id)
    <3>1. h + k \in DOMAIN q /\ b[k] = q[h + k]
      BY <1>1, <1>2, <1>7
    <3>. QED BY <2>3, <3>1 DEF InTodo
  <2>. QED BY <2>1, <2>2, <2>3 DEF EndIn, InTodo
<1>. QED BY <1>8, <1>9

\* What a collector holds after a slice.
LEMMA CollectedFacts ==
  ASSUME NEW g, queue[g].last \in BOOLEAN, NEW outs
  PROVE  /\ Collected(outs, g).err = queue[g].err
         /\ Collected(outs, g).last \in BOOLEAN
         /\ Collected(outs, g).last => queue[g].last \/ EndsCall(outs, g)
<1>1. CASE queue[g].err # "none"
  BY <1>1 DEF Collected
<1>2. CASE queue[g].err = "none"
  <2>1. Collected(outs, g) = [outs |-> queue[g].outs \o Items(outs, g),
                              last |-> queue[g].last \/ EndsCall(outs, g), err |-> "none"]
    BY <1>2 DEF Collected
  <2>2. /\ Collected(outs, g).err = "none"
        /\ Collected(outs, g).last = (queue[g].last \/ EndsCall(outs, g))
    BY <2>1
  <2>. QED BY <1>2, <2>2
<1>. QED BY <1>1, <1>2

\* A slice of the outputs.
LEMMA HandlerSliceKeeps ==
  ASSUME RInv, HandlerSlice
  PROVE  RInv'
<1>1. Typed /\ FeederInv /\ WireInv /\ HandlerInv /\ CapInv /\ PathInv
  BY DEF RInv
<1>2. /\ toEngine \in Seq(Message) /\ engine.inq \in Seq(Message) /\ setup \in Setups
      /\ states \in SUBSET AllIds /\ handler.todo \in Seq(Out)
      /\ handler \in HandlerRecord
  BY <1>1 DEF Typed, Engine, HandlerRecord
<1>. USE SameSetup
<1>3. PICK outs : outs = SliceNow
  OBVIOUS
<1>4. PICK rest : rest = Rest
  OBVIOUS
<1>5. outs \in Seq(Out) /\ rest \in Seq(Out) /\ \A id : InTodo(id) <=> EndIn(outs, id) \/ EndIn(rest, id)
  BY <1>2, <1>3, <1>4, SliceFacts
<1>6. PICK aborts : aborts = ToAbort(outs)
  OBVIOUS
<1>7. /\ handler.aborts = {} /\ states' = StatesAfter(outs)
      /\ queue' = [g \in Calls |-> Collected(outs, g)]
      /\ IF rest = <<>>
         THEN handler' = [handler EXCEPT !.todo = <<>>] /\ SendAborts(aborts)
         ELSE /\ handler' = [handler EXCEPT !.todo = rest, !.aborts = aborts]
              /\ UNCHANGED toEngine
      /\ UNCHANGED <<setup, task, feeder, got, client, engine, wire>>
  BY <1>3, <1>4, <1>6 DEF HandlerSlice, ProcessOutputs, SliceNow, Engines
<1>8. /\ states' \subseteq states /\ aborts \in SUBSET AllIds /\ aborts \subseteq states
      /\ \A id \in aborts : id \notin states' /\ ~Streams(id[1])
      /\ \A id \in states : id \notin states' => id \in aborts \/ EndIn(outs, id)
      /\ \A id : EndIn(outs, id) => id \notin states'
      /\ \A g \in Calls : Streams(g) /\ EndsCall(outs, g) => EndIn(outs, <<g, 1>>)
  BY <1>2, <1>5, <1>6, <1>7, SliceOutputs
<1>9. /\ handler' \in HandlerRecord
      /\ handler'.on = handler.on /\ handler'.todo = rest
      /\ toEngine' \in Seq(Message)
      /\ \/ SendAborts(aborts) /\ handler'.aborts = {}
         \/ toEngine' = toEngine /\ handler'.aborts = aborts
  <2>1. CASE rest = <<>>
    BY <1>2, <1>5, <1>7, <1>8, <2>1, AbortsTyped DEF HandlerRecord
  <2>2. CASE rest # <<>>
    BY <1>2, <1>5, <1>7, <1>8, <2>2 DEF HandlerRecord
  <2>. QED BY <2>1, <2>2
<1>11. /\ DOMAIN queue' = Calls
       /\ \A g \in Calls : queue'[g].err = queue[g].err
       /\ \A g \in Calls : queue'[g].last \in BOOLEAN
       /\ \A g \in Calls : queue'[g].last => queue[g].last \/ EndsCall(outs, g)
  <2>1. DOMAIN queue' = Calls /\ \A g \in Calls : queue'[g] = Collected(outs, g)
    BY <1>7
  <2>2. \A g \in Calls : queue[g].last \in BOOLEAN
    BY <1>1 DEF Typed
  <2>. QED BY <2>1, <2>2, CollectedFacts
<1>12. Typed'
  BY <1>1, <1>2, <1>7, <1>8, <1>9, <1>11 DEF Typed
<1>13. FeederInv' /\ WireInv' /\ CapInv'
  BY <1>1, <1>2, <1>7, <1>8, SameWire, FewerStates DEF FeederInv
<1>14. HandlerInv'
  BY <1>1, <1>7, <1>9, <1>11 DEF HandlerInv
<1>15. ASSUME Connected' PROVE OrderInv' /\ LastInv' /\ \A i \in AllIds' : RequestInv(i)'
  <2>1. OrderInv /\ LastInv /\ (\A i \in AllIds : RequestInv(i)) /\ ~client.dead
    BY <1>1, <1>7, <1>9, <1>15 DEF PathInv, Connected
  <2>2. \A i : /\ RunsOn(i)' <=> RunsOn(i)
               /\ RunsFinal(i)' <=> RunsFinal(i)
               /\ InAbortQueue(i)' <=> InAbortQueue(i)
               /\ Split(i)' <=> Split(i)
               /\ Open(i)' <=> Open(i)
    BY <1>7, SameRunning, SameAbortQueue, SameSplit, SameOpen
  <2>3. \A i : (Answered(i)' => Answered(i)) /\ (Answered(i) => Answered(i)' \/ EndIn(outs, i))
               /\ (EndIn(outs, i) => Answered(i))
    <3>1. ASSUME NEW i
          PROVE /\ Answered(i)' => Answered(i)
                /\ Answered(i) => Answered(i)' \/ EndIn(outs, i)
                /\ EndIn(outs, i) => Answered(i)
      <4>1. engine' = engine /\ wire' = wire /\ client' = client
        BY <1>7
      <4>2. InOutq(i)' <=> InOutq(i)
        BY <4>1 DEF InOutq, Fin
      <4>3. OnWire(i)' <=> OnWire(i)
        BY <4>1 DEF OnWire, Fin
      <4>4. InOutputs(i)' <=> InOutputs(i)
        BY <4>1 DEF InOutputs, Fin
      <4>5. InTodo(i)' <=> EndIn(rest, i)
        BY <1>9 DEF InTodo, EndIn
      <4>. QED BY <1>5, <4>2, <4>3, <4>4, <4>5, AnsweredIs, AnsweredIsNext
    <3>. QED BY <3>1
  <2>4. /\ OrderInv'
        /\ \A i : /\ AddSent(i)' <=> AddSent(i)
                  /\ FinalSent(i)' <=> FinalSent(i)
                  /\ OnlyFinal(i)' <=> OnlyFinal(i)
                  /\ AbortSent(i)' \/ i \in handler'.aborts <=> AbortSent(i) \/ i \in aborts
    <3>1. CASE SendAborts(aborts) /\ handler'.aborts = {}
      BY <1>2, <1>7, <1>8, <2>1, <3>1, AfterAborts
    <3>2. CASE toEngine' = toEngine /\ handler'.aborts = aborts
      <4>1. OrderInv' /\ Messages' = Messages
        BY <1>7, <2>1, <3>2, SameOrder
      <4>. QED BY <3>2, <4>1, SameMessages
    <3>. QED BY <1>9, <3>1, <3>2
  <2>5. ASSUME NEW i \in aborts PROVE ~Open(i)
    <3>1. i \in AllIds /\ i \in states /\ ~Streams(i[1]) /\ i[1] \in Calls
      BY <1>2, <1>8, IdFacts
    <3>2. RequestInv(i) /\ ~feeder[i[1]].on /\ ~Split(i)
      BY <1>1, <2>1, <3>1 DEF FeederInv, Split
    <3>. QED BY <3>1, <3>2 DEF RequestInv, OpenInv, ForgottenInv
  <2>6. LastInv'
    <3>1. ASSUME NEW g \in Calls, Streams(g), queue'[g].last, Open(<<g, 1>>) PROVE Split(<<g, 1>>)
      <4>1. CASE queue[g].last
        BY <2>1, <3>1, <4>1 DEF LastInv
      <4>2. CASE EndsCall(outs, g)
        <5>1. Answered(<<g, 1>>)
          BY <1>8, <2>3, <3>1, <4>2
        <5>2. <<g, 1>> \in AllIds
          BY <1>2, IdFacts
        <5>. QED BY <2>1, <3>1, <5>1, <5>2 DEF RequestInv, OpenInv
      <4>. QED BY <1>11, <3>1, <4>1, <4>2
    <3>. QED BY <1>7, <2>2, <3>1 DEF LastInv
  <2>7. ASSUME NEW i \in AllIds PROVE RequestInv(i)'
    <3>1. RequestInv(i) /\ i \notin handler.aborts
      BY <1>7, <2>1
    <3>2. feeder'[i[1]] = feeder[i[1]] /\ Streams(i[1])' = Streams(i[1])
      BY <1>7
    <3>3. /\ i \in states' => i \in states /\ i \notin aborts /\ ~EndIn(outs, i)
          /\ i \in states => i \in states' \/ i \in aborts \/ Answered(i)
          /\ i \in aborts => ~Open(i)
      BY <1>8, <2>3, <2>5
    <3>4. OpenInv(i)'
      BY <2>2, <2>3, <2>4, <3>1, <3>3 DEF RequestInv, OpenInv
    <3>5. PlainInv(i)'
      BY <2>2, <2>4, <3>1, <3>2 DEF RequestInv, PlainInv
    <3>6. ServedInv(i)'
      BY <2>2, <2>4, <3>1, <3>3 DEF RequestInv, ServedInv
    <3>7. OrphanInv(i)'
      BY <2>2, <2>4, <3>1, <3>3 DEF RequestInv, OrphanInv, AnswerInv
    <3>8. AnswerInv(i)'
      BY <2>2, <2>3, <2>4, <3>1 DEF RequestInv, AnswerInv
    <3>9. ForgottenInv(i)'
      BY <2>2, <2>3, <2>4, <3>1, <3>2, <3>3 DEF RequestInv, ForgottenInv
    <3>. QED BY <3>4, <3>5, <3>6, <3>7, <3>8, <3>9 DEF RequestInv
  <2>. QED BY <1>7, <2>4, <2>6, <2>7
<1>. QED BY <1>12, <1>13, <1>14, <1>15 DEF RInv, PathInv

\* The handler that fails in a slice or behind the last one.
LEMMA HandlerFailsKeeps ==
  ASSUME RInv, HandlerFails
  PROVE  RInv'
<1>1. Typed /\ FeederInv /\ WireInv /\ HandlerInv /\ CapInv
  BY DEF RInv
<1>2. /\ toEngine \in Seq(Message) /\ setup \in Setups /\ states \in SUBSET AllIds
      /\ handler.todo \in Seq(Out)
  BY <1>1 DEF Typed, HandlerRecord
<1>. USE SameSetup
<1>3. PICK n \in 0..SliceLen :
        /\ states' = StatesAfter(SubSeq(handler.todo, 1, n))
        /\ queue' = Told([g \in Calls |-> Collected(SubSeq(handler.todo, 1, n), g)],
                         StatesAfter(SubSeq(handler.todo, 1, n)), "handler")
        /\ handler' = HandlerOff(StatesAfter(SubSeq(handler.todo, 1, n)))
        /\ toEngine' = toEngine \/ SendAborts(ToAbort(SubSeq(handler.todo, 1, n)))
        /\ UNCHANGED <<setup, task, feeder, got, client, engine, wire>>
  BY DEF HandlerFails, Engines
<1>4. PICK outs : outs = SubSeq(handler.todo, 1, n)
  OBVIOUS
<1>5. outs \in Seq(Out)
  <2>1. setup.slice \in Nat /\ Len(handler.todo) \in Nat
    BY <1>2, SetupFacts
  <2>2. SliceLen \in 0..Len(handler.todo)
    BY <2>1, MinOfTwo DEF SliceLen
  <2>3. n \in 0..Len(handler.todo)
    BY <2>1, <2>2
  <2>. QED BY <1>2, <1>4, <2>3, PrefixFacts
<1>6. StatesAfter(outs) \subseteq states /\ ToAbort(outs) \in SUBSET AllIds
  BY <1>2, <1>5, SliceOutputs
<1>7. toEngine' \in Seq(Message)
  BY <1>2, <1>3, <1>4, <1>6, AbortsTyped
<1>8. handler' \in HandlerRecord /\ ~handler'.on
  BY <1>1, <1>3, OffTyped
<1>9. /\ DOMAIN queue' = Calls
      /\ \A g \in Calls : /\ queue'[g].last \in BOOLEAN
                         /\ queue'[g].err \in {"none", "dead", "input", "handler"}
  <2>. DEFINE q == [g \in Calls |-> Collected(outs, g)]
  <2>1. \A g \in Calls : q[g].last \in BOOLEAN /\ q[g].err \in {"none", "dead", "input", "handler"}
    BY <1>1, CollectedFacts DEF Typed
  <2>2. queue' = Told(q, StatesAfter(outs), "handler")
    BY <1>3, <1>4
  <2>. HIDE DEF q
  <2>. QED BY <2>1, <2>2, ToldTyped
<1>10. Typed'
  BY <1>1, <1>2, <1>3, <1>4, <1>6, <1>7, <1>8, <1>9 DEF Typed
<1>11. FeederInv' /\ WireInv' /\ CapInv'
  BY <1>1, <1>2, <1>3, <1>4, <1>6, SameWire, FewerStates DEF FeederInv
<1>12. HandlerInv' /\ ~Connected'
  BY <1>1, <1>3, <1>8 DEF HandlerInv, Connected
<1>. QED BY <1>10, <1>11, <1>12 DEF RInv, PathInv

\* The aborts the handler kept go out.
LEMMA HandlerAbortsKeeps ==
  ASSUME RInv, HandlerAborts
  PROVE  RInv'
<1>1. Typed /\ FeederInv /\ WireInv /\ HandlerInv /\ CapInv /\ PathInv
  BY DEF RInv
<1>2. /\ toEngine \in Seq(Message) /\ engine.inq \in Seq(Message) /\ setup \in Setups
      /\ states \in SUBSET AllIds
      /\ handler \in HandlerRecord
  BY <1>1 DEF Typed, Engine
<1>. USE SameSetup
<1>3. PICK aborts \in SUBSET AllIds : aborts = handler.aborts
  BY <1>2 DEF HandlerRecord
<1>4. /\ handler' = [handler EXCEPT !.aborts = {}] /\ SendAborts(aborts)
      /\ UNCHANGED <<setup, task, feeder, queue, got, states, client, engine, wire>>
  BY <1>3 DEF HandlerAborts, Engines
<1>5. /\ handler' \in HandlerRecord
      /\ handler'.on = handler.on /\ handler'.todo = handler.todo /\ handler'.aborts = {}
      /\ toEngine' \in Seq(Message)
  BY <1>2, <1>4, AbortsTyped DEF HandlerRecord
<1>6. Typed'
  BY <1>1, <1>4, <1>5 DEF Typed
<1>7. FeederInv' /\ WireInv' /\ CapInv'
  BY <1>1, <1>2, <1>4, SameWire, FewerStates DEF FeederInv
<1>8. HandlerInv'
  BY <1>1, <1>4, <1>5 DEF HandlerInv
<1>9. ASSUME Connected' PROVE OrderInv' /\ LastInv' /\ \A i \in AllIds' : RequestInv(i)'
  <2>1. OrderInv /\ LastInv /\ (\A i \in AllIds : RequestInv(i)) /\ ~client.dead
    BY <1>1, <1>4, <1>5, <1>9 DEF PathInv, Connected
  <2>2. \A i : /\ RunsOn(i)' <=> RunsOn(i)
               /\ RunsFinal(i)' <=> RunsFinal(i)
               /\ InAbortQueue(i)' <=> InAbortQueue(i)
               /\ Split(i)' <=> Split(i)
               /\ Open(i)' <=> Open(i)
               /\ Answered(i)' <=> Answered(i)
    BY <1>4, <1>5, SameRunning, SameAbortQueue, SameSplit, SameOpen, SameAnswers
  <2>3. /\ OrderInv'
        /\ \A i : /\ AddSent(i)' <=> AddSent(i)
                  /\ FinalSent(i)' <=> FinalSent(i)
                  /\ OnlyFinal(i)' <=> OnlyFinal(i)
                  /\ AbortSent(i)' <=> AbortSent(i) \/ i \in aborts
    BY <1>2, <1>4, <2>1, AfterAborts
  <2>4. LastInv'
    BY <1>4, <2>1, <2>2, SameLast
  <2>5. ASSUME NEW i \in AllIds PROVE RequestInv(i)'
    <3>1. RequestInv(i) /\ (i \in handler.aborts <=> i \in aborts)
      BY <1>3, <2>1
    <3>2. feeder'[i[1]] = feeder[i[1]] /\ Streams(i[1])' = Streams(i[1]) /\ states' = states
      BY <1>4
    <3>3. i \notin handler'.aborts
      BY <1>5
    <3>. QED BY <2>2, <2>3, <3>1, <3>2, <3>3
         DEF RequestInv, OpenInv, PlainInv, ServedInv, OrphanInv, AnswerInv, ForgottenInv
  <2>. QED BY <1>4, <2>3, <2>4, <2>5
<1>. QED BY <1>6, <1>7, <1>8, <1>9 DEF RInv, PathInv

-----------------------------------------------------------------------------
(* The theorems.                                                           *)

LEMMA NoFunctionFacts ==
  NoFunction \in Runs /\ DOMAIN NoFunction = {}
<1>1. DOMAIN NoFunction = {} /\ NoFunction \in [{} -> Work]
  BY DEF NoFunction
<1>. QED BY <1>1 DEF Runs

\* Nothing has been sent at the start.
LEMMA RInvInit ==
  ASSUME Init
  PROVE  RInv
<1>1. /\ setup \in Setups /\ states = {} /\ toEngine = <<>>
      /\ task = [g \in Calls |-> "new"]
      /\ feeder = [g \in Calls |-> [on |-> FALSE, sent |-> 0]]
      /\ queue = [g \in Calls |-> EmptyQueue] /\ got = [g \in Calls |-> <<>>]
  BY DEF Init
<1>2. /\ handler = [on |-> TRUE, todo |-> <<>>, aborts |-> {}, missed |-> {}]
      /\ client = [dead |-> FALSE, reading |-> TRUE, outputs |-> <<>>, known |-> FALSE, asked |-> {}]
  BY DEF Init
<1>3. engine = [alive |-> "up", inq |-> <<>>, abq |-> <<>>, running |-> NoFunction,
                batch |-> {}, outq |-> <<>>, refused |-> {}]
  BY DEF Init
<1>4. wire = [sent |-> <<>>, content |-> [b \in 1..Buffers |-> <<>>], pending |-> <<>>, free |-> <<>>]
  BY DEF Init
<1>5. engine \in Engine
  BY <1>3, EmptyFacts, NoFunctionFacts DEF Engine
<1>6. wire \in Wire
  <2>1. [b \in 1..Buffers |-> <<>>] \in [1..Buffers -> Answer \cup {<<>>}]
    OBVIOUS
  <2>2. <<>> \in Seq([buf : 0..Buffers]) /\ <<>> \in Seq(BufferIds)
    BY EmptyFacts
  <2>. QED BY <1>4, <2>1, <2>2 DEF Wire
<1>7. client \in Client
  BY <1>2, EmptyFacts DEF Client
<1>8. handler \in HandlerRecord
  BY <1>2, EmptyFacts DEF HandlerRecord
<1>9. /\ task \in [Calls -> Starting \cup {"reading"} \cup Ended]
      /\ feeder \in [Calls -> [on : BOOLEAN, sent : Nat]]
  BY <1>1 DEF Starting
<1>10. toEngine \in Seq(Message)
  BY <1>1, EmptyFacts
<1>11. DOMAIN queue = Calls /\ DOMAIN got = Calls
       /\ \A g \in Calls : queue[g].last = FALSE /\ queue[g].err = "none"
  BY <1>1 DEF EmptyQueue
<1>12. Typed
  BY <1>1, <1>5, <1>6, <1>7, <1>8, <1>9, <1>10, <1>11 DEF Typed
<1>13. FeederInv
  <2>1. \A g \in Calls : feeder[g].on = FALSE /\ feeder[g].sent = 0
    BY <1>1
  <2>. QED BY <1>1, <2>1, SetupFacts DEF FeederInv
<1>14. WireInv
  <2>1. wire.sent = <<>> /\ wire.pending = <<>> /\ wire.free = <<>>
    BY <1>4
  <2>. QED BY <2>1 DEF WireInv
<1>15. HandlerInv
  BY <1>2, <1>11 DEF HandlerInv
<1>16. CapInv
  <2>1. PlainStates = {}
    BY <1>1 DEF PlainStates
  <2>. QED BY <1>1, <2>1, SetupFacts, FS_EmptySet DEF CapInv
<1>17. PathInv
  <2>1. /\ engine.inq = <<>> /\ engine.abq = <<>> /\ engine.outq = <<>> /\ DOMAIN engine.running = {}
        /\ toEngine = <<>> /\ wire.sent = <<>> /\ client.outputs = <<>> /\ handler.todo = <<>>
        /\ handler.aborts = {}
    BY <1>1, <1>2, <1>3, <1>4, NoFunctionFacts
  <2>2. Messages = {}
    BY <2>1 DEF Messages, ToSet
  <2>3. \A id : ~AddSent(id) /\ ~AbortSent(id) /\ ~FinalSent(id) /\ OnlyFinal(id)
                /\ ~InAbortQueue(id) /\ ~RunsOn(id) /\ ~RunsFinal(id)
    BY <2>1, <2>2 DEF AddSent, AbortSent, FinalSent, OnlyFinal, InAbortQueue, RunsOn, RunsFinal
  <2>4. \A id : ~Answered(id)
    BY <2>1, AnsweredIs DEF InOutq, OnWire, InOutputs, InTodo
  <2>5. OrderInv
    BY <2>1, <2>3 DEF OrderInv, InOrder
  <2>6. LastInv
    BY <1>11 DEF LastInv
  <2>7. \A id \in AllIds : RequestInv(id)
    BY <1>1, <2>1, <2>3, <2>4
       DEF RequestInv, OpenInv, PlainInv, ServedInv, OrphanInv, AnswerInv, ForgottenInv
  <2>. QED BY <2>5, <2>6, <2>7 DEF PathInv
<1>. QED BY <1>12, <1>13, <1>14, <1>15, <1>16, <1>17 DEF RInv

LEMMA StutterKeeps ==
  ASSUME RInv, UNCHANGED vars
  PROVE  RInv'
<1>1. /\ UNCHANGED <<setup, task, feeder, queue, got, states, toEngine>>
      /\ engine' = engine /\ wire' = wire /\ client' = client /\ handler' = handler
  BY DEF vars
<1>. USE SameSetup
<1>2. Typed /\ WireInv /\ HandlerInv
  BY DEF RInv
<1>3. Typed' /\ HandlerInv'
  BY <1>1, <1>2 DEF Typed, HandlerInv
<1>4. WireInv'
  BY <1>1, <1>2, SameWire
<1>5. Connected' => Connected
  BY <1>1 DEF Connected
<1>6. \A id : Answered(id)' <=> Answered(id)
  BY <1>1, SameAnswers
<1>. QED BY <1>1, <1>3, <1>4, <1>5, <1>6, AnswerStep

LEMMA RInvNext ==
  ASSUME RInv, [Next]_vars
  PROVE  RInv'
<1>1. ASSUME NEW g \in Calls, Coroutine(g) PROVE RInv'
  BY <1>1, GenerateKeeps, ReadKeeps, CancelKeeps DEF Coroutine
<1>2. ASSUME NEW g \in Calls, Feed(g) PROVE RInv'
  BY <1>2, FeedChunkKeeps, FeedEndKeeps DEF Feed
<1>3. CASE InputThread
  BY <1>3, InputThreadKeeps
<1>4. CASE MainLoop
  BY <1>4, HandleInputKeeps, StepBeginKeeps, StepEndKeeps DEF MainLoop
<1>5. CASE OutputLoop
  BY <1>5, OutputThreadKeeps, OutputDeadKeeps DEF OutputLoop
<1>6. CASE Receive
  BY <1>6, ReceiveKeeps
<1>7. CASE MonitorSees \/ Shutdown
  BY <1>7, DeathKeeps
<1>8. CASE Handler
  BY <1>8, HandlerTakesKeeps, HandlerSliceKeeps, HandlerAbortsKeeps DEF Handler
<1>9. ASSUME NEW g \in Calls, Cancel(g) PROVE RInv'
  BY <1>9, CancelKeeps
<1>10. CASE PreprocessFails \/ ReaderFails \/ HandlerFails
  BY <1>10, PreprocessFailsKeeps, ReaderFailsKeeps, HandlerFailsKeeps
<1>11. CASE Raise \/ Kill
  BY <1>11, CrashKeeps
<1>12. CASE UNCHANGED vars
  BY <1>12, StutterKeeps
<1>. QED BY <1>1, <1>2, <1>3, <1>4, <1>5, <1>6, <1>7, <1>8, <1>9, <1>10, <1>11, <1>12 DEF Next, Progress

\* Whatever the calls do and however threads, queues and aborts interleave, a
\* request is followed exactly: the engine has let go of a request when the
\* answer that ends it is under way, what ends its input is behind all of it,
\* and nobody aborts a request that the front end still waits for.
THEOREM RInvAlways == Spec => []RInv
<1>1. Init => RInv
  BY RInvInit
<1>2. RInv /\ [Next]_vars => RInv'
  BY RInvNext
<1>. QED BY <1>1, <1>2, PTL DEF Spec

\* More requests than the cap are known only while a fan-out is among them.
LEMMA CapFollows ==
  ASSUME setup \in Setups, states \in SUBSET AllIds, CapInv
  PROVE  CapHeld
<1>1. SUFFICES ASSUME Cardinality(states) > setup.cap,
                      \A g \in Calls : ~(Shape(g).n > 1 /\ Ids(g) \cap states # {})
               PROVE  FALSE
  BY DEF CapHeld
<1>2. ASSUME NEW id \in states PROVE Shape(id[1]).n = 1
  <2>1. id[1] \in Calls /\ id \in Ids(id[1])
    BY IdFacts
  <2>2. ~(Shape(id[1]).n > 1) /\ Shape(id[1]).n \in Nat \ {0}
    BY <1>1, <2>1, SetupFacts
  <2>. QED BY <2>2
<1>3. PlainStates = states
  BY <1>2 DEF PlainStates
<1>4. Cardinality(states) \in Nat /\ setup.cap \in Nat
  BY IdsFinite, FS_Subset, FS_CardinalityType, SetupFacts
<1>. QED BY <1>1, <1>3, <1>4 DEF CapInv

LEMMA TypesFollow ==
  ASSUME Typed, FeederInv, WireInv
  PROVE  TypeOK
<1>1. /\ setup \in Setups /\ states \in SUBSET AllIds
      /\ task \in [Calls -> Starting \cup {"reading"} \cup Ended]
      /\ feeder \in [Calls -> [on : BOOLEAN, sent : Nat]]
      /\ \A g \in Calls : queue[g].err \in {"none", "dead", "input", "handler"}
  BY DEF Typed
<1>2. task \in [Calls -> {"new", "tasks", "inputs", "reading"} \cup Ended]
  <2>1. Starting \cup {"reading"} \cup Ended = {"new", "tasks", "inputs", "reading"} \cup Ended
    BY DEF Starting
  <2>. QED BY <1>1, <2>1
<1>3. engine \in Engine
  BY DEF Typed
<1>4. engine.running \in Runs /\ engine.batch \subseteq AllIds /\ engine.alive \in {"up", "dying", "dead"}
  BY <1>3 DEF Engine
<1>5. DOMAIN engine.running \subseteq AllIds
  BY <1>4, RunsFacts
<1>6. client.dead \in BOOLEAN /\ client.reading \in BOOLEAN /\ client.asked \subseteq Calls
  BY DEF Typed, Client
<1>7. handler.on \in BOOLEAN /\ handler.aborts \subseteq AllIds /\ handler.missed \subseteq Calls
  BY DEF Typed, HandlerRecord
<1>8. wire.pending \in Seq(BufferIds) /\ wire.free \in Seq(BufferIds)
  BY DEF Typed, Wire
<1>9. Len(wire.free) \in 0..2
  <2>1. Len(wire.free) \in Nat
    <3>1. PICK f \in Seq(BufferIds) : f = wire.free
      BY <1>8
    <3>. QED BY <3>1
  <2>2. Len(wire.free) <= 2
    BY DEF WireInv
  <2>3. ASSUME NEW n \in Nat, n <= 2 PROVE n \in 0..2
    BY <2>3
  <2>. QED BY <2>1, <2>2, <2>3
<1>10. ToSet(wire.pending) \subseteq 1..Buffers
  <2>1. ToSet(wire.pending) \subseteq BufferIds
    BY <1>8 DEF ToSet
  <2>. QED BY <2>1 DEF BufferIds
<1>11. ASSUME NEW g \in Calls
       PROVE /\ feeder[g].sent \in 0..Shape(g).chunks
             /\ feeder[g].on => task[g] = "reading"
  <2>1. feeder[g].sent \in Nat
    BY <1>1
  <2>. QED BY <1>1, <2>1, SetupFacts DEF FeederInv
<1>. QED BY <1>1, <1>2, <1>4, <1>5, <1>6, <1>7, <1>9, <1>10, <1>11 DEF TypeOK

\* Front end and engine agree on who is being served: no request runs for
\* nobody, none is waited for in vain, and the admission cap holds.
THEOREM AlwaysNoneLost == Spec => []NoneLost
<1>1. ASSUME RInv PROVE NoneLost
  <2>1. Typed /\ FeederInv /\ WireInv /\ CapInv /\ PathInv
    BY <1>1 DEF RInv
  <2>2. setup \in Setups /\ states \in SUBSET AllIds
    BY <2>1 DEF Typed
  <2>3. TypeOK /\ CapHeld
    BY <2>1, <2>2, TypesFollow, CapFollows
  <2>4. NoOrphans
    <3>1. ASSUME Connected, NEW id \in DOMAIN engine.running
          PROVE  \/ id \in states \/ id \in handler.aborts \/ Split(id)
                 \/ \E message \in Messages : message.type = "ABORT" /\ id \in message.ids
      <4>1. id \in AllIds
        BY <2>3 DEF TypeOK
      <4>2. RequestInv(id)
        BY <2>1, <3>1, <4>1 DEF PathInv
      <4>. QED BY <4>2 DEF RequestInv, OrphanInv, RunsOn, AbortSent, AbortOf
    <3>. QED BY <3>1 DEF NoOrphans
  <2>5. NothingForgotten
    <3>1. ASSUME Connected, NEW id \in states
          PROVE  \/ id \in DOMAIN engine.running /\ engine.running[id].final
                 \/ \E message \in Messages : message.type = "ADD" /\ message.id = id /\ message.final
                 \/ Answered(id)
                 \/ feeder[id[1]].on \/ Split(id)
      <4>1. id \in AllIds
        BY <2>2
      <4>2. RequestInv(id)
        BY <2>1, <3>1, <4>1 DEF PathInv
      <4>. QED BY <4>2 DEF RequestInv, ForgottenInv, RunsFinal, FinalSent, AddOf
    <3>. QED BY <3>1 DEF NothingForgotten
  <2>. QED BY <2>3, <2>4, <2>5 DEF NoneLost
<1>. QED BY <1>1, RInvAlways, PTL
=============================================================================
