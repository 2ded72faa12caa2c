--------------------------- MODULE DPWavesProofs ----------------------------
(***************************************************************************)
(* Proofs about DPWaves: for any number of ranks and requests, any         *)
(* intervals and any order of messages, ranks that meet in a collective    *)
(* are at the same step of the same wave (InLockstep), and they pause,     *)
(* sleep and resume as one (RanksTogether).                                *)
(*                                                                         *)
(* What callers must respect is Careful.  The inductive invariant WInv     *)
(* says that all ranks are always in the same wave, which no message is    *)
(* ahead of (WaveInv), and follows an operator's call through its phases   *)
(* on all ranks (Phased): nothing called; a pause on its way, before and   *)
(* after the ranks agreed on it; stopped; a resume on its way.             *)
(***************************************************************************)
EXTENDS DPWaves, SequenceTheorems, TLAPS

\* What callers respect: resume and wake_up follow the pause or sleep they
\* undo, and no pause in mode "wait" is issued where a sleep in mode "keep"
\* may have left scheduled requests on a sleeping rank, which would run them.
Careful ==
  /\ "paused" \in Discipline
  /\ \A c, d \in Calls : c.op = "sleep" /\ c.mode = "keep" /\ d.op \in {"pause", "sleep"}
                            => d.mode # "wait"

-----------------------------------------------------------------------------
(* The inductive invariant.                                                *)

ClientMessage ==
  [type : {"ADD"}, req : Requests, wave : Nat] \cup [type : {"ABORT"}, req : Requests]
    \cup [type : {"UTILITY"}, call : Calls]
StartMessage == [type : {"START"}, wave : Nat, exclude : Engines \cup {None}]
Report == [type : {"start", "complete"}, wave : Nat]
View == [wave : Nat, running : BOOLEAN]

\* What every variable ranges over.
Typed ==
  /\ eng \in [Engines -> Engine]
  /\ cin \in [Engines -> Seq(ClientMessage)]
  /\ kin \in [Engines -> Seq(StartMessage)]
  /\ kout \in [Engines -> Seq(Report)]
  /\ first \in Seq([target : Engines, wave : Nat])
  /\ coord \in View /\ client \in View
  /\ req \in [Requests -> {"new", "sent", "done", "aborted"}]
  /\ flight \in [Requests -> Engines \cup {None}]
  /\ call \in [op : {"none", "pause", "sleep", "resume", "wake"}, left : SUBSET Engines]
  /\ paused \in {"no", "pause", "sleep"}
  /\ nInputs \in 0..MaxInputs

\* All ranks are in one wave, and nobody speaks of a later one.
WaveInv ==
  /\ \A e, f \in Engines : eng[e].wave = eng[f].wave
  /\ \A e \in Engines :
       /\ coord.wave <= eng[e].wave /\ client.wave <= eng[e].wave
       /\ \A i \in DOMAIN cin[e] : cin[e][i].type = "ADD" => cin[e][i].wave <= eng[e].wave
       /\ \A i \in DOMAIN kin[e] : kin[e][i].wave <= eng[e].wave
       /\ \A i \in DOMAIN kout[e] :
            /\ kout[e][i].wave <= eng[e].wave
            /\ kout[e][i].type = "complete" => kout[e][i].wave < eng[e].wave

\* No call is on its way to a rank; exactly one is, and it is an op.
Clean(q) == \A i \in DOMAIN q : q[i].type # "UTILITY"
Once(q, op) ==
  \E i \in DOMAIN q : /\ q[i].type = "UTILITY" /\ q[i].call.op = op
                      /\ \A j \in DOMAIN q : j # i => q[j].type # "UTILITY"

\* A rank nobody has called.
Free(s) ==
  /\ s.pc # "resume" /\ s.pause = "UNPAUSED" /\ s.idleCall = NoCall
  /\ ~s.pending /\ ~s.ignore /\ ~s.asleep

\* Requests an idle sleeping rank has kept come from a sleep in mode "keep".
KeptAsleep(s) ==
  s.asleep /\ s.active # {} => \E c \in Calls : c.op = "sleep" /\ c.mode = "keep"

\* A rank that a pause has stopped.
Stopped(s) ==
  /\ s.pc = "idle" /\ s.step = 0 /\ s.pause # "UNPAUSED" /\ s.ignore
  /\ ~s.running /\ ~s.pending /\ ~Unfinished(s) /\ KeptAsleep(s)

\* A rank in the barrier of resume_scheduler.
Resuming(s) ==
  /\ s.pc = "resume" /\ s.step = 0 /\ s.pause = "UNPAUSED" /\ s.idleCall = NoCall
  /\ ~s.running /\ ~s.pending /\ ~s.ignore /\ ~s.asleep

\* The callback a pause has registered, and what it did to the scheduler.
Registered(s, op) ==
  /\ s.idleCall \in Calls /\ s.idleCall.op = op
  /\ s.pause = IF s.idleCall.mode = "keep" THEN "PAUSED_ALL" ELSE "PAUSED_NEW"

\* A sleeping rank that a second pause wakes only for the all-reduce.
Roused(s) ==
  /\ s.asleep /\ s.ignore /\ ~Unfinished(s) /\ KeptAsleep(s)
  /\ \/ s.pc \in {"idle", "drain"} /\ s.step = 0
     \/ s.pc = "sync" /\ s.step = 1

\* Nothing is called.
PhaseFree ==
  /\ paused = "no" /\ call.left = {}
  /\ \A e \in Engines : Free(eng[e]) /\ Clean(cin[e])
  /\ \A e, f \in Engines : eng[e].step = eng[f].step

\* A pause is on its way: some ranks have it, the others do not know of it.
Pausing == call.op \in {"pause", "sleep"} /\ call.left = Engines
Unaware(e) ==
  /\ Once(cin[e], call.op) /\ eng[e].idleCall = NoCall /\ ~eng[e].pending /\ eng[e].pc # "resume"
Aware(e) ==
  /\ Clean(cin[e]) /\ eng[e].pending /\ eng[e].running /\ eng[e].pc # "resume"
  /\ Registered(eng[e], call.op)

PhaseAwake ==
  /\ Pausing /\ paused = call.op
  /\ \A e \in Engines : (Unaware(e) \/ Aware(e)) /\ ~eng[e].asleep
  /\ \A e, f \in Engines : eng[e].step = eng[f].step

PhaseRoused ==
  /\ Pausing /\ paused = "sleep"
  /\ \A e \in Engines :
       /\ (Unaware(e) /\ Stopped(eng[e])) \/ (Aware(e) /\ Roused(eng[e]))
       /\ eng[e].asleep

\* The ranks have agreed on the pause and run until their requests are done.
PhaseAgreed ==
  /\ Pausing /\ paused = call.op
  /\ \A e \in Engines :
       /\ Clean(cin[e]) /\ Registered(eng[e], call.op) /\ eng[e].pc # "resume"
       /\ ~eng[e].pending /\ eng[e].ignore /\ eng[e].running /\ ~eng[e].asleep
  /\ \A e, f \in Engines : eng[e].step = eng[f].step

\* The pause has stopped every rank; some may not have answered yet.
PhaseStopped ==
  /\ paused # "no" /\ call.op \in {"pause", "sleep"}
  /\ \A e \in Engines :
       /\ Clean(cin[e]) /\ Stopped(eng[e])
       /\ e \in call.left => Registered(eng[e], call.op)
       /\ e \notin call.left => eng[e].idleCall = NoCall /\ (eng[e].asleep <=> paused = "sleep")
       /\ eng[e].asleep => paused = "sleep"
       /\ call.op = "pause" => (eng[e].asleep <=> paused = "sleep")
  /\ call.op = "sleep" => paused = "sleep"

\* A resume is on its way: ranks that have it wait for the others.
PhaseResuming ==
  /\ paused = "no" /\ call.op \in {"resume", "wake"} /\ call.left = Engines
  /\ \A e \in Engines :
       \/ /\ Once(cin[e], call.op) /\ Stopped(eng[e]) /\ eng[e].idleCall = NoCall
          /\ eng[e].asleep => call.op = "wake"
       \/ Clean(cin[e]) /\ Resuming(eng[e])

Phased ==
  PhaseFree \/ PhaseAwake \/ PhaseRoused \/ PhaseAgreed \/ PhaseStopped \/ PhaseResuming

WInv == Careful /\ Typed /\ WaveInv /\ Phased

-----------------------------------------------------------------------------
(* Lemmas on queues.                                                       *)

\* Reading a message takes it off the front.
LEMMA TailFacts ==
  ASSUME NEW S, NEW q \in Seq(S), q # <<>>
  PROVE  /\ Tail(q) \in Seq(S) /\ Head(q) \in S /\ Head(q) = q[1] /\ 1 \in DOMAIN q
         /\ \A i \in DOMAIN Tail(q) : i + 1 \in DOMAIN q /\ Tail(q)[i] = q[i + 1]
         /\ \A i \in DOMAIN q : i # 1 => i - 1 \in DOMAIN Tail(q) /\ Tail(q)[i - 1] = q[i]
         /\ \A i \in DOMAIN q : i \in Int
OBVIOUS

\* Sending one adds it at the end.
LEMMA AppendFacts ==
  ASSUME NEW S, NEW q \in Seq(S), NEW m \in S
  PROVE  /\ Append(q, m) \in Seq(S) /\ q \o <<m>> = Append(q, m) /\ q \o << >> = q
         /\ DOMAIN Append(q, m) = DOMAIN q \cup {Len(q) + 1} /\ Len(q) + 1 \notin DOMAIN q
         /\ \A i \in DOMAIN q : Append(q, m)[i] = q[i]
         /\ Append(q, m)[Len(q) + 1] = m
<1>1. q \o <<m>> = Append(q, m)
  BY AppendIsConcat
<1>2. q \o << >> = q
  BY ConcatEmptySeq
<1>. QED BY <1>1, <1>2

\* Other messages change nothing about the call under way.
LEMMA SendOther ==
  ASSUME NEW q \in Seq(ClientMessage), NEW m \in ClientMessage, m.type # "UTILITY"
  PROVE  /\ Clean(q) => Clean(Append(q, m))
         /\ \A op : Once(q, op) => Once(Append(q, m), op)
<1>. USE AppendFacts
<1>1. Clean(q) => Clean(Append(q, m))
  BY DEF Clean
<1>2. ASSUME NEW op, Once(q, op) PROVE Once(Append(q, m), op)
  <2>1. PICK i \in DOMAIN q : /\ q[i].type = "UTILITY" /\ q[i].call.op = op
                              /\ \A j \in DOMAIN q : j # i => q[j].type # "UTILITY"
    BY <1>2 DEF Once
  <2>2. i \in DOMAIN Append(q, m) /\ Append(q, m)[i] = q[i]
    OBVIOUS
  <2>3. \A j \in DOMAIN Append(q, m) : j # i => Append(q, m)[j].type # "UTILITY"
    BY <2>1
  <2>. QED BY <2>1, <2>2, <2>3 DEF Once
<1>. QED BY <1>1, <1>2

\* A call sent to a rank that has none under way is the only one.
LEMMA SendCall ==
  ASSUME NEW q \in Seq(ClientMessage), NEW m \in ClientMessage, m.type = "UTILITY", Clean(q)
  PROVE  Once(Append(q, m), m.call.op)
<1>. USE AppendFacts
<1>1. Len(q) + 1 \in DOMAIN Append(q, m)
  OBVIOUS
<1>2. \A j \in DOMAIN Append(q, m) : j # Len(q) + 1 => Append(q, m)[j].type # "UTILITY"
  BY DEF Clean
<1>. QED BY <1>1, <1>2 DEF Once

\* Reading: another message leaves the call where it is, and it is read once.
LEMMA Reading ==
  ASSUME NEW q \in Seq(ClientMessage), q # <<>>
  PROVE  /\ Clean(q) => Head(q).type # "UTILITY" /\ Clean(Tail(q))
         /\ \A op : Once(q, op) =>
              /\ Head(q).type # "UTILITY" => Once(Tail(q), op)
              /\ Head(q).type = "UTILITY" => Head(q).call.op = op /\ Clean(Tail(q))
<1>. USE TailFacts
<1>1. Clean(q) => Head(q).type # "UTILITY" /\ Clean(Tail(q))
  BY DEF Clean
<1>2. ASSUME NEW op, Once(q, op)
      PROVE /\ Head(q).type # "UTILITY" => Once(Tail(q), op)
            /\ Head(q).type = "UTILITY" => Head(q).call.op = op /\ Clean(Tail(q))
  <2>1. PICK k \in DOMAIN q : /\ q[k].type = "UTILITY" /\ q[k].call.op = op
                              /\ \A i \in DOMAIN q : i # k => q[i].type # "UTILITY"
    BY <1>2 DEF Once
  <2>2. CASE k = 1
    <3>1. Head(q).type = "UTILITY" /\ Head(q).call.op = op
      BY <2>1, <2>2
    <3>2. Clean(Tail(q))
      BY <2>1, <2>2 DEF Clean
    <3>. QED BY <3>1, <3>2
  <2>3. CASE k # 1
    <3>1. k - 1 \in DOMAIN Tail(q) /\ Tail(q)[k - 1] = q[k]
      BY <2>1, <2>3
    <3>2. \A i \in DOMAIN Tail(q) : i # k - 1 => Tail(q)[i].type # "UTILITY"
      BY <2>1, <2>3
    <3>3. Head(q).type # "UTILITY"
      BY <2>1, <2>3
    <3>. QED BY <2>1, <3>1, <3>2, <3>3 DEF Once
  <2>. QED BY <2>2, <2>3
<1>. QED BY <1>1, <1>2

-----------------------------------------------------------------------------
(* Lemmas on the state of a rank.                                          *)

\* The period of step_counter is a positive number.
LEMMA Period ==
  ASSUME DPAssumption
  PROVE  /\ SyncInterval * PrefillInterval \in Nat /\ SyncInterval * PrefillInterval >= 1
         /\ SyncInterval \in Nat /\ PrefillInterval \in Nat
<1>1. SyncInterval \in Nat \ {0} /\ PrefillInterval \in Nat \ {0}
  BY DEF DPAssumption
<1>2. \A a, b \in Nat : a >= 1 /\ b >= 1 => a * b \in Nat /\ a * b >= 1
  OBVIOUS
<1>. QED BY <1>1, <1>2

\* step_counter stays in its range, and counts from 0 to 1.
LEMMA NextStepFacts ==
  ASSUME DPAssumption, NEW n \in 0..(SyncInterval * PrefillInterval + 1)
  PROVE  NextStep(n) \in 0..(SyncInterval * PrefillInterval + 1) /\ (n = 0 => NextStep(n) = 1)
<1>. DEFINE P == SyncInterval * PrefillInterval
<1>1. P \in Nat /\ P >= 1
  BY Period
<1>2. NextStep(n) = IF n = P + 1 THEN 2 ELSE n + 1
  BY DEF NextStep
<1>3. n \in 0..(P + 1)
  OBVIOUS
<1>. HIDE DEF P
<1>4. NextStep(n) \in 0..(P + 1) /\ (n = 0 => NextStep(n) = 1)
  BY <1>1, <1>2, <1>3
<1>. QED BY <1>4 DEF P

\* There are at least two ranks.
LEMMA Ranks ==
  ASSUME DPAssumption
  PROVE  0 \in Engines /\ 1 \in Engines /\ Engines # {}
BY DEF DPAssumption, Engines

\* A step of a rank that no pause or resume sees: requests come, go and are
\* scheduled, and a wave may start it unless it is paused.
Soft(s, t) ==
  /\ s.pc \in {"idle", "drain"} /\ t.pc \in {"idle", "drain", "forward"}
  /\ t.wave = s.wave /\ t.step = s.step /\ t.pause = s.pause /\ t.idleCall = s.idleCall
  /\ t.pending = s.pending /\ t.ignore = s.ignore /\ t.asleep = s.asleep
  /\ s.running => t.running
  /\ s.ignore /\ s.pause # "UNPAUSED" /\ t.running => s.running
  /\ s.pause # "UNPAUSED" /\ ~Unfinished(s) => ~Unfinished(t) /\ t.active \subseteq s.active
  /\ s.pc = "idle" /\ ~HasWork(s) => t.pc = "idle"
  /\ s.asleep /\ s.pause # "UNPAUSED" /\ ~Unfinished(s) => t.pc # "forward"

\* Once there is work, the queue is drained.
LEMMA PolledFacts ==
  ASSUME NEW s \in Engine, s.pc \in {"idle", "drain"}
  PROVE  LET p == Polled(s)
         IN  /\ p \in Engine /\ p.pc \in {"idle", "drain"}
             /\ s.pc = "idle" /\ ~HasWork(s) => p.pc = "idle"
             /\ p.running = s.running /\ p.was = s.was /\ p.wave = s.wave /\ p.step = s.step
             /\ p.pending = s.pending /\ p.ignore = s.ignore /\ p.pause = s.pause
             /\ p.waiting = s.waiting /\ p.active = s.active /\ p.idleCall = s.idleCall
             /\ p.asleep = s.asleep
BY DEF Polled, Engine

\* add_request, for a request that is not of a later wave.
LEMMA AddFacts ==
  ASSUME NEW s \in Engine, s.pc \in {"idle", "drain"}, NEW r \in Requests, NEW w \in Nat, w <= s.wave
  PROVE  LET x == AddRequest(Polled(s), r, w)
         IN  /\ x.eng \in Engine /\ Soft(s, x.eng) /\ x.done = {} /\ ~x.answers
             /\ x.toCoord = <<>> \/ x.toCoord = <<StartWave(s.wave)>>
<1>. DEFINE p == Polled(s)  t == [p EXCEPT !.waiting = @ \cup {r}]  u == [t EXCEPT !.running = TRUE]
<1>1. /\ p \in Engine /\ p.pc \in {"idle", "drain"}
      /\ s.pc = "idle" /\ ~HasWork(s) => p.pc = "idle"
      /\ p.running = s.running /\ p.was = s.was /\ p.wave = s.wave /\ p.step = s.step
      /\ p.pending = s.pending /\ p.ignore = s.ignore /\ p.pause = s.pause
      /\ p.waiting = s.waiting /\ p.active = s.active /\ p.idleCall = s.idleCall
      /\ p.asleep = s.asleep
  BY PolledFacts
<1>. HIDE DEF p
<1>2. /\ t \in Engine /\ t.pc = p.pc /\ t.running = p.running /\ t.wave = p.wave /\ t.step = p.step
      /\ t.pending = p.pending /\ t.ignore = p.ignore /\ t.pause = p.pause /\ t.active = p.active
      /\ t.idleCall = p.idleCall /\ t.asleep = p.asleep
  BY <1>1 DEF Engine
<1>. HIDE DEF t
<1>3. /\ u \in Engine /\ u.pc = t.pc /\ u.running = TRUE /\ u.wave = t.wave /\ u.step = t.step
      /\ u.pending = t.pending /\ u.ignore = t.ignore /\ u.pause = t.pause /\ u.active = t.active
      /\ u.idleCall = t.idleCall /\ u.asleep = t.asleep
  BY <1>2 DEF Engine
<1>. HIDE DEF u
<1>4. Soft(s, t)
  BY <1>1, <1>2 DEF Soft, Unfinished
<1>5. s.pause = "UNPAUSED" => Soft(s, u)
  BY <1>1, <1>2, <1>3 DEF Soft
<1>6. s.wave \in Nat /\ ~(w > p.wave)
  BY <1>1 DEF Engine
<1>7. AddRequest(p, r, w) = IF w < p.wave /\ ~p.running /\ p.pause = "UNPAUSED"
                            THEN Result(u, <<StartWave(p.wave)>>, {}, FALSE) ELSE Quietly(t)
  BY <1>6 DEF AddRequest, t, u
<1>. QED BY <1>1, <1>2, <1>3, <1>4, <1>5, <1>7 DEF Result, Quietly, p

\* Dropping requests.
LEMMA DropFacts ==
  ASSUME NEW s \in Engine, NEW R
  PROVE  LET d == Drop(s, R)
         IN  /\ d \in Engine /\ d.pc = s.pc
             /\ d.running = s.running /\ d.was = s.was /\ d.wave = s.wave /\ d.step = s.step
             /\ d.pending = s.pending /\ d.ignore = s.ignore /\ d.pause = s.pause
             /\ d.waiting = s.waiting \ R /\ d.active = s.active \ R /\ d.idleCall = s.idleCall
             /\ d.asleep = s.asleep
BY DEF Drop, Engine

\* An abort.
LEMMA AbortFacts ==
  ASSUME NEW s \in Engine, s.pc \in {"idle", "drain"}, NEW R
  PROVE  Drop(Polled(s), R) \in Engine /\ Soft(s, Drop(Polled(s), R))
<1>. DEFINE p == Polled(s)  d == Drop(p, R)
<1>1. /\ p \in Engine /\ p.pc \in {"idle", "drain"}
      /\ s.pc = "idle" /\ ~HasWork(s) => p.pc = "idle"
      /\ p.running = s.running /\ p.was = s.was /\ p.wave = s.wave /\ p.step = s.step
      /\ p.pending = s.pending /\ p.ignore = s.ignore /\ p.pause = s.pause
      /\ p.waiting = s.waiting /\ p.active = s.active /\ p.idleCall = s.idleCall
      /\ p.asleep = s.asleep
  BY PolledFacts
<1>. HIDE DEF p
<1>2. /\ d \in Engine /\ d.pc = p.pc
      /\ d.running = p.running /\ d.was = p.was /\ d.wave = p.wave /\ d.step = p.step
      /\ d.pending = p.pending /\ d.ignore = p.ignore /\ d.pause = p.pause
      /\ d.waiting = p.waiting \ R /\ d.active = p.active \ R /\ d.idleCall = p.idleCall
      /\ d.asleep = p.asleep
  BY <1>1, DropFacts
<1>. HIDE DEF d
<1>3. Soft(s, d)
  BY <1>1, <1>2 DEF Soft, Unfinished
<1>. QED BY <1>2, <1>3 DEF d, p

\* START_DP_WAVE of a wave that is not later.
LEMMA StartFacts ==
  ASSUME NEW s \in Engine, s.pc \in {"idle", "drain"}, NEW e, NEW x, NEW w \in Nat, w <= s.wave
  PROVE  LET y == Start(Polled(s), e, w, x)
         IN  /\ y.eng \in Engine /\ Soft(s, y.eng) /\ y.done = {} /\ ~y.answers
             /\ y.toCoord = <<>>
<1>. DEFINE p == Polled(s)  t == [p EXCEPT !.wave = w, !.running = TRUE]
<1>1. /\ p \in Engine /\ p.pc \in {"idle", "drain"}
      /\ s.pc = "idle" /\ ~HasWork(s) => p.pc = "idle"
      /\ p.running = s.running /\ p.was = s.was /\ p.wave = s.wave /\ p.step = s.step
      /\ p.pending = s.pending /\ p.ignore = s.ignore /\ p.pause = s.pause
      /\ p.waiting = s.waiting /\ p.active = s.active /\ p.idleCall = s.idleCall
      /\ p.asleep = s.asleep
  BY PolledFacts
<1>. HIDE DEF p
<1>2. /\ t \in Engine /\ t.pc = p.pc /\ t.running = TRUE /\ t.wave = w /\ t.step = p.step
      /\ t.pending = p.pending /\ t.ignore = p.ignore /\ t.pause = p.pause /\ t.active = p.active
      /\ t.idleCall = p.idleCall /\ t.asleep = p.asleep /\ t.waiting = p.waiting
  BY <1>1 DEF Engine
<1>. HIDE DEF t
<1>3. s.wave \in Nat
  BY DEF Engine
<1>4. ~p.ignore /\ w >= p.wave => Soft(s, t)
  BY <1>1, <1>2, <1>3 DEF Soft, Unfinished
<1>5. Soft(s, p)
  BY <1>1 DEF Soft, Unfinished
<1>6. Start(p, e, w, x) = Quietly(IF ~p.ignore /\ x # e /\ w >= p.wave THEN t ELSE p)
  BY DEF Start, t
<1>. QED BY <1>1, <1>2, <1>4, <1>5, <1>6 DEF Result, Quietly, p

\* The end of a collective step: the rank goes to the all-reduce or on.
LEMMA CountFacts ==
  ASSUME DPAssumption, NEW e, NEW d \in Engine
  PROVE  LET x == CountStep(e, d)  t == x.eng
         IN  /\ t \in Engine /\ t.step = NextStep(d.step) /\ t.pc \in {"sync", "idle"}
             /\ SyncDue(t.step) => t.pc = "sync" /\ t.running = d.running
             /\ d.running => t.running
             /\ t.wave = d.wave /\ t.pending = d.pending /\ t.ignore = d.ignore
             /\ t.pause = d.pause /\ t.waiting = d.waiting /\ t.active = d.active
             /\ t.idleCall = d.idleCall /\ t.asleep = d.asleep
             /\ x.toCoord = <<>> \/ x.toCoord = <<StartWave(d.wave)>>
             /\ x.toCoord = <<>> \/ t.running
             /\ x.done = {} /\ ~x.answers
<1>. DEFINE n == NextStep(d.step)  u == [d EXCEPT !.step = n]
            v == [u EXCEPT !.pc = "sync"]  r == [u EXCEPT !.running = TRUE]  w == LoopTop(r)
<1>1. d.step \in 0..(SyncInterval * PrefillInterval + 1)
  BY DEF Engine
<1>2. n \in 0..(SyncInterval * PrefillInterval + 1)
  BY <1>1, NextStepFacts
<1>. HIDE DEF n
<1>3. /\ u \in Engine /\ u.step = n /\ u.running = d.running /\ u.was = d.was /\ u.pc = d.pc
      /\ u.wave = d.wave /\ u.pending = d.pending /\ u.ignore = d.ignore
      /\ u.pause = d.pause /\ u.waiting = d.waiting /\ u.active = d.active
      /\ u.idleCall = d.idleCall /\ u.asleep = d.asleep
  BY <1>2 DEF Engine
<1>. HIDE DEF u
<1>4. /\ v \in Engine /\ v.step = u.step /\ v.running = u.running /\ v.pc = "sync"
      /\ v.wave = u.wave /\ v.pending = u.pending /\ v.ignore = u.ignore
      /\ v.pause = u.pause /\ v.waiting = u.waiting /\ v.active = u.active
      /\ v.idleCall = u.idleCall /\ v.asleep = u.asleep
  BY <1>3 DEF Engine
<1>5. /\ r \in Engine /\ r.step = u.step /\ r.running = TRUE
      /\ r.wave = u.wave /\ r.pending = u.pending /\ r.ignore = u.ignore
      /\ r.pause = u.pause /\ r.waiting = u.waiting /\ r.active = u.active
      /\ r.idleCall = u.idleCall /\ r.asleep = u.asleep
  BY <1>3 DEF Engine
<1>. HIDE DEF v, r
<1>6. /\ w \in Engine /\ w.step = r.step /\ w.running = r.running /\ w.pc = "idle"
      /\ w.wave = r.wave /\ w.pending = r.pending /\ w.ignore = r.ignore
      /\ w.pause = r.pause /\ w.waiting = r.waiting /\ w.active = r.active
      /\ w.idleCall = r.idleCall /\ w.asleep = r.asleep
  BY <1>5 DEF Engine, LoopTop
<1>. HIDE DEF w
<1>. DEFINE z == IF e = 0 /\ ~u.was /\ ~u.pending THEN <<StartWave(u.wave)>> ELSE <<>>
<1>7. CountStep(e, d) = IF SyncDue(u.step)
        THEN [eng |-> v, toCoord |-> <<>>, done |-> {}, answers |-> FALSE]
        ELSE [eng |-> w, toCoord |-> z, done |-> {}, answers |-> FALSE]
  BY DEF CountStep, AfterSync, Quietly, Result, n, u, v, w, r, z
<1>8. z = <<>> \/ z = <<StartWave(u.wave)>>
  BY DEF z
<1>. HIDE DEF z
<1>9. CASE SyncDue(u.step)
  BY <1>3, <1>4, <1>7, <1>9 DEF n
<1>10. CASE ~SyncDue(u.step)
  BY <1>3, <1>5, <1>6, <1>7, <1>8, <1>10 DEF n
<1>. QED BY <1>9, <1>10

\* The step of a rank that is awake, up to its forward pass.
LEMMA StepAwake ==
  ASSUME NEW e, NEW s \in Engine, ~s.asleep, s.pc = "drain" \/ (s.pc = "idle" /\ HasWork(s))
  PROVE  LET x == Step(e, s)
         IN  /\ x.eng \in Engine /\ Soft(s, x.eng) /\ x.done = {} /\ ~x.answers
             /\ x.toCoord = <<>>
<1>. DEFINE R == Scheduled(s)
            t == [s EXCEPT !.pc = "forward", !.active = @ \cup R, !.waiting = @ \ R]
            u == LoopTop(s)
            v == [s EXCEPT !.pc = "forward"]
<1>1. R \subseteq s.active \cup s.waiting
  BY DEF Scheduled, Admitted
<1>2. s.pause # "UNPAUSED" /\ ~Unfinished(s) => R = {}
  BY DEF Scheduled, Admitted, Unfinished, Engine
<1>. HIDE DEF R
<1>3. /\ t \in Engine /\ t.pc = "forward" /\ t.running = s.running /\ t.wave = s.wave
      /\ t.step = s.step /\ t.pause = s.pause /\ t.idleCall = s.idleCall /\ t.pending = s.pending
      /\ t.ignore = s.ignore /\ t.asleep = s.asleep
  BY <1>1 DEF Engine
<1>4. /\ u \in Engine /\ u.pc = "idle" /\ u.running = s.running /\ u.wave = s.wave
      /\ u.step = s.step /\ u.pause = s.pause /\ u.idleCall = s.idleCall /\ u.pending = s.pending
      /\ u.ignore = s.ignore /\ u.asleep = s.asleep /\ u.active = s.active /\ u.waiting = s.waiting
  BY DEF Engine, LoopTop
<1>5. /\ v \in Engine /\ v.pc = "forward" /\ v.running = s.running /\ v.wave = s.wave
      /\ v.step = s.step /\ v.pause = s.pause /\ v.idleCall = s.idleCall /\ v.pending = s.pending
      /\ v.ignore = s.ignore /\ v.asleep = s.asleep /\ v.active = s.active /\ v.waiting = s.waiting
  BY DEF Engine
<1>. HIDE DEF t, u, v
<1>6. R # {} => Soft(s, t)
  BY <1>2, <1>3 DEF Soft
<1>7. Soft(s, u) /\ Soft(s, v)
  BY <1>4, <1>5 DEF Soft, Unfinished
<1>8. Step(e, s) = IF R # {} THEN Quietly(t)
                   ELSE IF ~Unfinished(s) /\ ~s.running THEN Quietly(u) ELSE Quietly(v)
  BY DEF Step, t, u, v, R
<1>. QED BY <1>3, <1>4, <1>5, <1>6, <1>7, <1>8 DEF Quietly, Result

\* A sleeping rank that a pause has roused goes straight to the all-reduce.
LEMMA StepAsleep ==
  ASSUME DPAssumption, NEW e, NEW s \in Engine, Roused(s), s.running, s.pause # "UNPAUSED", s.step = 0
  PROVE  LET x == Step(e, s)  t == x.eng
         IN  /\ t \in Engine /\ Roused(t) /\ t.pc = "sync" /\ t.step = 1 /\ t.running
             /\ t.wave = s.wave /\ t.pending = s.pending /\ t.ignore = s.ignore
             /\ t.pause = s.pause /\ t.waiting = s.waiting /\ t.active = s.active
             /\ t.idleCall = s.idleCall /\ t.asleep = s.asleep
             /\ x.toCoord = <<>> \/ x.toCoord = <<StartWave(s.wave)>>
             /\ x.done = {} /\ ~x.answers
<1>1. Scheduled(s) = {}
  BY DEF Roused, Unfinished, Scheduled, Admitted, Engine
<1>2. Step(e, s) = CountStep(e, s)
  BY <1>1 DEF Step, Roused
<1>. DEFINE x == CountStep(e, s)  t == x.eng
<1>3. s.step \in 0..(SyncInterval * PrefillInterval + 1)
  BY DEF Engine
<1>4. NextStep(s.step) = 1
  BY <1>3, NextStepFacts
<1>5. t \in Engine /\ t.step = NextStep(s.step)
  BY CountFacts
<1>9. SyncDue(t.step) => t.pc = "sync" /\ t.running = s.running
  BY CountFacts
<1>10. t.wave = s.wave /\ t.pending = s.pending /\ t.ignore = s.ignore
  BY CountFacts
<1>11. t.pause = s.pause /\ t.waiting = s.waiting /\ t.active = s.active
  BY CountFacts
<1>12. t.idleCall = s.idleCall /\ t.asleep = s.asleep
  BY CountFacts
<1>8. /\ x.toCoord = <<>> \/ x.toCoord = <<StartWave(s.wave)>>
      /\ x.done = {} /\ ~x.answers
  BY CountFacts
<1>. HIDE DEF x
<1>6. t.pc = "sync" /\ t.step = 1 /\ t.running = s.running
  BY <1>4, <1>5, <1>9 DEF SyncDue
<1>. HIDE DEF t
<1>7. Roused(t)
  BY <1>6, <1>10, <1>11, <1>12 DEF Roused, Unfinished, KeptAsleep
<1>. QED BY <1>2, <1>5, <1>6, <1>7, <1>8, <1>10, <1>11, <1>12 DEF t, x

-----------------------------------------------------------------------------
(* A phase goes on.                                                        *)

\* Ranks take soft steps, or none, and no call is sent or read.
LEMMA PhaseKeeps ==
  ASSUME Typed, Phased, call' = call, paused' = paused,
         \A o \in Engines : Clean(cin[o]) => Clean(cin'[o]),
         \A o \in Engines : \A op : Once(cin[o], op) => Once(cin'[o], op),
         \A o \in Engines : eng'[o] = eng[o] \/ Soft(eng[o], eng'[o])
  PROVE  Phased'
<1>0. \A o \in Engines : eng[o] \in Engine
  BY DEF Typed
<1>1. CASE PhaseFree
  <2>1. \A o \in Engines : Free(eng'[o])
    BY <1>1 DEF PhaseFree, Free, Soft
  <2>2. \A o \in Engines : eng'[o].step = eng[o].step
    BY DEF Soft
  <2>3. PhaseFree'
    BY <1>1, <2>1, <2>2 DEF PhaseFree
  <2>. QED BY <2>3 DEF Phased
<1>2. ASSUME NEW o \in Engines, Unaware(o) PROVE Unaware(o)'
  BY <1>2 DEF Unaware, Soft
<1>3. ASSUME NEW o \in Engines, Aware(o) PROVE Aware(o)'
  BY <1>3 DEF Aware, Soft, Registered
<1>4. ASSUME NEW o \in Engines, Stopped(eng[o])
      PROVE  Stopped(eng'[o]) /\ eng'[o].idleCall = eng[o].idleCall /\ eng'[o].asleep = eng[o].asleep
               /\ eng'[o].pause = eng[o].pause
  BY <1>0, <1>4 DEF Stopped, Soft, HasWork, KeptAsleep
<1>5. CASE PhaseAwake
  <2>1. \A o \in Engines : eng'[o].step = eng[o].step /\ eng'[o].asleep = eng[o].asleep
    BY DEF Soft
  <2>2. \A o \in Engines : (Unaware(o)' \/ Aware(o)') /\ ~eng'[o].asleep
    BY <1>2, <1>3, <1>5, <2>1 DEF PhaseAwake
  <2>3. PhaseAwake'
    BY <1>5, <2>1, <2>2 DEF PhaseAwake, Pausing
  <2>. QED BY <2>3 DEF Phased
<1>6. CASE PhaseRoused
  <2>1. ASSUME NEW o \in Engines
        PROVE  ((Unaware(o)' /\ Stopped(eng'[o])) \/ (Aware(o)' /\ Roused(eng'[o]))) /\ eng'[o].asleep
    <3>1. CASE Unaware(o) /\ Stopped(eng[o])
      BY <1>2, <1>4, <1>6, <3>1 DEF PhaseRoused
    <3>2. CASE Aware(o) /\ Roused(eng[o])
      <4>1. eng[o].pause # "UNPAUSED"
        BY <3>2 DEF Aware, Registered
      <4>2. Roused(eng'[o])
        BY <1>0, <3>2, <4>1 DEF Roused, Soft, KeptAsleep
      <4>. QED BY <1>3, <3>2, <4>2 DEF Roused
    <3>. QED BY <1>6, <3>1, <3>2 DEF PhaseRoused
  <2>2. PhaseRoused'
    BY <1>6, <2>1 DEF PhaseRoused, Pausing
  <2>. QED BY <2>2 DEF Phased
<1>7. CASE PhaseAgreed
  <2>1. ASSUME NEW o \in Engines
        PROVE  /\ Registered(eng'[o], call.op) /\ eng'[o].pc # "resume"
               /\ ~eng'[o].pending /\ eng'[o].ignore /\ eng'[o].running /\ ~eng'[o].asleep
               /\ eng'[o].step = eng[o].step
    BY <1>7 DEF PhaseAgreed, Soft, Registered
  <2>2. PhaseAgreed'
    BY <1>7, <2>1 DEF PhaseAgreed, Pausing
  <2>. QED BY <2>2 DEF Phased
<1>8. CASE PhaseStopped
  <2>1. ASSUME NEW o \in Engines
        PROVE  /\ Stopped(eng'[o]) /\ eng'[o].idleCall = eng[o].idleCall
               /\ eng'[o].asleep = eng[o].asleep /\ eng'[o].pause = eng[o].pause
    BY <1>4, <1>8 DEF PhaseStopped
  <2>2. PhaseStopped'
    BY <1>8, <2>1 DEF PhaseStopped, Registered
  <2>. QED BY <2>2 DEF Phased
<1>9. CASE PhaseResuming
  <2>1. ASSUME NEW o \in Engines
        PROVE \/ /\ Once(cin'[o], call.op) /\ Stopped(eng'[o]) /\ eng'[o].idleCall = NoCall
                 /\ eng'[o].asleep => call.op = "wake"
              \/ Clean(cin'[o]) /\ Resuming(eng'[o])
    <3>1. CASE Once(cin[o], call.op) /\ Stopped(eng[o]) /\ eng[o].idleCall = NoCall
                 /\ (eng[o].asleep => call.op = "wake")
      BY <1>4, <3>1
    <3>2. CASE Clean(cin[o]) /\ Resuming(eng[o])
      BY <3>2 DEF Resuming, Soft
    <3>. QED BY <1>9, <3>1, <3>2 DEF PhaseResuming
  <2>2. PhaseResuming'
    BY <1>9, <2>1 DEF PhaseResuming
  <2>. QED BY <2>2 DEF Phased
<1>. QED BY <1>1, <1>5, <1>6, <1>7, <1>8, <1>9 DEF Phased

-----------------------------------------------------------------------------
(* What is kept by every step: types, and the wave.                        *)

\* Nothing that is read or sent on the queues is of a later wave.
Timely ==
  /\ cin' \in [Engines -> Seq(ClientMessage)] /\ kin' \in [Engines -> Seq(StartMessage)]
  /\ first' \in Seq([target : Engines, wave : Nat])
  /\ \A o \in Engines : \A i \in DOMAIN cin'[o] :
       cin'[o][i].type = "ADD" => cin'[o][i].wave <= eng[o].wave
  /\ \A o \in Engines : \A i \in DOMAIN kin'[o] : kin'[o][i].wave <= eng[o].wave

\* What the ranks report: nothing, or the start of the wave they are in.
LEMMA ReportKeeps ==
  ASSUME NEW q \in Seq(Report), NEW w \in Nat, NEW z, z = <<>> \/ z = <<StartWave(w)>>,
         \A i \in DOMAIN q : q[i].wave <= w /\ (q[i].type = "complete" => q[i].wave < w)
  PROVE  /\ q \o z \in Seq(Report)
         /\ \A i \in DOMAIN (q \o z) : /\ (q \o z)[i].wave <= w
                                       /\ (q \o z)[i].type = "complete" => (q \o z)[i].wave < w
<1>1. StartWave(w) \in Report /\ StartWave(w).wave = w /\ StartWave(w).type = "start"
  BY DEF StartWave, Report
<1>2. CASE z = <<>>
  <2>1. q \o z = q
    BY <1>2, ConcatEmptySeq
  <2>. QED BY <2>1
<1>3. CASE z = <<StartWave(w)>>
  <2>. DEFINE m == StartWave(w)
  <2>1. m \in Report /\ m.wave = w /\ m.type # "complete"
    BY <1>1
  <2>. HIDE DEF m
  <2>2. q \o <<m>> = Append(q, m)
    BY <2>1, AppendFacts
  <2>3. Append(q, m) \in Seq(Report)
    BY <2>1
  <2>4. \A i \in DOMAIN Append(q, m) : /\ Append(q, m)[i].wave <= w
                                       /\ Append(q, m)[i].type = "complete" => Append(q, m)[i].wave < w
    BY <2>1, AppendFacts
  <2>. QED BY <1>3, <2>2, <2>3, <2>4 DEF m
<1>. QED BY <1>2, <1>3

\* The client's end of a handler.
LEMMA EndFacts ==
  ASSUME Typed, NEW R, End(R)
  PROVE  req' \in [Requests -> {"new", "sent", "done", "aborted"}]
           /\ flight' \in [Requests -> Engines \cup {None}]
BY DEF Typed, End

\* A rank that stays in its wave and reports no other keeps types and waves.
LEMMA EffectKeeps ==
  ASSUME Typed, WaveInv, NEW e \in Engines, NEW x, x.eng \in Engine, x.eng.wave = eng[e].wave,
         x.toCoord = <<>> \/ x.toCoord = <<StartWave(eng[e].wave)>>,
         Effect(e, x), Timely, UNCHANGED <<coord, client, paused, nInputs>>
  PROVE  Typed' /\ WaveInv'
<1>1. /\ eng' \in [Engines -> Engine] /\ eng'[e] = x.eng
      /\ \A o \in Engines : o # e => eng'[o] = eng[o]
  BY DEF Typed, Effect
<1>2. \A o \in Engines : eng'[o].wave = eng[o].wave /\ eng[o].wave \in Nat
  BY <1>1 DEF Typed, Engine
<1>3. kout' = [kout EXCEPT ![e] = kout[e] \o x.toCoord]
  BY DEF Effect
<1>4. \A o \in Engines :
        /\ kout[o] \in Seq(Report)
        /\ \A i \in DOMAIN kout[o] :
             kout[o][i].wave <= eng[o].wave
               /\ (kout[o][i].type = "complete" => kout[o][i].wave < eng[o].wave)
  BY DEF Typed, WaveInv
<1>5. /\ kout[e] \o x.toCoord \in Seq(Report)
      /\ \A i \in DOMAIN (kout[e] \o x.toCoord) :
           /\ (kout[e] \o x.toCoord)[i].wave <= eng[e].wave
           /\ (kout[e] \o x.toCoord)[i].type = "complete" => (kout[e] \o x.toCoord)[i].wave < eng[e].wave
  BY <1>2, <1>4, ReportKeeps
<1>6. /\ kout' \in [Engines -> Seq(Report)]
      /\ kout'[e] = kout[e] \o x.toCoord /\ \A o \in Engines : o # e => kout'[o] = kout[o]
  BY <1>3, <1>5 DEF Typed
<1>7. \A o \in Engines : \A i \in DOMAIN kout'[o] :
        kout'[o][i].wave <= eng[o].wave
          /\ (kout'[o][i].type = "complete" => kout'[o][i].wave < eng[o].wave)
  BY <1>4, <1>5, <1>6
<1>8. call' \in [op : {"none", "pause", "sleep", "resume", "wake"}, left : SUBSET Engines]
  BY DEF Typed, Effect, Answer
<1>9. req' \in [Requests -> {"new", "sent", "done", "aborted"}]
         /\ flight' \in [Requests -> Engines \cup {None}]
  BY EndFacts DEF Effect
<1>10. Typed'
  BY <1>1, <1>6, <1>8, <1>9 DEF Typed, Timely
<1>11. WaveInv'
  BY <1>2, <1>7 DEF WaveInv, Timely
<1>. QED BY <1>10, <1>11

\* Reading a message leaves timely ones.
LEMMA ReadTimely ==
  ASSUME Typed, WaveInv, NEW e \in Engines, first' = first,
         \/ cin[e] # <<>> /\ cin' = [cin EXCEPT ![e] = Tail(cin[e])] /\ kin' = kin
         \/ kin[e] # <<>> /\ kin' = [kin EXCEPT ![e] = Tail(kin[e])] /\ cin' = cin
         \/ cin' = cin /\ kin' = kin
  PROVE  Timely
<1>0. \A o \in Engines : cin[o] \in Seq(ClientMessage) /\ kin[o] \in Seq(StartMessage)
  BY DEF Typed
<1>00. /\ first' \in Seq([target : Engines, wave : Nat])
       /\ cin \in [Engines -> Seq(ClientMessage)] /\ kin \in [Engines -> Seq(StartMessage)]
       /\ \A o \in Engines : \A i \in DOMAIN cin[o] : cin[o][i].type = "ADD" => cin[o][i].wave <= eng[o].wave
       /\ \A o \in Engines : \A i \in DOMAIN kin[o] : kin[o][i].wave <= eng[o].wave
  BY DEF Typed, WaveInv
<1>1. CASE cin[e] # <<>> /\ cin' = [cin EXCEPT ![e] = Tail(cin[e])] /\ kin' = kin
  <2>1. /\ Tail(cin[e]) \in Seq(ClientMessage)
        /\ \A i \in DOMAIN Tail(cin[e]) : i + 1 \in DOMAIN cin[e] /\ Tail(cin[e])[i] = cin[e][i + 1]
    BY <1>0, <1>1, TailFacts
  <2>2. \A o \in Engines : \A i \in DOMAIN cin'[o] :
          cin'[o][i].type = "ADD" => cin'[o][i].wave <= eng[o].wave
    BY <1>00, <1>1, <2>1
  <2>3. cin' \in [Engines -> Seq(ClientMessage)]
    BY <1>00, <1>1, <2>1
  <2>. QED BY <1>00, <1>1, <2>2, <2>3 DEF Timely
<1>2. CASE kin[e] # <<>> /\ kin' = [kin EXCEPT ![e] = Tail(kin[e])] /\ cin' = cin
  <2>1. /\ Tail(kin[e]) \in Seq(StartMessage)
        /\ \A i \in DOMAIN Tail(kin[e]) : i + 1 \in DOMAIN kin[e] /\ Tail(kin[e])[i] = kin[e][i + 1]
    BY <1>0, <1>2, TailFacts
  <2>2. \A o \in Engines : \A i \in DOMAIN kin'[o] : kin'[o][i].wave <= eng[o].wave
    BY <1>00, <1>2, <2>1
  <2>3. kin' \in [Engines -> Seq(StartMessage)]
    BY <1>00, <1>2, <2>1
  <2>. QED BY <1>00, <1>2, <2>2, <2>3 DEF Timely
<1>3. CASE cin' = cin /\ kin' = kin
  BY <1>00, <1>3 DEF Timely
<1>. QED BY <1>1, <1>2, <1>3

\* Steps that leave the ranks and their reports alone.
LEMMA SendKeeps ==
  ASSUME Typed, WaveInv, Timely, eng' = eng,
         kout' = kout \/ \E e \in Engines : kout[e] # <<>> /\ kout' = [kout EXCEPT ![e] = Tail(kout[e])],
         coord' \in View, client' \in View,
         \A o \in Engines : coord'.wave <= eng[o].wave /\ client'.wave <= eng[o].wave,
         req' \in [Requests -> {"new", "sent", "done", "aborted"}],
         flight' \in [Requests -> Engines \cup {None}],
         call' \in [op : {"none", "pause", "sleep", "resume", "wake"}, left : SUBSET Engines],
         paused' \in {"no", "pause", "sleep"}, nInputs' \in 0..MaxInputs
  PROVE  Typed' /\ WaveInv'
<1>0. /\ kout \in [Engines -> Seq(Report)]
      /\ \A o \in Engines : \A i \in DOMAIN kout[o] :
             kout[o][i].wave <= eng[o].wave
               /\ (kout[o][i].type = "complete" => kout[o][i].wave < eng[o].wave)
  BY DEF Typed, WaveInv
<1>1. /\ kout' \in [Engines -> Seq(Report)]
      /\ \A o \in Engines : \A i \in DOMAIN kout'[o] :
             kout'[o][i].wave <= eng[o].wave
               /\ (kout'[o][i].type = "complete" => kout'[o][i].wave < eng[o].wave)
  <2>1. CASE kout' = kout
    BY <1>0, <2>1
  <2>2. ASSUME NEW e \in Engines, kout[e] # <<>>, kout' = [kout EXCEPT ![e] = Tail(kout[e])]
        PROVE  <1>1!1 /\ <1>1!2
    <3>0. kout[e] \in Seq(Report)
      BY <1>0
    <3>1. /\ Tail(kout[e]) \in Seq(Report)
          /\ \A i \in DOMAIN Tail(kout[e]) : i + 1 \in DOMAIN kout[e] /\ Tail(kout[e])[i] = kout[e][i + 1]
      BY <2>2, <3>0, TailFacts
    <3>2. kout' \in [Engines -> Seq(Report)]
      BY <1>0, <2>2, <3>1
    <3>3. kout'[e] = Tail(kout[e]) /\ \A o \in Engines : o # e => kout'[o] = kout[o]
      BY <1>0, <2>2
    <3>4. \A i \in DOMAIN Tail(kout[e]) :
             Tail(kout[e])[i].wave <= eng[e].wave
               /\ (Tail(kout[e])[i].type = "complete" => Tail(kout[e])[i].wave < eng[e].wave)
      BY <1>0, <3>1
    <3>. QED BY <1>0, <3>2, <3>3, <3>4
  <2>. QED BY <2>1, <2>2
<1>2. Typed'
  BY <1>1 DEF Typed, Timely
<1>3. WaveInv'
  BY <1>1 DEF WaveInv, Timely
<1>. QED BY <1>2, <1>3

-----------------------------------------------------------------------------
(* A rank reads a message.                                                 *)

\* pause_scheduler or sleep, on a rank in its input loop.
LEMMA PauseFacts ==
  ASSUME DPAssumption, NEW s \in Engine, s.pc \in {"idle", "drain"},
         NEW c \in Calls, c.op \in {"pause", "sleep"}
  PROVE  LET x == PauseScheduler(Polled(s), c)  t == x.eng
         IN  /\ t \in Engine /\ t.pc \in {"idle", "drain"} /\ t.running /\ t.pending
             /\ t.idleCall = c
             /\ t.pause = IF c.mode = "keep" THEN "PAUSED_ALL" ELSE "PAUSED_NEW"
             /\ t.wave = s.wave /\ t.step = s.step /\ t.ignore = s.ignore /\ t.asleep = s.asleep
             /\ t.active = IF c.mode = "abort" THEN {} ELSE s.active
             /\ x.toCoord = <<>> /\ ~x.answers
<1>. DEFINE p == Polled(s)  gone == IF c.mode = "abort" THEN p.waiting \cup p.active ELSE {}
            d == Drop(p, gone)
            t == [d EXCEPT !.pause = IF c.mode = "keep" THEN "PAUSED_ALL" ELSE "PAUSED_NEW",
                           !.pending = TRUE, !.running = TRUE, !.idleCall = c]
<1>0. c \in Call
  BY DEF DPAssumption
<1>1. /\ p \in Engine /\ p.pc \in {"idle", "drain"} /\ p.wave = s.wave /\ p.step = s.step
      /\ p.ignore = s.ignore /\ p.active = s.active /\ p.asleep = s.asleep
  BY PolledFacts
<1>. HIDE DEF p
<1>2. /\ d \in Engine /\ d.pc = p.pc /\ d.wave = p.wave /\ d.step = p.step
      /\ d.ignore = p.ignore /\ d.active = p.active \ gone /\ d.asleep = p.asleep
  BY <1>1, DropFacts
<1>. HIDE DEF d
<1>3. /\ t \in Engine /\ t.pc = d.pc /\ t.running = TRUE /\ t.pending = TRUE /\ t.idleCall = c
      /\ t.pause = IF c.mode = "keep" THEN "PAUSED_ALL" ELSE "PAUSED_NEW"
      /\ t.wave = d.wave /\ t.step = d.step /\ t.ignore = d.ignore /\ t.asleep = d.asleep
      /\ t.active = d.active
  BY <1>0, <1>2 DEF Engine
<1>4. PauseScheduler(p, c) = [eng |-> t, toCoord |-> <<>>, done |-> gone, answers |-> FALSE]
  BY DEF PauseScheduler, Result, t, d, gone
<1>. HIDE DEF t
<1>5. t.active = IF c.mode = "abort" THEN {} ELSE s.active
  BY <1>1, <1>2, <1>3
<1>. HIDE DEF gone
<1>. QED BY <1>1, <1>2, <1>3, <1>4, <1>5 DEF p

\* resume_scheduler or wake_up, on a stopped rank.
LEMMA ResumeFacts ==
  ASSUME DPAssumption, NEW s \in Engine, Stopped(s), s.idleCall = NoCall,
         NEW c \in Calls, c.op \in {"resume", "wake"}, s.asleep => c.op = "wake"
  PROVE  LET x == Utility(Polled(s), c)
         IN  /\ x.eng \in Engine /\ Resuming(x.eng) /\ x.eng.wave = s.wave
             /\ x.toCoord = <<>> /\ ~x.answers
<1>. DEFINE p == Polled(s)  w == [s EXCEPT !.asleep = FALSE]
            t == [s EXCEPT !.pause = "UNPAUSED", !.ignore = FALSE, !.pc = "resume"]
            u == [w EXCEPT !.pause = "UNPAUSED", !.ignore = FALSE, !.pc = "resume"]
<1>1. p = s
  BY DEF Polled, HasWork, Stopped
<1>2. /\ w \in Engine /\ w.running = s.running /\ w.pending = s.pending /\ w.wave = s.wave
      /\ w.step = s.step /\ w.idleCall = s.idleCall /\ w.asleep = FALSE
  BY DEF Engine
<1>3. /\ t \in Engine /\ t.running = s.running /\ t.pending = s.pending /\ t.wave = s.wave
      /\ t.step = s.step /\ t.idleCall = s.idleCall /\ t.asleep = s.asleep
      /\ t.pause = "UNPAUSED" /\ t.ignore = FALSE /\ t.pc = "resume"
  BY DEF Engine
<1>. HIDE DEF w
<1>4. /\ u \in Engine /\ u.running = w.running /\ u.pending = w.pending /\ u.wave = w.wave
      /\ u.step = w.step /\ u.idleCall = w.idleCall /\ u.asleep = w.asleep
      /\ u.pause = "UNPAUSED" /\ u.ignore = FALSE /\ u.pc = "resume"
  BY <1>2 DEF Engine
<1>5. ~s.running /\ ~s.pending /\ s.step = 0
  BY DEF Stopped
<1>6. CASE c.op = "resume"
  <2>1. Utility(p, c) = Quietly(t)
    BY <1>1, <1>5, <1>6 DEF Utility, ResumeScheduler
  <2>2. ~s.asleep
    BY <1>6
  <2>3. Resuming(t)
    BY <1>3, <1>5, <2>2 DEF Resuming
  <2>. HIDE DEF t
  <2>. QED BY <1>3, <2>1, <2>3 DEF Quietly, Result
<1>7. CASE c.op = "wake"
  <2>1. Utility(p, c) = Quietly(u)
    BY <1>1, <1>2, <1>5, <1>7 DEF Utility, WakeUp, ResumeScheduler, w
  <2>2. Resuming(u)
    BY <1>2, <1>4, <1>5 DEF Resuming
  <2>. HIDE DEF u
  <2>. QED BY <1>2, <1>4, <2>1, <2>2 DEF Quietly, Result
<1>. QED BY <1>6, <1>7

\* A message of the client that is not a call is a soft step.
LEMMA ReadSoftly ==
  ASSUME WInv, NEW e \in Engines, eng[e].pc \in {"idle", "drain"}, cin[e] # <<>>,
         Head(cin[e]).type # "UTILITY"
  PROVE  LET x == Handle(e, Polled(eng[e]), Head(cin[e]))
         IN  /\ x.eng \in Engine /\ Soft(eng[e], x.eng) /\ ~x.answers
             /\ x.toCoord = <<>> \/ x.toCoord = <<StartWave(eng[e].wave)>>
<1>. DEFINE s == eng[e]  m == Head(cin[e])
<1>1. s \in Engine /\ cin[e] \in Seq(ClientMessage)
  BY DEF WInv, Typed
<1>2. m \in ClientMessage /\ m = cin[e][1] /\ 1 \in DOMAIN cin[e]
  BY <1>1, TailFacts
<1>3. CASE m.type = "ADD"
  <2>1. m.req \in Requests /\ m.wave \in Nat
    BY <1>2, <1>3 DEF ClientMessage
  <2>2. m.wave <= s.wave
    BY <1>2, <1>3 DEF WInv, WaveInv
  <2>3. Handle(e, Polled(s), m) = AddRequest(Polled(s), m.req, m.wave)
    BY <1>3 DEF Handle
  <2>. HIDE DEF s, m
  <2>4. s.pc \in {"idle", "drain"}
    BY DEF s
  <2>5. AddRequest(Polled(s), m.req, m.wave).eng \in Engine
    BY <1>1, <2>1, <2>2, <2>4, AddFacts
  <2>6. Soft(s, AddRequest(Polled(s), m.req, m.wave).eng)
    BY <1>1, <2>1, <2>2, <2>4, AddFacts
  <2>7. /\ ~AddRequest(Polled(s), m.req, m.wave).answers
        /\ \/ AddRequest(Polled(s), m.req, m.wave).toCoord = <<>>
           \/ AddRequest(Polled(s), m.req, m.wave).toCoord = <<StartWave(s.wave)>>
    BY <1>1, <2>1, <2>2, <2>4, AddFacts
  <2>. QED BY <2>3, <2>5, <2>6, <2>7 DEF s, m
<1>4. CASE m.type = "ABORT"
  <2>. DEFINE gone == {m.req} \cap (Polled(s).waiting \cup Polled(s).active)
              d == Drop(Polled(s), gone)
  <2>1. Handle(e, Polled(s), m) = [eng |-> d, toCoord |-> <<>>, done |-> gone, answers |-> FALSE]
    BY <1>4 DEF Handle, Result
  <2>2. d \in Engine /\ Soft(s, d)
    BY <1>1, AbortFacts
  <2>. HIDE DEF d, gone
  <2>. QED BY <2>1, <2>2
<1>5. m.type \in {"ADD", "ABORT"}
  BY <1>2 DEF ClientMessage
<1>. QED BY <1>3, <1>4, <1>5

\* A soft step of one rank keeps the phase.
LEMMA SoftKeeps ==
  ASSUME WInv, NEW e \in Engines, NEW x, x.eng \in Engine, Soft(eng[e], x.eng), ~x.answers,
         Effect(e, x), paused' = paused,
         \/ cin' = cin
         \/ cin[e] # <<>> /\ Head(cin[e]).type # "UTILITY" /\ cin' = [cin EXCEPT ![e] = Tail(cin[e])]
  PROVE  Phased'
<1>1. /\ \A o \in Engines : eng'[o] = eng[o] \/ Soft(eng[o], eng'[o])
      /\ call' = call
  BY DEF WInv, Typed, Effect, Answer
<1>2. \A o \in Engines : cin[o] \in Seq(ClientMessage)
  BY DEF WInv, Typed
<1>3. \A o \in Engines : /\ Clean(cin[o]) => Clean(cin'[o])
                         /\ \A op : Once(cin[o], op) => Once(cin'[o], op)
  <2>1. CASE cin' = cin
    BY <2>1
  <2>2. CASE cin[e] # <<>> /\ Head(cin[e]).type # "UTILITY" /\ cin' = [cin EXCEPT ![e] = Tail(cin[e])]
    <3>1. cin[e] \in Seq(ClientMessage) /\ cin[e] # <<>>
      BY <1>2, <2>2
    <3>2. Clean(cin[e]) => Clean(Tail(cin[e]))
      BY <3>1, Reading
    <3>3. \A op : Once(cin[e], op) => Once(Tail(cin[e]), op)
      BY <2>2, <3>1, Reading
    <3>4. cin'[e] = Tail(cin[e]) /\ \A o \in Engines : o # e => cin'[o] = cin[o]
      BY <2>2 DEF WInv, Typed
    <3>. QED BY <3>2, <3>3, <3>4
  <2>. QED BY <2>1, <2>2
<1>. QED BY <1>1, <1>3, PhaseKeeps DEF WInv

\* A call reaches a rank: the pause is registered, or the rank joins the barrier.
LEMMA ReadCall ==
  ASSUME DPAssumption, WInv, NEW e \in Engines, ReceiveClient(e), Head(cin[e]).type = "UTILITY"
  PROVE  WInv'
<1>. DEFINE s == eng[e]  m == Head(cin[e])  c == m.call  x == Handle(e, Polled(s), m)
<1>1. s \in Engine /\ cin[e] \in Seq(ClientMessage) /\ cin[e] # <<>> /\ s.pc \in {"idle", "drain"}
  BY DEF WInv, Typed, ReceiveClient, ReceiveFrom
<1>2. m \in ClientMessage
  BY <1>1, TailFacts
<1>3. c \in Calls /\ c \in Call
  BY <1>2 DEF ClientMessage, DPAssumption
<1>4. x = Utility(Polled(s), c)
  BY DEF Handle
<1>5. /\ Effect(e, x) /\ UNCHANGED <<first, coord, client, paused, nInputs, kin>>
      /\ cin' = [cin EXCEPT ![e] = Tail(cin[e])]
  BY DEF ReceiveClient, ReceiveFrom
<1>6. Timely
  BY <1>1, <1>5, ReadTimely DEF WInv
<1>7. ~Clean(cin[e]) /\ \A op : Once(cin[e], op) => c.op = op /\ Clean(Tail(cin[e]))
  BY <1>1, Reading
<1>8. cin'[e] = Tail(cin[e]) /\ \A o \in Engines : o # e => cin'[o] = cin[o]
  BY <1>5 DEF WInv, Typed
<1>9. \A o \in Engines : o # e => eng'[o] = eng[o]
  BY <1>5 DEF WInv, Typed, Effect
<1>10. eng'[e] = x.eng
  BY <1>5 DEF WInv, Typed, Effect
<1>. HIDE DEF x, c, m
<1>11. CASE c.op \in {"pause", "sleep"}
  <2>0. x = PauseScheduler(Polled(s), c)
    BY <1>4, <1>11 DEF Utility
  <2>. DEFINE t == x.eng
  <2>1. t \in Engine /\ t.pc \in {"idle", "drain"} /\ t.running /\ t.pending
    BY <1>1, <1>3, <1>11, <2>0, PauseFacts
  <2>2. t.idleCall = c /\ t.pause = IF c.mode = "keep" THEN "PAUSED_ALL" ELSE "PAUSED_NEW"
    BY <1>1, <1>3, <1>11, <2>0, PauseFacts
  <2>3. t.wave = s.wave /\ t.step = s.step /\ t.ignore = s.ignore /\ t.asleep = s.asleep
    BY <1>1, <1>3, <1>11, <2>0, PauseFacts
  <2>4. t.active = IF c.mode = "abort" THEN {} ELSE s.active
    BY <1>1, <1>3, <1>11, <2>0, PauseFacts
  <2>5. x.toCoord = <<>> /\ ~x.answers
    BY <1>1, <1>3, <1>11, <2>0, PauseFacts
  <2>6. Typed' /\ WaveInv'
    BY <1>5, <1>6, <2>1, <2>3, <2>5, EffectKeeps DEF WInv
  <2>7. call' = call
    BY <1>5, <2>5 DEF Effect, Answer
  <2>. HIDE DEF t
  <2>8. Pausing => Aware(e)' \/ c.op # call.op \/ ~Clean(Tail(cin[e]))
    BY <1>3, <1>8, <1>10, <2>1, <2>2, <2>7 DEF Aware, Registered, t
  <2>9. CASE PhaseAwake
    <3>1. Unaware(e)
      BY <1>7, <2>9 DEF PhaseAwake, Aware
    <3>2. Aware(e)'
      BY <1>7, <2>8, <2>9, <3>1 DEF Unaware, PhaseAwake
    <3>3. \A o \in Engines : o # e => (Unaware(o) => Unaware(o)') /\ (Aware(o) => Aware(o)')
      BY <1>8, <1>9, <2>7 DEF Unaware, Aware
    <3>4. \A o \in Engines : eng'[o].asleep = eng[o].asleep /\ eng'[o].step = eng[o].step
      BY <1>9, <1>10, <2>3 DEF t
    <3>5. PhaseAwake'
      BY <1>5, <2>7, <2>9, <3>2, <3>3, <3>4 DEF PhaseAwake, Pausing
    <3>. QED BY <2>6, <3>5 DEF WInv, Phased
  <2>10. CASE PhaseRoused
    <3>1. Unaware(e) /\ Stopped(s) /\ s.asleep
      BY <1>7, <2>10 DEF PhaseRoused, Aware
    <3>2. Aware(e)'
      BY <1>7, <2>8, <2>10, <3>1 DEF Unaware, PhaseRoused
    <3>3. \A o \in Engines : o # e => (Unaware(o) => Unaware(o)') /\ (Aware(o) => Aware(o)')
      BY <1>8, <1>9, <2>7 DEF Unaware, Aware
    <3>4. \A o \in Engines : eng'[o].asleep = eng[o].asleep
      BY <1>9, <1>10, <2>3 DEF t
    <3>5. s.active # {} => c.mode # "wait"
      BY <1>3, <1>11, <3>1 DEF Stopped, KeptAsleep, WInv, Careful
    <3>6. c.mode \in {"abort", "wait", "keep"}
      BY <1>3, <1>11 DEF Call
    <3>7. ~Unfinished(t)
      BY <2>2, <2>4, <3>5, <3>6 DEF Unfinished
    <3>8. KeptAsleep(t)
      BY <2>3, <2>4, <3>1 DEF Stopped, KeptAsleep
    <3>9. Roused(t)
      BY <2>1, <2>3, <3>1, <3>7, <3>8 DEF Roused, Stopped
    <3>10. ASSUME NEW o \in Engines
           PROVE  /\ (Unaware(o)' /\ Stopped(eng'[o])) \/ (Aware(o)' /\ Roused(eng'[o]))
                  /\ eng'[o].asleep
      <4>1. CASE o = e
        BY <1>10, <2>3, <3>1, <3>2, <3>9, <4>1 DEF t
      <4>2. CASE o # e
        BY <1>9, <2>10, <3>3, <4>2 DEF PhaseRoused
      <4>. QED BY <4>1, <4>2
    <3>11. PhaseRoused'
      BY <1>5, <2>7, <2>10, <3>10 DEF PhaseRoused, Pausing
    <3>. QED BY <2>6, <3>11 DEF WInv, Phased
  <2>11. ~PhaseFree /\ ~PhaseAgreed /\ ~PhaseStopped
    BY <1>7 DEF PhaseFree, PhaseAgreed, PhaseStopped
  <2>12. ~PhaseResuming
    <3>1. PhaseResuming => Once(cin[e], call.op) /\ call.op \in {"resume", "wake"}
      BY <1>7 DEF PhaseResuming
    <3>. QED BY <1>7, <1>11, <3>1
  <2>. QED BY <2>9, <2>10, <2>11, <2>12 DEF WInv, Phased
<1>12. CASE c.op \in {"resume", "wake"}
  <2>1. ~PhaseAwake /\ ~PhaseRoused
    <3>1. PhaseAwake \/ PhaseRoused => Once(cin[e], call.op) /\ call.op \in {"pause", "sleep"}
      BY <1>7 DEF PhaseAwake, PhaseRoused, Unaware, Aware, Pausing
    <3>. QED BY <1>7, <1>12, <3>1
  <2>2. ~PhaseFree /\ ~PhaseAgreed /\ ~PhaseStopped
    BY <1>7 DEF PhaseFree, PhaseAgreed, PhaseStopped
  <2>3. PhaseResuming
    BY <2>1, <2>2 DEF WInv, Phased
  <2>4. /\ Once(cin[e], call.op) /\ Stopped(s) /\ s.idleCall = NoCall
        /\ s.asleep => call.op = "wake"
    BY <1>7, <2>3 DEF PhaseResuming
  <2>5. c.op = call.op /\ Clean(cin'[e])
    BY <1>7, <1>8, <2>4
  <2>6. x.eng \in Engine /\ Resuming(x.eng)
    BY <1>1, <1>3, <1>4, <1>12, <2>4, <2>5, ResumeFacts
  <2>7. x.eng.wave = s.wave /\ x.toCoord = <<>> /\ ~x.answers
    BY <1>1, <1>3, <1>4, <1>12, <2>4, <2>5, ResumeFacts
  <2>8. Typed' /\ WaveInv'
    BY <1>5, <1>6, <2>6, <2>7, EffectKeeps DEF WInv
  <2>9. call' = call
    BY <1>5, <2>7 DEF Effect, Answer
  <2>10. PhaseResuming'
    <3>1. ASSUME NEW o \in Engines
          PROVE  \/ /\ Once(cin'[o], call.op) /\ Stopped(eng'[o]) /\ eng'[o].idleCall = NoCall
                    /\ eng'[o].asleep => call.op = "wake"
                 \/ Clean(cin'[o]) /\ Resuming(eng'[o])
      <4>1. CASE o = e
        BY <1>10, <2>5, <2>6, <4>1
      <4>2. CASE o # e
        BY <1>8, <1>9, <2>3, <4>2 DEF PhaseResuming
      <4>. QED BY <4>1, <4>2
    <3>. QED BY <1>5, <2>3, <2>9, <3>1 DEF PhaseResuming
  <2>. QED BY <2>8, <2>10 DEF WInv, Phased
<1>13. c.op \in {"pause", "sleep", "resume", "wake"}
  BY <1>3 DEF Call
<1>. QED BY <1>11, <1>12, <1>13

\* _process_input_queue, a message of the client.
LEMMA ReceiveClientKeeps ==
  ASSUME DPAssumption, WInv, NEW e \in Engines, ReceiveClient(e)
  PROVE  WInv'
<1>1. CASE Head(cin[e]).type = "UTILITY"
  BY <1>1, ReadCall
<1>2. CASE Head(cin[e]).type # "UTILITY"
  <2>. DEFINE x == Handle(e, Polled(eng[e]), Head(cin[e]))
  <2>1. cin[e] # <<>> /\ eng[e].pc \in {"idle", "drain"}
    BY DEF ReceiveClient, ReceiveFrom
  <2>2. x.eng \in Engine /\ Soft(eng[e], x.eng) /\ ~x.answers
    BY <1>2, <2>1, ReadSoftly
  <2>3. x.toCoord = <<>> \/ x.toCoord = <<StartWave(eng[e].wave)>>
    BY <1>2, <2>1, ReadSoftly
  <2>4. /\ Effect(e, x) /\ UNCHANGED <<first, coord, client, paused, nInputs, kin>>
        /\ cin' = [cin EXCEPT ![e] = Tail(cin[e])]
    BY DEF ReceiveClient, ReceiveFrom
  <2>. HIDE DEF x
  <2>5. Timely
    BY <2>1, <2>4, ReadTimely DEF WInv
  <2>6. x.eng.wave = eng[e].wave
    BY <2>2 DEF Soft
  <2>7. Typed' /\ WaveInv'
    BY <2>2, <2>3, <2>4, <2>5, <2>6, EffectKeeps DEF WInv
  <2>8. Phased'
    BY <1>2, <2>1, <2>2, <2>4, SoftKeeps
  <2>. QED BY <2>7, <2>8 DEF WInv
<1>. QED BY <1>1, <1>2

\* _process_input_queue, a START_DP_WAVE of the coordinator.
LEMMA ReceiveCoordinatorKeeps ==
  ASSUME DPAssumption, WInv, NEW e \in Engines, ReceiveCoordinator(e)
  PROVE  WInv'
<1>. DEFINE s == eng[e]  m == Head(kin[e])  x == Handle(e, Polled(s), m)
<1>1. s \in Engine /\ kin[e] \in Seq(StartMessage) /\ kin[e] # <<>> /\ s.pc \in {"idle", "drain"}
  BY DEF WInv, Typed, ReceiveCoordinator, ReceiveFrom
<1>2. m \in StartMessage /\ m = kin[e][1] /\ 1 \in DOMAIN kin[e]
  BY <1>1, TailFacts
<1>3. m.type = "START" /\ m.wave \in Nat /\ m.wave <= s.wave
  BY <1>2 DEF StartMessage, WInv, WaveInv
<1>4. x = Start(Polled(s), e, m.wave, m.exclude)
  BY <1>3 DEF Handle
<1>5. /\ Effect(e, x) /\ UNCHANGED <<first, coord, client, paused, nInputs, cin>>
      /\ kin' = [kin EXCEPT ![e] = Tail(kin[e])]
  BY DEF ReceiveCoordinator, ReceiveFrom
<1>. HIDE DEF x, m
<1>6. x.eng \in Engine /\ Soft(s, x.eng)
  BY <1>1, <1>3, <1>4, StartFacts
<1>7. ~x.answers /\ x.toCoord = <<>>
  BY <1>1, <1>3, <1>4, StartFacts
<1>8. Timely
  BY <1>1, <1>5, ReadTimely DEF WInv
<1>9. x.eng.wave = s.wave
  BY <1>6 DEF Soft
<1>10. Typed' /\ WaveInv'
  BY <1>5, <1>6, <1>7, <1>8, <1>9, EffectKeeps DEF WInv
<1>11. Phased'
  BY <1>5, <1>6, <1>7, SoftKeeps
<1>. QED BY <1>10, <1>11 DEF WInv

-----------------------------------------------------------------------------
(* A rank answers, and begins a step.                                      *)

\* _notify_idle_state_callbacks: only a stopped rank answers a pause or sleep.
LEMMA IdleCallbackKeeps ==
  ASSUME DPAssumption, WInv, NEW e \in Engines, IdleCallback(e)
  PROVE  WInv'
<1>. DEFINE s == eng[e]
            t == [s EXCEPT !.idleCall = NoCall, !.asleep = @ \/ s.idleCall.op = "sleep"]
<1>1. s \in Engine /\ s.pc = "idle" /\ ~HasWork(s) /\ s.idleCall # NoCall
  BY DEF WInv, Typed, IdleCallback
<1>2. eng' = [eng EXCEPT ![e] = t]
  BY DEF IdleCallback, WInv, Typed
<1>3. UNCHANGED <<cin, kin, kout, first, coord, client, req, flight, paused, nInputs>>
  BY DEF IdleCallback, net
<1>4. call' = [call EXCEPT !.left = call.left \ {e}]
  BY DEF IdleCallback, Answer
<1>5. PhaseStopped
  BY <1>1 DEF WInv, Phased, PhaseFree, Free, PhaseAwake, PhaseRoused, PhaseAgreed, PhaseResuming,
              Unaware, Aware, Resuming, HasWork
<1>6. /\ Stopped(s) /\ Registered(s, call.op) /\ e \in call.left
      /\ s.asleep => paused = "sleep" 
      /\ call.op = "pause" => (s.asleep <=> paused = "sleep")
      /\ call.op = "sleep" => paused = "sleep"
  BY <1>1, <1>5 DEF PhaseStopped
<1>7. s.idleCall.op = call.op
  BY <1>6 DEF Registered
<1>8. /\ t \in Engine /\ t.pc = s.pc /\ t.running = s.running /\ t.wave = s.wave /\ t.step = s.step
      /\ t.pending = s.pending /\ t.ignore = s.ignore /\ t.pause = s.pause
      /\ t.waiting = s.waiting /\ t.active = s.active /\ t.idleCall = NoCall
  BY <1>1 DEF Engine
<1>9. t.asleep <=> (s.asleep \/ call.op = "sleep")
  BY <1>1, <1>7 DEF Engine
<1>. HIDE DEF t
<1>10. KeptAsleep(t)
  <2>1. SUFFICES ASSUME t.asleep, t.active # {} PROVE \E c \in Calls : c.op = "sleep" /\ c.mode = "keep"
    BY DEF KeptAsleep
  <2>2. CASE s.asleep
    BY <1>6, <1>8, <2>1, <2>2 DEF Stopped, KeptAsleep
  <2>3. CASE ~s.asleep
    <3>1. s.idleCall.op = "sleep" /\ s.idleCall \in Calls
      BY <1>6, <1>7, <1>9, <2>1, <2>3 DEF Registered
    <3>2. s.idleCall.mode = "keep"
      BY <1>6, <1>8, <2>1 DEF Stopped, Registered, Unfinished
    <3>. QED BY <3>1, <3>2
  <2>. QED BY <2>2, <2>3
<1>11. Stopped(t)
  BY <1>6, <1>8, <1>10 DEF Stopped, Unfinished
<1>12. t.asleep <=> paused = "sleep"
  <2>1. call.op \in {"pause", "sleep"}
    BY <1>5 DEF PhaseStopped
  <2>. QED BY <1>6, <1>9, <2>1
<1>13. eng' \in [Engines -> Engine] /\ eng'[e] = t /\ \A o \in Engines : o # e => eng'[o] = eng[o]
  BY <1>2, <1>8 DEF WInv, Typed
<1>14. /\ call' \in [op : {"none", "pause", "sleep", "resume", "wake"}, left : SUBSET Engines]
       /\ call'.op = call.op /\ call'.left = call.left \ {e}
  BY <1>4 DEF WInv, Typed
<1>15. Typed'
  BY <1>3, <1>13, <1>14 DEF WInv, Typed
<1>16. \A o \in Engines : eng'[o].wave = eng[o].wave
  BY <1>8, <1>13
<1>17. WaveInv'
  BY <1>3, <1>16 DEF WInv, WaveInv
<1>18. ASSUME NEW o \in Engines
       PROVE  /\ Clean(cin[o]) /\ Stopped(eng'[o])
              /\ o \in call'.left => Registered(eng'[o], call.op)
              /\ o \notin call'.left => eng'[o].idleCall = NoCall /\ (eng'[o].asleep <=> paused = "sleep")
              /\ eng'[o].asleep => paused = "sleep"
              /\ call.op = "pause" => (eng'[o].asleep <=> paused = "sleep")
  <2>1. CASE o = e
    BY <1>5, <1>8, <1>11, <1>12, <1>13, <1>14, <2>1 DEF PhaseStopped
  <2>2. CASE o # e
    BY <1>5, <1>13, <1>14, <2>2 DEF PhaseStopped
  <2>. QED BY <2>1, <2>2
<1>19. PhaseStopped'
  BY <1>3, <1>5, <1>14, <1>18 DEF PhaseStopped
<1>. QED BY <1>15, <1>17, <1>19 DEF WInv, Phased

\* run_busy_loop, up to the collective of the step.
LEMMA BeginStepKeeps ==
  ASSUME DPAssumption, WInv, NEW e \in Engines, BeginStep(e)
  PROVE  WInv'
<1>. DEFINE s == eng[e]  x == Step(e, s)
<1>1. s \in Engine /\ (s.pc = "drain" \/ (s.pc = "idle" /\ HasWork(s)))
  BY DEF WInv, Typed, BeginStep
<1>2. Effect(e, x) /\ UNCHANGED <<cin, kin, first, coord, client, paused, nInputs>>
  BY DEF BeginStep
<1>3. Timely
  BY <1>2, ReadTimely DEF WInv
<1>4. CASE ~s.asleep
  <2>1. x.eng \in Engine /\ Soft(s, x.eng)
    BY <1>1, <1>4, StepAwake
  <2>2. ~x.answers /\ x.toCoord = <<>>
    BY <1>1, <1>4, StepAwake
  <2>. HIDE DEF x
  <2>3. x.eng.wave = s.wave
    BY <2>1 DEF Soft
  <2>4. Typed' /\ WaveInv'
    BY <1>2, <1>3, <2>1, <2>2, <2>3, EffectKeeps DEF WInv
  <2>5. Phased'
    BY <1>2, <2>1, <2>2, SoftKeeps
  <2>. QED BY <2>4, <2>5 DEF WInv
<1>5. CASE s.asleep
  <2>1. PhaseRoused
    <3>1. ~PhaseFree /\ ~PhaseAwake /\ ~PhaseAgreed
      BY <1>5 DEF PhaseFree, Free, PhaseAwake, PhaseAgreed
    <3>2. ~Stopped(s) /\ ~Resuming(s)
      BY <1>1 DEF Stopped, Resuming, HasWork
    <3>3. ~PhaseStopped /\ ~PhaseResuming
      BY <3>2 DEF PhaseStopped, PhaseResuming
    <3>. QED BY <3>1, <3>3 DEF WInv, Phased
  <2>2. Aware(e) /\ Roused(s)
    BY <1>1, <2>1 DEF PhaseRoused, Stopped, HasWork
  <2>3. s.running /\ s.pause # "UNPAUSED" /\ s.step = 0
    BY <1>1, <2>2 DEF Aware, Registered, Roused
  <2>4. x.eng \in Engine /\ Roused(x.eng)
    BY <1>1, <2>2, <2>3, StepAsleep
  <2>5. x.eng.pc = "sync" /\ x.eng.running
    BY <1>1, <2>2, <2>3, StepAsleep
  <2>6. x.eng.wave = s.wave /\ x.eng.pending = s.pending /\ x.eng.pause = s.pause
    BY <1>1, <2>2, <2>3, StepAsleep
  <2>7. x.eng.idleCall = s.idleCall /\ x.eng.asleep = s.asleep
    BY <1>1, <2>2, <2>3, StepAsleep
  <2>8. ~x.answers /\ (x.toCoord = <<>> \/ x.toCoord = <<StartWave(s.wave)>>)
    BY <1>1, <2>2, <2>3, StepAsleep
  <2>. HIDE DEF x
  <2>9. Typed' /\ WaveInv'
    BY <1>2, <1>3, <2>4, <2>6, <2>8, EffectKeeps DEF WInv
  <2>10. eng'[e] = x.eng /\ call' = call /\ \A o \in Engines : o # e => eng'[o] = eng[o]
    BY <1>2, <2>8 DEF WInv, Typed, Effect, Answer
  <2>11. Aware(e)'
    BY <1>2, <2>2, <2>5, <2>6, <2>7, <2>10, ZenonT(60) DEF Aware, Registered
  <2>12. ASSUME NEW o \in Engines
         PROVE  /\ (Unaware(o)' /\ Stopped(eng'[o])) \/ (Aware(o)' /\ Roused(eng'[o]))
                /\ eng'[o].asleep
    <3>1. CASE o = e
      BY <1>5, <2>4, <2>7, <2>10, <2>11, <3>1
    <3>2. CASE o # e
      <4>1. (Unaware(o) => Unaware(o)') /\ (Aware(o) => Aware(o)')
        BY <1>2, <2>10, <3>2 DEF Unaware, Aware
      <4>. QED BY <2>1, <2>10, <3>2, <4>1 DEF PhaseRoused
    <3>. QED BY <3>1, <3>2
  <2>13. PhaseRoused'
    BY <1>2, <2>1, <2>10, <2>12 DEF PhaseRoused, Pausing
  <2>. QED BY <2>9, <2>13 DEF WInv, Phased
<1>. QED BY <1>4, <1>5

-----------------------------------------------------------------------------
(* Collectives.                                                            *)

\* Every rank stays in its wave and reports no other.
LEMMA AllReport ==
  ASSUME Typed, WaveInv, NEW x,
         \A o \in Engines : x[o].eng \in Engine /\ x[o].eng.wave = eng[o].wave,
         \A o \in Engines : x[o].toCoord = <<>> \/ x[o].toCoord = <<StartWave(eng[o].wave)>>,
         eng' = [o \in Engines |-> x[o].eng],
         kout' = [o \in Engines |-> kout[o] \o x[o].toCoord],
         req' \in [Requests -> {"new", "sent", "done", "aborted"}],
         flight' \in [Requests -> Engines \cup {None}],
         UNCHANGED <<cin, kin, first, coord, client, call, paused, nInputs>>
  PROVE  Typed' /\ WaveInv'
<1>1. eng' \in [Engines -> Engine] /\ \A o \in Engines : eng'[o] = x[o].eng /\ eng'[o].wave = eng[o].wave
  OBVIOUS
<1>2. ASSUME NEW o \in Engines
      PROVE  /\ kout'[o] \in Seq(Report)
             /\ \A i \in DOMAIN kout'[o] :
                  /\ kout'[o][i].wave <= eng[o].wave
                  /\ kout'[o][i].type = "complete" => kout'[o][i].wave < eng[o].wave
  <2>1. /\ kout[o] \in Seq(Report) /\ eng[o].wave \in Nat
        /\ \A i \in DOMAIN kout[o] : /\ kout[o][i].wave <= eng[o].wave
                                     /\ kout[o][i].type = "complete" => kout[o][i].wave < eng[o].wave
    BY DEF Typed, WaveInv, Engine
  <2>2. /\ kout[o] \o x[o].toCoord \in Seq(Report)
        /\ \A i \in DOMAIN (kout[o] \o x[o].toCoord) :
             /\ (kout[o] \o x[o].toCoord)[i].wave <= eng[o].wave
             /\ (kout[o] \o x[o].toCoord)[i].type = "complete"
                  => (kout[o] \o x[o].toCoord)[i].wave < eng[o].wave
    BY <2>1, ReportKeeps
  <2>. QED BY <2>2
<1>3. kout' \in [Engines -> Seq(Report)]
  BY <1>2
<1>4. Typed'
  BY <1>1, <1>3 DEF Typed
<1>5. WaveInv'
  BY <1>1, <1>2, ZenonT(60) DEF WaveInv
<1>. QED BY <1>4, <1>5

\* The forward pass: all ranks count the step together.
LEMMA ForwardKeeps ==
  ASSUME DPAssumption, WInv, NEW F \in SUBSET Requests, Forward(F)
  PROVE  WInv'
<1>. DEFINE x == [o \in Engines |-> CountStep(o, Drop(eng[o], F))]
<1>0. \A o \in Engines : eng[o] \in Engine /\ eng[o].pc = "forward"
  BY DEF WInv, Typed, Forward
<1>1. /\ eng' = [o \in Engines |-> x[o].eng] /\ kout' = [o \in Engines |-> kout[o] \o x[o].toCoord]
      /\ End(F) /\ UNCHANGED <<cin, kin, first, coord, client, call, paused, nInputs>>
  BY DEF Forward
<1>2. ASSUME NEW o \in Engines
      PROVE  LET s == eng[o]  t == x[o].eng
             IN  /\ t \in Engine /\ t.step = NextStep(s.step) /\ t.pc \in {"sync", "idle"}
                 /\ s.running => t.running
                 /\ t.wave = s.wave /\ t.pending = s.pending /\ t.ignore = s.ignore
                 /\ t.pause = s.pause /\ t.idleCall = s.idleCall /\ t.asleep = s.asleep
                 /\ x[o].toCoord = <<>> \/ x[o].toCoord = <<StartWave(s.wave)>>
  <2>. DEFINE s == eng[o]  d == Drop(s, F)  y == CountStep(o, d)  t == y.eng
  <2>1. /\ d \in Engine /\ d.running = s.running /\ d.wave = s.wave /\ d.step = s.step
        /\ d.pending = s.pending /\ d.ignore = s.ignore /\ d.pause = s.pause
        /\ d.idleCall = s.idleCall /\ d.asleep = s.asleep
    BY <1>0, DropFacts
  <2>. HIDE DEF d
  <2>2. t \in Engine /\ t.step = NextStep(d.step) /\ t.pc \in {"sync", "idle"}
    BY <2>1, CountFacts
  <2>3. d.running => t.running
    BY <2>1, CountFacts
  <2>4. t.wave = d.wave /\ t.pending = d.pending /\ t.ignore = d.ignore
    BY <2>1, CountFacts
  <2>5. t.pause = d.pause /\ t.idleCall = d.idleCall /\ t.asleep = d.asleep
    BY <2>1, CountFacts
  <2>6. y.toCoord = <<>> \/ y.toCoord = <<StartWave(d.wave)>>
    BY <2>1, CountFacts
  <2>7. x[o] = y
    BY DEF d
  <2>. HIDE DEF y
  <2>. QED BY <2>1, <2>2, <2>3, <2>4, <2>5, <2>6, <2>7
<1>. HIDE DEF x
<1>3. \A o \in Engines : eng'[o] = x[o].eng
  BY <1>1
<1>4. Typed' /\ WaveInv'
  <2>1. req' \in [Requests -> {"new", "sent", "done", "aborted"}]
           /\ flight' \in [Requests -> Engines \cup {None}]
    BY <1>1, EndFacts DEF WInv
  <2>2. \A o \in Engines : x[o].eng \in Engine /\ x[o].eng.wave = eng[o].wave
    BY <1>2
  <2>3. \A o \in Engines : x[o].toCoord = <<>> \/ x[o].toCoord = <<StartWave(eng[o].wave)>>
    BY <1>2
  <2>. QED BY <1>1, <2>1, <2>2, <2>3, AllReport DEF WInv
<1>5. \A o \in Engines : /\ eng'[o].step = NextStep(eng[o].step) /\ eng'[o].pc # "resume"
                         /\ eng[o].running => eng'[o].running
                         /\ eng'[o].pending = eng[o].pending /\ eng'[o].ignore = eng[o].ignore
                         /\ eng'[o].pause = eng[o].pause /\ eng'[o].idleCall = eng[o].idleCall
                         /\ eng'[o].asleep = eng[o].asleep
  BY <1>2, <1>3
<1>6. CASE PhaseFree
  <2>1. PhaseFree'
    BY <1>1, <1>5, <1>6 DEF PhaseFree, Free
  <2>. QED BY <1>4, <2>1 DEF WInv, Phased
<1>7. CASE PhaseAwake
  <2>1. \A o \in Engines : (Unaware(o) => Unaware(o)') /\ (Aware(o) => Aware(o)')
    BY <1>1, <1>5 DEF Unaware, Aware, Registered
  <2>2. PhaseAwake'
    BY <1>1, <1>5, <1>7, <2>1 DEF PhaseAwake, Pausing
  <2>. QED BY <1>4, <2>2 DEF WInv, Phased
<1>8. CASE PhaseAgreed
  <2>1. \A o \in Engines : Registered(eng[o], call.op) => Registered(eng'[o], call.op)
    BY <1>5 DEF Registered
  <2>2. PhaseAgreed'
    BY <1>1, <1>5, <1>8, <2>1 DEF PhaseAgreed, Pausing
  <2>. QED BY <1>4, <2>2 DEF WInv, Phased
<1>9. ~PhaseRoused /\ ~PhaseStopped /\ ~PhaseResuming
  BY <1>0, Ranks DEF PhaseRoused, PhaseStopped, PhaseResuming, Stopped, Roused, Resuming
<1>. QED BY <1>6, <1>7, <1>8, <1>9 DEF WInv, Phased

\* The end of the loop's iteration when the wave goes on, and when it is over.
GoOn(e, s) == AfterSync(e, s, TRUE)
GoIdle(e, s) == AfterSync(e, s, FALSE)

\* The wave goes on: the rank runs, and rank 0 may report the start.
LEMMA GoesOn ==
  ASSUME NEW e, NEW s \in Engine
  PROVE  LET x == GoOn(e, s)  t == x.eng
         IN  /\ t \in Engine /\ t.pc = "idle" /\ t.running /\ t.wave = s.wave /\ t.step = s.step
             /\ t.pending = s.pending /\ t.ignore = s.ignore /\ t.pause = s.pause
             /\ t.waiting = s.waiting /\ t.active = s.active
             /\ t.idleCall = s.idleCall /\ t.asleep = s.asleep
             /\ x.toCoord = <<>> \/ x.toCoord = <<StartWave(s.wave)>>
<1>. DEFINE r == [s EXCEPT !.running = TRUE]  w == LoopTop(r)
            z == IF e = 0 /\ ~s.was /\ ~s.pending THEN <<StartWave(s.wave)>> ELSE <<>>
<1>1. /\ r \in Engine /\ r.running = TRUE /\ r.wave = s.wave /\ r.step = s.step
      /\ r.pending = s.pending /\ r.ignore = s.ignore /\ r.pause = s.pause
      /\ r.waiting = s.waiting /\ r.active = s.active
      /\ r.idleCall = s.idleCall /\ r.asleep = s.asleep
  BY DEF Engine
<1>. HIDE DEF r
<1>2. /\ w \in Engine /\ w.pc = "idle" /\ w.running = r.running /\ w.wave = r.wave /\ w.step = r.step
      /\ w.pending = r.pending /\ w.ignore = r.ignore /\ w.pause = r.pause
      /\ w.waiting = r.waiting /\ w.active = r.active
      /\ w.idleCall = r.idleCall /\ w.asleep = r.asleep
  BY <1>1 DEF LoopTop, Engine
<1>3. GoOn(e, s) = [eng |-> w, toCoord |-> z, done |-> {}, answers |-> FALSE]
  BY DEF GoOn, AfterSync, Result, w, r, z
<1>4. z = <<>> \/ z = <<StartWave(s.wave)>>
  OBVIOUS
<1>. HIDE DEF w, z
<1>. QED BY <1>1, <1>2, <1>3, <1>4

\* The same when it is over: rank 0 reports it.
LEMMA GoesIdle ==
  ASSUME DPAssumption, NEW e, NEW s \in Engine
  PROVE  LET x == GoIdle(e, s)  t == x.eng
         IN  /\ t \in Engine /\ t.pc = "idle" /\ ~t.running /\ t.wave = s.wave + 1 /\ t.step = 0
             /\ t.pending = s.pending /\ t.ignore = s.ignore /\ t.pause = s.pause
             /\ t.waiting = s.waiting /\ t.active = s.active
             /\ t.idleCall = s.idleCall /\ t.asleep = s.asleep
             /\ x.toCoord = <<>> \/ x.toCoord = <<WaveComplete(s.wave)>>
<1>. DEFINE r == [s EXCEPT !.running = FALSE, !.wave = @ + 1, !.step = 0]  w == LoopTop(r)
            z == IF e = 0 THEN <<WaveComplete(s.wave)>> ELSE <<>>
<1>0. 0 \in 0..(SyncInterval * PrefillInterval + 1) /\ s.wave + 1 \in Nat
  <2>1. SyncInterval * PrefillInterval \in Nat
    BY Period
  <2>2. \A n \in Nat : 0 \in 0..(n + 1)
    OBVIOUS
  <2>. QED BY <2>1, <2>2 DEF Engine
<1>1. /\ r \in Engine /\ r.running = FALSE /\ r.wave = s.wave + 1 /\ r.step = 0
      /\ r.pending = s.pending /\ r.ignore = s.ignore /\ r.pause = s.pause
      /\ r.waiting = s.waiting /\ r.active = s.active
      /\ r.idleCall = s.idleCall /\ r.asleep = s.asleep
  BY <1>0 DEF Engine
<1>. HIDE DEF r
<1>2. /\ w \in Engine /\ w.pc = "idle" /\ w.running = r.running /\ w.wave = r.wave /\ w.step = r.step
      /\ w.pending = r.pending /\ w.ignore = r.ignore /\ w.pause = r.pause
      /\ w.waiting = r.waiting /\ w.active = r.active
      /\ w.idleCall = r.idleCall /\ w.asleep = r.asleep
  BY <1>1 DEF LoopTop, Engine
<1>3. GoIdle(e, s) = [eng |-> w, toCoord |-> z, done |-> {}, answers |-> FALSE]
  BY DEF GoIdle, AfterSync, Result, w, r, z
<1>4. z = <<>> \/ z = <<WaveComplete(s.wave)>>
  OBVIOUS
<1>. HIDE DEF w, z
<1>. QED BY <1>1, <1>2, <1>3, <1>4

\* Consensus on a pause, on one rank.
LEMMA Consent ==
  ASSUME NEW s \in Engine
  PROVE  LET u == [s EXCEPT !.ignore = TRUE, !.pending = FALSE]
         IN  /\ u \in Engine /\ u.ignore /\ ~u.pending /\ u.wave = s.wave /\ u.step = s.step
             /\ u.pause = s.pause /\ u.waiting = s.waiting /\ u.active = s.active
             /\ u.idleCall = s.idleCall /\ u.asleep = s.asleep
BY DEF Engine

\* The ranks agree on the pause, or no rank is pausing, or they go on.
LEMMA SyncKeeps ==
  ASSUME DPAssumption, WInv, Sync
  PROVE  WInv'
<1>. DEFINE agreed(o) == [eng[o] EXCEPT !.ignore = TRUE, !.pending = FALSE]
            s == [o \in Engines |-> IF PauseConsensus THEN agreed(o) ELSE eng[o]]
            x == [o \in Engines |-> AfterSync(o, s[o], HasUnfinished)]
<1>0. \A o \in Engines : eng[o] \in Engine /\ eng[o].pc = "sync"
  BY DEF WInv, Typed, Sync
<1>1. /\ eng' = [o \in Engines |-> x[o].eng] /\ kout' = [o \in Engines |-> kout[o] \o x[o].toCoord]
      /\ UNCHANGED <<cin, kin, first, coord, client, req, flight, call, paused, nInputs>>
  BY DEF Sync, frontend
<1>2. \A o \in Engines :
        /\ s[o] \in Engine /\ s[o].wave = eng[o].wave /\ s[o].step = eng[o].step
        /\ s[o].pause = eng[o].pause /\ s[o].waiting = eng[o].waiting /\ s[o].active = eng[o].active
        /\ s[o].idleCall = eng[o].idleCall /\ s[o].asleep = eng[o].asleep
  BY <1>0, Consent
<1>3. \A o \in Engines : /\ PauseConsensus => s[o].ignore /\ ~s[o].pending
                         /\ ~PauseConsensus => s[o].ignore = eng[o].ignore /\ s[o].pending = eng[o].pending
  BY <1>0, Consent
<1>4. \A o \in Engines : x[o] = AfterSync(o, s[o], HasUnfinished)
  OBVIOUS
<1>. HIDE DEF s, x
<1>5. \A o \in Engines : eng'[o] = x[o].eng
  BY <1>1
<1>6. ~PhaseStopped /\ ~PhaseResuming
  BY <1>0, Ranks DEF PhaseStopped, PhaseResuming, Stopped, Resuming
<1>7. PhaseRoused => PauseConsensus /\ ~HasUnfinished
  BY <1>0 DEF PhaseRoused, Stopped, Aware, Roused, PauseConsensus, HasUnfinished
<1>8. PhaseFree => ~PauseConsensus
  BY Ranks DEF PhaseFree, Free, PauseConsensus
<1>9. PhaseAgreed => ~PauseConsensus
  BY Ranks DEF PhaseAgreed, PauseConsensus
<1>10. \A o \in Engines : Registered(eng[o], call.op) /\ eng'[o].pause = eng[o].pause
                            /\ eng'[o].idleCall = eng[o].idleCall => Registered(eng'[o], call.op)
  BY DEF Registered
<1>11. CASE HasUnfinished
  <2>1. ASSUME NEW o \in Engines PROVE x[o] = GoOn(o, s[o])
    BY <1>4, <1>11 DEF GoOn, AfterSync
  <2>2. ASSUME NEW o \in Engines
        PROVE  x[o].eng \in Engine /\ x[o].eng.wave = eng[o].wave /\ x[o].eng.step = eng[o].step
                 /\ x[o].eng.pc = "idle" /\ x[o].eng.running
    <3>1. s[o] \in Engine
      BY <1>2
    <3>2. x[o].eng \in Engine /\ x[o].eng.wave = s[o].wave /\ x[o].eng.step = s[o].step
      BY <2>1, <3>1, GoesOn
    <3>3. x[o].eng.pc = "idle" /\ x[o].eng.running
      BY <2>1, <3>1, GoesOn
    <3>. QED BY <1>2, <3>2, <3>3
  <2>3. ASSUME NEW o \in Engines
        PROVE  /\ x[o].eng.pending = s[o].pending /\ x[o].eng.ignore = s[o].ignore
               /\ x[o].eng.pause = eng[o].pause
               /\ x[o].eng.idleCall = eng[o].idleCall /\ x[o].eng.asleep = eng[o].asleep
    <3>1. s[o] \in Engine
      BY <1>2
    <3>2. x[o].eng.pending = s[o].pending /\ x[o].eng.ignore = s[o].ignore
      BY <2>1, <3>1, GoesOn
    <3>3. /\ x[o].eng.pause = s[o].pause /\ x[o].eng.idleCall = s[o].idleCall
          /\ x[o].eng.asleep = s[o].asleep
      BY <2>1, <3>1, GoesOn
    <3>. QED BY <1>2, <3>2, <3>3
  <2>4. ASSUME NEW o \in Engines
        PROVE  x[o].toCoord = <<>> \/ x[o].toCoord = <<StartWave(eng[o].wave)>>
    <3>1. s[o] \in Engine /\ s[o].wave = eng[o].wave
      BY <1>2
    <3>2. x[o].toCoord = <<>> \/ x[o].toCoord = <<StartWave(s[o].wave)>>
      BY <2>1, <3>1, GoesOn
    <3>. QED BY <3>1, <3>2
  <2>5. Typed' /\ WaveInv'
    <3>1. \A o \in Engines : x[o].eng \in Engine /\ x[o].eng.wave = eng[o].wave
      BY <2>2
    <3>2. req' \in [Requests -> {"new", "sent", "done", "aborted"}]
           /\ flight' \in [Requests -> Engines \cup {None}]
      BY <1>1 DEF WInv, Typed
    <3>. QED BY <1>1, <2>4, <3>1, <3>2, AllReport DEF WInv
  <2>6. \A o \in Engines :
          /\ eng'[o].pc = "idle" /\ eng'[o].running /\ eng'[o].step = eng[o].step
          /\ eng'[o].pause = eng[o].pause /\ eng'[o].idleCall = eng[o].idleCall
          /\ eng'[o].asleep = eng[o].asleep
          /\ eng'[o].pending = s[o].pending /\ eng'[o].ignore = s[o].ignore
    BY <1>5, <2>2, <2>3
  <2>7. CASE PhaseFree
    <3>1. PhaseFree'
      BY <1>1, <1>3, <1>8, <2>6, <2>7 DEF PhaseFree, Free
    <3>. QED BY <2>5, <3>1 DEF WInv, Phased
  <2>8. CASE PhaseAwake /\ ~PauseConsensus
    <3>1. \A o \in Engines : (Unaware(o) => Unaware(o)') /\ (Aware(o) => Aware(o)')
      BY <1>1, <1>3, <1>10, <2>6, <2>8 DEF Unaware, Aware
    <3>2. PhaseAwake'
      BY <1>1, <2>6, <2>8, <3>1 DEF PhaseAwake, Pausing
    <3>. QED BY <2>5, <3>2 DEF WInv, Phased
  <2>9. CASE PhaseAwake /\ PauseConsensus
    <3>1. \A o \in Engines : Aware(o)
      BY <2>9 DEF PhaseAwake, PauseConsensus, Unaware
    <3>2. PhaseAgreed'
      BY <1>1, <1>3, <1>10, <2>6, <2>9, <3>1 DEF PhaseAwake, PhaseAgreed, Pausing, Aware
    <3>. QED BY <2>5, <3>2 DEF WInv, Phased
  <2>10. CASE PhaseAgreed
    <3>1. PhaseAgreed'
      BY <1>1, <1>3, <1>9, <1>10, <2>6, <2>10 DEF PhaseAgreed, Pausing
    <3>. QED BY <2>5, <3>1 DEF WInv, Phased
  <2>. QED BY <1>6, <1>7, <1>11, <2>7, <2>8, <2>9, <2>10 DEF WInv, Phased
<1>12. CASE ~HasUnfinished
  <2>1. ASSUME NEW o \in Engines PROVE x[o] = GoIdle(o, s[o])
    BY <1>4, <1>12 DEF GoIdle, AfterSync
  <2>2. ASSUME NEW o \in Engines
        PROVE  /\ x[o].eng \in Engine /\ x[o].eng.wave = eng[o].wave + 1 /\ x[o].eng.step = 0
               /\ x[o].eng.pc = "idle" /\ ~x[o].eng.running
    <3>1. s[o] \in Engine
      BY <1>2
    <3>2. x[o].eng \in Engine /\ x[o].eng.wave = s[o].wave + 1 /\ x[o].eng.step = 0
      BY <2>1, <3>1, GoesIdle
    <3>3. x[o].eng.pc = "idle" /\ ~x[o].eng.running
      BY <2>1, <3>1, GoesIdle
    <3>. QED BY <1>2, <3>2, <3>3
  <2>3. ASSUME NEW o \in Engines
        PROVE  /\ x[o].eng.pending = s[o].pending /\ x[o].eng.ignore = s[o].ignore
               /\ x[o].eng.pause = eng[o].pause /\ x[o].eng.waiting = eng[o].waiting
               /\ x[o].eng.active = eng[o].active
               /\ x[o].eng.idleCall = eng[o].idleCall /\ x[o].eng.asleep = eng[o].asleep
    <3>1. s[o] \in Engine
      BY <1>2
    <3>2. x[o].eng.pending = s[o].pending /\ x[o].eng.ignore = s[o].ignore
      BY <2>1, <3>1, GoesIdle
    <3>3. /\ x[o].eng.pause = s[o].pause /\ x[o].eng.idleCall = s[o].idleCall
          /\ x[o].eng.asleep = s[o].asleep
      BY <2>1, <3>1, GoesIdle
    <3>4. x[o].eng.waiting = s[o].waiting /\ x[o].eng.active = s[o].active
      BY <2>1, <3>1, GoesIdle
    <3>. QED BY <1>2, <3>2, <3>3, <3>4
  <2>4. ASSUME NEW o \in Engines
        PROVE  x[o].toCoord = <<>> \/ x[o].toCoord = <<WaveComplete(eng[o].wave)>>
    <3>1. s[o] \in Engine /\ s[o].wave = eng[o].wave
      BY <1>2
    <3>2. x[o].toCoord = <<>> \/ x[o].toCoord = <<WaveComplete(s[o].wave)>>
      BY <2>1, <3>1, GoesIdle
    <3>. QED BY <3>1, <3>2
  <2>5. ASSUME NEW o \in Engines
        PROVE  /\ kout'[o] \in Seq(Report)
               /\ \A i \in DOMAIN kout'[o] : kout'[o][i].wave < eng[o].wave + 1
    <3>1. /\ kout[o] \in Seq(Report) /\ eng[o].wave \in Nat
          /\ \A i \in DOMAIN kout[o] : kout[o][i].wave <= eng[o].wave
      BY DEF WInv, Typed, WaveInv, Engine
    <3>. DEFINE m == WaveComplete(eng[o].wave)
    <3>2. m \in Report /\ m.wave = eng[o].wave
      BY <3>1 DEF WaveComplete, Report
    <3>3. \A i \in DOMAIN kout[o] : kout[o][i].wave \in Nat
      <4>1. \A r \in Report : r.wave \in Nat
        BY DEF Report
      <4>. QED BY <3>1, <4>1
    <3>. HIDE DEF m
    <3>4. kout'[o] = kout[o] \/ kout'[o] = Append(kout[o], m)
      <4>1. kout'[o] = kout[o] \o x[o].toCoord
        BY <1>1
      <4>2. kout[o] \o <<m>> = Append(kout[o], m) /\ kout[o] \o <<>> = kout[o]
        BY <3>1, <3>2, AppendFacts
      <4>. QED BY <2>4, <4>1, <4>2 DEF m
    <3>5. Append(kout[o], m) \in Seq(Report)
      BY <3>1, <3>2
    <3>6. \A i \in DOMAIN Append(kout[o], m) : Append(kout[o], m)[i].wave < eng[o].wave + 1
      BY <3>1, <3>2, <3>3, AppendFacts
    <3>7. \A i \in DOMAIN kout[o] : kout[o][i].wave < eng[o].wave + 1
      BY <3>1, <3>3
    <3>. QED BY <3>1, <3>4, <3>5, <3>6, <3>7
  <2>6. eng' \in [Engines -> Engine] /\ kout' \in [Engines -> Seq(Report)]
    <3>1. kout' = [o \in Engines |-> kout'[o]]
      BY <1>1
    <3>. QED BY <1>1, <2>2, <2>5, <3>1
  <2>7. Typed'
    BY <1>1, <2>6 DEF WInv, Typed
  <2>8. WaveInv'
    <3>1. \A o \in Engines : eng'[o].wave = eng[o].wave + 1 /\ eng[o].wave \in Nat
      BY <1>0, <1>5, <2>2 DEF Engine
    <3>2. \A e, f \in Engines : eng'[e].wave = eng'[f].wave
      BY <3>1 DEF WInv, WaveInv
    <3>3. ASSUME NEW o \in Engines
          PROVE  /\ coord.wave <= eng'[o].wave /\ client.wave <= eng'[o].wave
                 /\ \A i \in DOMAIN cin[o] : cin[o][i].type = "ADD" => cin[o][i].wave <= eng'[o].wave
                 /\ \A i \in DOMAIN kin[o] : kin[o][i].wave <= eng'[o].wave
      <4>0. eng'[o].wave = eng[o].wave + 1 /\ eng[o].wave \in Nat
        BY <3>1
      <4>1. coord.wave \in Nat /\ client.wave \in Nat
        BY DEF WInv, Typed, View
      <4>2. coord.wave <= eng'[o].wave /\ client.wave <= eng'[o].wave
        BY <4>0, <4>1 DEF WInv, WaveInv
      <4>3. \A i \in DOMAIN cin[o] : cin[o][i].type = "ADD" => cin[o][i].wave \in Nat
        <5>1. cin[o] \in Seq(ClientMessage)
          BY DEF WInv, Typed
        <5>2. \A m \in ClientMessage : m.type = "ADD" => m.wave \in Nat
          BY DEF ClientMessage
        <5>. QED BY <5>1, <5>2
      <4>4. \A i \in DOMAIN cin[o] : cin[o][i].type = "ADD" => cin[o][i].wave <= eng'[o].wave
        BY <4>0, <4>3 DEF WInv, WaveInv
      <4>5. \A i \in DOMAIN kin[o] : kin[o][i].wave \in Nat
        <5>1. kin[o] \in Seq(StartMessage)
          BY DEF WInv, Typed
        <5>2. \A m \in StartMessage : m.wave \in Nat
          BY DEF StartMessage
        <5>. QED BY <5>1, <5>2
      <4>6. \A i \in DOMAIN kin[o] : kin[o][i].wave <= eng'[o].wave
        BY <4>0, <4>5 DEF WInv, WaveInv
      <4>. QED BY <4>2, <4>4, <4>6
    <3>4. ASSUME NEW o \in Engines, NEW i \in DOMAIN kout'[o]
          PROVE  kout'[o][i].wave <= eng'[o].wave /\ kout'[o][i].wave < eng'[o].wave
      <4>1. kout'[o][i].wave \in Nat
        <5>1. \A r \in Report : r.wave \in Nat
          BY DEF Report
        <5>. QED BY <2>5, <5>1
      <4>. QED BY <2>5, <3>1, <4>1
    <3>. QED BY <1>1, <3>2, <3>3, <3>4 DEF WaveInv
  <2>9. \A o \in Engines :
          /\ eng'[o].pc = "idle" /\ ~eng'[o].running /\ eng'[o].step = 0
          /\ eng'[o].pause = eng[o].pause /\ eng'[o].idleCall = eng[o].idleCall
          /\ eng'[o].waiting = eng[o].waiting /\ eng'[o].active = eng[o].active
          /\ eng'[o].asleep = eng[o].asleep
          /\ eng'[o].pending = s[o].pending /\ eng'[o].ignore = s[o].ignore
    BY <1>5, <2>2, <2>3
  <2>10. \A o \in Engines : ~Unfinished(eng'[o])
    BY <1>12, <2>9 DEF HasUnfinished, Unfinished
  <2>11. CASE PhaseFree
    <3>1. PhaseFree'
      BY <1>1, <1>3, <1>8, <2>9, <2>11 DEF PhaseFree, Free
    <3>. QED BY <2>7, <2>8, <3>1 DEF WInv, Phased
  <2>12. CASE PhaseAwake /\ ~PauseConsensus
    <3>1. \A o \in Engines : ~eng[o].pending
      BY <1>12, <2>12 DEF HasUnfinished, PauseConsensus
    <3>2. \A o \in Engines : Unaware(o)
      BY <2>12, <3>1 DEF PhaseAwake, Aware
    <3>3. \A o \in Engines : Unaware(o)'
      BY <1>1, <1>3, <2>9, <2>12, <3>2 DEF Unaware
    <3>4. PhaseAwake'
      BY <1>1, <2>9, <2>12, <3>3 DEF PhaseAwake, Pausing
    <3>. QED BY <2>7, <2>8, <3>4 DEF WInv, Phased
  <2>13. CASE (PhaseAwake \/ PhaseRoused) /\ PauseConsensus
    <3>1. /\ \A o \in Engines : Aware(o) /\ (eng[o].asleep => Roused(eng[o]))
          /\ Pausing /\ (call.op = "sleep" => paused = "sleep")
          /\ paused # "no"
      BY <2>13 DEF PhaseAwake, PhaseRoused, PauseConsensus, Unaware, Pausing
    <3>2. \A o \in Engines : (eng[o].asleep => paused = "sleep")
                               /\ (call.op = "pause" => (eng[o].asleep <=> paused = "sleep"))
      BY <2>13 DEF PhaseAwake, PhaseRoused
    <3>3. ASSUME NEW o \in Engines
          PROVE  /\ Clean(cin[o]) /\ Stopped(eng'[o]) /\ Registered(eng'[o], call.op)
      <4>1. Clean(cin[o]) /\ Registered(eng'[o], call.op)
        BY <1>10, <2>9, <3>1 DEF Aware
      <4>2. eng'[o].pause # "UNPAUSED"
        BY <4>1 DEF Registered
      <4>3. KeptAsleep(eng'[o])
        BY <2>9, <3>1 DEF Roused, KeptAsleep
      <4>4. Stopped(eng'[o])
        BY <1>3, <2>9, <2>10, <2>13, <4>2, <4>3 DEF Stopped
      <4>. QED BY <4>1, <4>4
    <3>4. PhaseStopped'
      BY <1>1, <2>9, <3>1, <3>2, <3>3 DEF PhaseStopped, Pausing
    <3>. QED BY <2>7, <2>8, <3>4 DEF WInv, Phased
  <2>14. CASE PhaseAgreed
    <3>1. ASSUME NEW o \in Engines
          PROVE  /\ Clean(cin[o]) /\ Stopped(eng'[o]) /\ Registered(eng'[o], call.op)
                 /\ ~eng'[o].asleep
      <4>0. ~eng'[o].asleep
        BY <2>9, <2>14 DEF PhaseAgreed
      <4>1. Clean(cin[o]) /\ Registered(eng'[o], call.op)
        BY <1>10, <2>9, <2>14 DEF PhaseAgreed
      <4>2. eng'[o].pause # "UNPAUSED"
        BY <4>1 DEF Registered
      <4>3. KeptAsleep(eng'[o])
        BY <4>0 DEF KeptAsleep
      <4>4. eng'[o].ignore /\ ~eng'[o].pending
        BY <1>3, <1>9, <2>9, <2>14 DEF PhaseAgreed
      <4>5. Stopped(eng'[o])
        BY <2>9, <2>10, <4>2, <4>3, <4>4 DEF Stopped
      <4>. QED BY <4>0, <4>1, <4>5
    <3>2. PhaseStopped'
      BY <1>1, <2>14, <3>1 DEF PhaseStopped, PhaseAgreed, Pausing
    <3>. QED BY <2>7, <2>8, <3>2 DEF WInv, Phased
  <2>. QED BY <1>6, <1>7, <2>11, <2>12, <2>13, <2>14 DEF WInv, Phased
<1>. QED BY <1>11, <1>12

\* The barrier of resume_scheduler: every rank is in it, and they go on as one.
LEMMA ResumeBarrierKeeps ==
  ASSUME DPAssumption, WInv, ResumeBarrier
  PROVE  WInv'
<1>. DEFINE has == \E o \in Engines : Unfinished(eng[o])
            t == [o \in Engines |-> [eng[o] EXCEPT !.pc = "idle", !.running = has]]
<1>0. \A o \in Engines : eng[o] \in Engine /\ eng[o].pc = "resume"
  BY DEF WInv, Typed, ResumeBarrier
<1>1. /\ eng' = t /\ call' = [call EXCEPT !.left = {}]
      /\ UNCHANGED <<cin, kin, kout, first, coord, client, req, flight, paused, nInputs>>
  BY DEF ResumeBarrier, net
<1>2. has \in BOOLEAN
  OBVIOUS
<1>. HIDE DEF has
<1>3. ASSUME NEW o \in Engines
      PROVE  /\ t[o] \in Engine /\ t[o].pc = "idle" /\ t[o].wave = eng[o].wave
             /\ t[o].step = eng[o].step /\ t[o].pause = eng[o].pause
             /\ t[o].idleCall = eng[o].idleCall /\ t[o].pending = eng[o].pending
             /\ t[o].ignore = eng[o].ignore /\ t[o].asleep = eng[o].asleep
  <2>. DEFINE u == [eng[o] EXCEPT !.pc = "idle", !.running = has]
  <2>1. eng[o] \in Engine
    BY <1>0
  <2>2. /\ u \in Engine /\ u.pc = "idle" /\ u.wave = eng[o].wave /\ u.step = eng[o].step
        /\ u.pause = eng[o].pause /\ u.idleCall = eng[o].idleCall /\ u.pending = eng[o].pending
        /\ u.ignore = eng[o].ignore /\ u.asleep = eng[o].asleep
    BY <1>2, <2>1 DEF Engine
  <2>3. t[o] = u
    OBVIOUS
  <2>. HIDE DEF u, t
  <2>. QED BY <2>2, <2>3
<1>4. t = [o \in Engines |-> t[o]]
  OBVIOUS
<1>. HIDE DEF t
<1>5. PhaseResuming
  BY <1>0, Ranks DEF WInv, Phased, PhaseFree, Free, PhaseAwake, PhaseRoused, PhaseAgreed,
                     PhaseStopped, Stopped, Unaware, Aware
<1>6. \A o \in Engines : Clean(cin[o]) /\ Resuming(eng[o])
  BY <1>0, <1>5 DEF PhaseResuming, Stopped
<1>7. /\ call' \in [op : {"none", "pause", "sleep", "resume", "wake"}, left : SUBSET Engines]
      /\ call'.left = {}
  BY <1>1 DEF WInv, Typed
<1>8. eng' \in [Engines -> Engine] /\ \A o \in Engines : eng'[o] = t[o] /\ eng'[o].wave = eng[o].wave
  BY <1>1, <1>3, <1>4
<1>9. Typed'
  BY <1>1, <1>7, <1>8 DEF WInv, Typed
<1>10. WaveInv'
  BY <1>1, <1>8 DEF WInv, WaveInv
<1>11. \A o \in Engines : Free(eng'[o]) /\ eng'[o].step = 0
  BY <1>3, <1>6, <1>8 DEF Free, Resuming
<1>12. PhaseFree'
  BY <1>1, <1>5, <1>6, <1>7, <1>11 DEF PhaseFree, PhaseResuming
<1>. QED BY <1>9, <1>10, <1>12 DEF WInv, Phased

-----------------------------------------------------------------------------
(* The coordinator, the client and the operator.                           *)

\* A broadcast of a wave that is not later is timely.
LEMMA BroadcastTimely ==
  ASSUME WInv, NEW w \in Nat, \A o \in Engines : w <= eng[o].wave,
         NEW ex \in Engines \cup {None}, Broadcast(w, ex), cin' = cin,
         first' \in Seq([target : Engines, wave : Nat])
  PROVE  Timely
<1>. DEFINE m == [type |-> "START", wave |-> w, exclude |-> ex]
<1>1. m \in StartMessage /\ m.wave = w
  BY DEF StartMessage
<1>2. kin' = [o \in Engines |-> Append(kin[o], m)]
  BY DEF Broadcast
<1>. HIDE DEF m
<1>3. ASSUME NEW o \in Engines
      PROVE  /\ Append(kin[o], m) \in Seq(StartMessage)
             /\ \A i \in DOMAIN Append(kin[o], m) : Append(kin[o], m)[i].wave <= eng[o].wave
  <2>1. /\ kin[o] \in Seq(StartMessage)
        /\ \A i \in DOMAIN kin[o] : kin[o][i].wave <= eng[o].wave
    BY DEF WInv, Typed, WaveInv
  <2>2. Append(kin[o], m) \in Seq(StartMessage)
    BY <1>1, <2>1
  <2>3. \A i \in DOMAIN Append(kin[o], m) : Append(kin[o], m)[i].wave <= eng[o].wave
    BY <1>1, <2>1, AppendFacts
  <2>. QED BY <2>2, <2>3
<1>4. kin' \in [Engines -> Seq(StartMessage)]
  BY <1>2, <1>3
<1>5. \A o \in Engines : \A i \in DOMAIN kin'[o] : kin'[o][i].wave <= eng[o].wave
  BY <1>2, <1>3
<1>. QED BY <1>4, <1>5 DEF Timely, WInv, Typed, WaveInv

\* Queues to the ranks that do not change are timely.
LEMMA SameTimely ==
  ASSUME WInv, cin' = cin, kin' = kin, first' \in Seq([target : Engines, wave : Nat])
  PROVE  Timely
BY DEF Timely, WInv, Typed, WaveInv

\* A step that touches neither the ranks nor the calls keeps the phase.
LEMMA PhaseSame ==
  ASSUME WInv, UNCHANGED <<eng, cin, call, paused>>
  PROVE  Phased'
BY PhaseKeeps DEF WInv

\* The coordinator is told of a first request.
LEMMA CoordinatorFirstKeeps ==
  ASSUME DPAssumption, WInv, CoordinatorFirst
  PROVE  WInv'
<1>. DEFINE m == Head(first)  ex == IF m.wave < coord.wave THEN None ELSE m.target
<1>1. /\ first # <<>> /\ first' = Tail(first)
      /\ UNCHANGED <<eng, cin, kout, coord, client, req, flight, call, paused, nInputs>>
  BY DEF CoordinatorFirst, frontend
<1>2. first' \in Seq([target : Engines, wave : Nat]) /\ m \in [target : Engines, wave : Nat]
  BY <1>1, TailFacts DEF WInv, Typed
<1>3. ex \in Engines \cup {None} /\ coord.wave \in Nat /\ \A o \in Engines : coord.wave <= eng[o].wave
  BY <1>2 DEF WInv, Typed, View, WaveInv
<1>4. kin' = kin \/ Broadcast(coord.wave, ex)
  BY DEF CoordinatorFirst
<1>. HIDE DEF ex
<1>5. Timely
  BY <1>1, <1>2, <1>3, <1>4, BroadcastTimely, SameTimely
<1>6. /\ coord' \in View /\ client' \in View
      /\ \A o \in Engines : coord'.wave <= eng[o].wave /\ client'.wave <= eng[o].wave
      /\ req' \in [Requests -> {"new", "sent", "done", "aborted"}]
      /\ flight' \in [Requests -> Engines \cup {None}]
      /\ call' \in [op : {"none", "pause", "sleep", "resume", "wake"}, left : SUBSET Engines]
      /\ paused' \in {"no", "pause", "sleep"} /\ nInputs' \in 0..MaxInputs
  BY <1>1 DEF WInv, Typed, WaveInv
<1>7. Typed' /\ WaveInv'
  BY <1>1, <1>5, <1>6, SendKeeps DEF WInv
<1>8. Phased'
  BY <1>1, PhaseSame
<1>. QED BY <1>7, <1>8 DEF WInv

\* The coordinator hears of the start or the end of a wave.
LEMMA CoordinatorReportKeeps ==
  ASSUME DPAssumption, WInv, NEW e \in Engines, CoordinatorReport(e)
  PROVE  WInv'
<1>. DEFINE m == Head(kout[e])
<1>1. /\ kout[e] # <<>> /\ kout' = [kout EXCEPT ![e] = Tail(kout[e])]
      /\ UNCHANGED <<eng, cin, first, client, req, flight, call, paused, nInputs>>
  BY DEF CoordinatorReport, frontend
<1>2. kout[e] \in Seq(Report)
  BY DEF WInv, Typed
<1>3. m \in Report /\ m = kout[e][1] /\ 1 \in DOMAIN kout[e]
  BY <1>1, <1>2, TailFacts
<1>4. m.wave \in Nat
  BY <1>3 DEF Report
<1>5. m.wave <= eng[e].wave /\ (m.type = "complete" => m.wave < eng[e].wave)
  BY <1>3 DEF WInv, WaveInv
<1>6. \A o \in Engines : eng[o].wave = eng[e].wave /\ eng[o].wave \in Nat
  BY DEF WInv, WaveInv, Typed, Engine
<1>7. coord \in View /\ coord.wave \in Nat /\ first' \in Seq([target : Engines, wave : Nat])
  BY <1>1 DEF WInv, Typed, View
<1>8. \/ m.type = "complete" /\ coord' = [coord EXCEPT !.wave = m.wave + 1, !.running = FALSE] /\ kin' = kin
      \/ coord' = [coord EXCEPT !.wave = m.wave, !.running = TRUE] /\ Broadcast(m.wave, e)
      \/ coord' = coord /\ kin' = kin
  BY DEF CoordinatorReport
<1>. HIDE DEF m
<1>9. Timely /\ coord' \in View /\ \A o \in Engines : coord'.wave <= eng[o].wave
  <2>1. CASE m.type = "complete" /\ coord' = [coord EXCEPT !.wave = m.wave + 1, !.running = FALSE] /\ kin' = kin
    <3>0. m.wave + 1 \in Nat
      BY <1>4
    <3>1. coord' \in View /\ coord'.wave = m.wave + 1
      BY <1>7, <2>1, <3>0 DEF View
    <3>2. Timely
      BY <1>1, <1>7, <2>1, SameTimely
    <3>. QED BY <1>4, <1>5, <1>6, <2>1, <3>1, <3>2
  <2>2. CASE coord' = [coord EXCEPT !.wave = m.wave, !.running = TRUE] /\ Broadcast(m.wave, e)
    <3>1. coord' \in View /\ coord'.wave = m.wave
      BY <1>4, <1>7, <2>2 DEF View
    <3>2. \A o \in Engines : m.wave <= eng[o].wave
      BY <1>5, <1>6
    <3>3. Timely
      BY <1>1, <1>4, <1>7, <2>2, <3>2, BroadcastTimely
    <3>. QED BY <3>1, <3>2, <3>3
  <2>3. CASE coord' = coord /\ kin' = kin
    <3>1. Timely
      BY <1>1, <1>7, <2>3, SameTimely
    <3>. QED BY <1>7, <2>3, <3>1 DEF WInv, WaveInv
  <2>. QED BY <1>8, <2>1, <2>2, <2>3
<1>10. /\ client' \in View
       /\ \A o \in Engines : client'.wave <= eng[o].wave
       /\ req' \in [Requests -> {"new", "sent", "done", "aborted"}]
       /\ flight' \in [Requests -> Engines \cup {None}]
       /\ call' \in [op : {"none", "pause", "sleep", "resume", "wake"}, left : SUBSET Engines]
       /\ paused' \in {"no", "pause", "sleep"} /\ nInputs' \in 0..MaxInputs
  BY <1>1 DEF WInv, Typed, WaveInv
<1>11. Typed' /\ WaveInv'
  BY <1>1, <1>9, <1>10, SendKeeps DEF WInv
<1>12. Phased'
  BY <1>1, PhaseSame
<1>. QED BY <1>11, <1>12 DEF WInv

\* The client hears the coordinator's news.
LEMMA ClientNewsKeeps ==
  ASSUME DPAssumption, WInv, ClientNews
  PROVE  WInv'
<1>1. /\ client' = coord
      /\ UNCHANGED <<eng, cin, kin, kout, first, coord, req, flight, call, paused, nInputs>>
  BY DEF ClientNews, net
<1>2. Typed'
  BY <1>1 DEF WInv, Typed
<1>3. WaveInv'
  BY <1>1 DEF WInv, WaveInv
<1>4. Phased'
  BY <1>1, PhaseSame
<1>. QED BY <1>2, <1>3, <1>4 DEF WInv

\* A client's message, which is not a call, to one rank.
LEMMA ClientSends ==
  ASSUME WInv, NEW e \in Engines, NEW m \in ClientMessage, m.type # "UTILITY",
         m.type = "ADD" => m.wave <= eng[e].wave,
         cin' = [cin EXCEPT ![e] = Append(cin[e], m)], UNCHANGED <<eng, kin, call, paused>>,
         first' \in Seq([target : Engines, wave : Nat])
  PROVE  Timely /\ Phased'
<1>1. \A o \in Engines : cin[o] \in Seq(ClientMessage)
  BY DEF WInv, Typed
<1>2. cin' \in [Engines -> Seq(ClientMessage)]
  BY <1>1 DEF WInv, Typed
<1>3. cin'[e] = Append(cin[e], m) /\ \A o \in Engines : o # e => cin'[o] = cin[o]
  BY DEF WInv, Typed
<1>4. /\ Clean(cin[e]) => Clean(Append(cin[e], m))
      /\ \A op : Once(cin[e], op) => Once(Append(cin[e], m), op)
  BY <1>1, SendOther
<1>5. \A o \in Engines : Clean(cin[o]) => Clean(cin'[o])
  BY <1>3, <1>4
<1>6. \A o \in Engines : \A op : Once(cin[o], op) => Once(cin'[o], op)
  BY <1>3, <1>4
<1>7. Phased'
  BY <1>5, <1>6, PhaseKeeps DEF WInv
<1>8. \A i \in DOMAIN Append(cin[e], m) :
        Append(cin[e], m)[i].type = "ADD" => Append(cin[e], m)[i].wave <= eng[e].wave
  <2>1. \A i \in DOMAIN cin[e] : cin[e][i].type = "ADD" => cin[e][i].wave <= eng[e].wave
    BY DEF WInv, WaveInv
  <2>. QED BY <1>1, <2>1, AppendFacts
<1>9. \A o \in Engines : \A i \in DOMAIN cin'[o] :
        cin'[o][i].type = "ADD" => cin'[o][i].wave <= eng[o].wave
  BY <1>3, <1>8 DEF WInv, WaveInv
<1>10. Timely
  BY <1>2, <1>9 DEF Timely, WInv, Typed, WaveInv
<1>. QED BY <1>7, <1>10

\* add_request_async.
LEMMA ClientAddKeeps ==
  ASSUME DPAssumption, WInv, NEW r \in Requests, ClientAdd(r)
  PROVE  WInv'
<1>1. PICK e \in Engines :
         /\ req' = [req EXCEPT ![r] = "sent"]
         /\ flight' = [flight EXCEPT ![r] = e]
         /\ cin' = [cin EXCEPT ![e] = Append(cin[e], [type |-> "ADD", req |-> r, wave |-> client.wave])]
         /\ first' = IF client.running THEN first
                     ELSE Append(first, [target |-> e, wave |-> client.wave])
         /\ client' = [client EXCEPT !.running = TRUE]
  BY DEF ClientAdd
<1>2. UNCHANGED <<eng, kin, kout, coord, call, paused>> /\ nInputs' = nInputs + 1 /\ nInputs < MaxInputs
  BY DEF ClientAdd, NewInput
<1>3. client \in View /\ client.wave \in Nat /\ \A o \in Engines : client.wave <= eng[o].wave
  BY DEF WInv, Typed, View, WaveInv
<1>. DEFINE m == [type |-> "ADD", req |-> r, wave |-> client.wave]
<1>4. m \in ClientMessage /\ m.type = "ADD" /\ m.wave <= eng[e].wave
  BY <1>3 DEF ClientMessage
<1>5. first' \in Seq([target : Engines, wave : Nat])
  <2>1. [target |-> e, wave |-> client.wave] \in [target : Engines, wave : Nat]
    BY <1>3
  <2>2. first \in Seq([target : Engines, wave : Nat])
    BY DEF WInv, Typed
  <2>3. Append(first, [target |-> e, wave |-> client.wave]) \in Seq([target : Engines, wave : Nat])
    BY <2>1, <2>2, AppendFacts
  <2>. QED BY <1>1, <2>2, <2>3
<1>6. cin' = [cin EXCEPT ![e] = Append(cin[e], m)]
  BY <1>1
<1>. HIDE DEF m
<1>7. Timely /\ Phased'
  BY <1>2, <1>4, <1>5, <1>6, ClientSends
<1>8. client' \in View /\ client'.wave = client.wave
  BY <1>1, <1>3 DEF View
<1>9. nInputs' \in 0..MaxInputs
  BY <1>2 DEF WInv, Typed, DPAssumption
<1>10. /\ coord' \in View
       /\ \A o \in Engines : coord'.wave <= eng[o].wave /\ client'.wave <= eng[o].wave
       /\ req' \in [Requests -> {"new", "sent", "done", "aborted"}]
       /\ flight' \in [Requests -> Engines \cup {None}]
       /\ call' \in [op : {"none", "pause", "sleep", "resume", "wake"}, left : SUBSET Engines]
       /\ paused' \in {"no", "pause", "sleep"}
  BY <1>1, <1>2, <1>3, <1>8 DEF WInv, Typed, WaveInv
<1>11. Typed' /\ WaveInv'
  BY <1>2, <1>7, <1>8, <1>9, <1>10, SendKeeps DEF WInv
<1>. QED BY <1>7, <1>11 DEF WInv

\* abort_requests_async.
LEMMA ClientAbortKeeps ==
  ASSUME DPAssumption, WInv, NEW r \in Requests, ClientAbort(r)
  PROVE  WInv'
<1>1. /\ UNCHANGED <<eng, kin, kout, first, coord, client, flight, call, paused>>
      /\ nInputs' = nInputs + 1 /\ nInputs < MaxInputs /\ req' = [req EXCEPT ![r] = "aborted"]
  BY DEF ClientAbort, NewInput
<1>. DEFINE m == [type |-> "ABORT", req |-> r]
<1>2. m \in ClientMessage /\ m.type = "ABORT"
  BY DEF ClientMessage
<1>3. \/ cin' = cin
      \/ flight[r] # None /\ cin' = [cin EXCEPT ![flight[r]] = Append(cin[flight[r]], m)]
  BY DEF ClientAbort
<1>4. flight[r] \in Engines \cup {None} /\ first' \in Seq([target : Engines, wave : Nat])
  BY <1>1 DEF WInv, Typed
<1>. HIDE DEF m
<1>5. Timely /\ Phased'
  <2>1. CASE cin' = cin
    BY <1>1, <1>4, <2>1, SameTimely, PhaseSame
  <2>2. CASE flight[r] # None /\ cin' = [cin EXCEPT ![flight[r]] = Append(cin[flight[r]], m)]
    <3>1. flight[r] \in Engines
      BY <1>4, <2>2
    <3>2. m.type # "UTILITY" /\ m.type # "ADD"
      BY <1>2
    <3>. QED BY <1>1, <1>2, <1>4, <2>2, <3>1, <3>2, ClientSends
  <2>. QED BY <1>3, <2>1, <2>2
<1>6. nInputs' \in 0..MaxInputs
  BY <1>1 DEF WInv, Typed, DPAssumption
<1>7. /\ coord' \in View /\ client' \in View
      /\ \A o \in Engines : coord'.wave <= eng[o].wave /\ client'.wave <= eng[o].wave
      /\ req' \in [Requests -> {"new", "sent", "done", "aborted"}]
      /\ flight' \in [Requests -> Engines \cup {None}]
      /\ call' \in [op : {"none", "pause", "sleep", "resume", "wake"}, left : SUBSET Engines]
      /\ paused' \in {"no", "pause", "sleep"}
  BY <1>1 DEF WInv, Typed, WaveInv
<1>8. Typed' /\ WaveInv'
  BY <1>1, <1>5, <1>6, <1>7, SendKeeps DEF WInv
<1>. QED BY <1>5, <1>8 DEF WInv

\* call_utility_async: a call starts only where the last one was answered.
LEMMA OperatorCallKeeps ==
  ASSUME DPAssumption, WInv, NEW c \in Calls, OperatorCall(c)
  PROVE  WInv'
<1>. DEFINE m == [type |-> "UTILITY", call |-> c]
<1>1. /\ UNCHANGED <<eng, kin, kout, first, coord, client, req, flight>>
      /\ nInputs' = nInputs + 1 /\ nInputs < MaxInputs /\ call.left = {}
      /\ call' = [op |-> c.op, left |-> Engines]
      /\ cin' = [o \in Engines |-> Append(cin[o], m)]
      /\ c.op = "resume" => paused = "pause"
      /\ c.op = "wake" => paused = "sleep"
  BY DEF OperatorCall, NewInput, WInv, Careful
<1>2. paused' = CASE c.op = "sleep" -> "sleep"
                  [] c.op = "pause" -> IF paused = "sleep" THEN "sleep" ELSE "pause"
                  [] OTHER -> "no"
  BY DEF OperatorCall
<1>3. m \in ClientMessage /\ m.type = "UTILITY" /\ m.call = c
  BY DEF ClientMessage
<1>4. c.op \in {"pause", "sleep", "resume", "wake"}
  BY DEF DPAssumption, Call
<1>. HIDE DEF m
<1>5. ASSUME NEW o \in Engines
      PROVE  /\ Append(cin[o], m) \in Seq(ClientMessage)
             /\ Clean(cin[o]) => Once(Append(cin[o], m), c.op)
             /\ \A i \in DOMAIN Append(cin[o], m) :
                  Append(cin[o], m)[i].type = "ADD" => Append(cin[o], m)[i].wave <= eng[o].wave
  <2>1. /\ cin[o] \in Seq(ClientMessage)
        /\ \A i \in DOMAIN cin[o] : cin[o][i].type = "ADD" => cin[o][i].wave <= eng[o].wave
    BY DEF WInv, Typed, WaveInv
  <2>2. Append(cin[o], m) \in Seq(ClientMessage)
    BY <1>3, <2>1
  <2>3. Clean(cin[o]) => Once(Append(cin[o], m), c.op)
    BY <1>3, <2>1, SendCall
  <2>4. \A i \in DOMAIN Append(cin[o], m) :
          Append(cin[o], m)[i].type = "ADD" => Append(cin[o], m)[i].wave <= eng[o].wave
    BY <1>3, <2>1, AppendFacts
  <2>. QED BY <2>2, <2>3, <2>4
<1>6. cin' \in [Engines -> Seq(ClientMessage)] /\ \A o \in Engines : cin'[o] = Append(cin[o], m)
  BY <1>1, <1>5
<1>7. Timely
  BY <1>1, <1>5, <1>6 DEF Timely, WInv, Typed, WaveInv
<1>8. /\ coord' \in View /\ client' \in View
      /\ \A o \in Engines : coord'.wave <= eng[o].wave /\ client'.wave <= eng[o].wave
      /\ req' \in [Requests -> {"new", "sent", "done", "aborted"}]
      /\ flight' \in [Requests -> Engines \cup {None}]
      /\ nInputs' \in 0..MaxInputs
  BY <1>1 DEF WInv, Typed, WaveInv, DPAssumption
<1>9. /\ call' \in [op : {"none", "pause", "sleep", "resume", "wake"}, left : SUBSET Engines]
      /\ call'.op = c.op /\ call'.left = Engines
  BY <1>1, <1>4
<1>10. paused' \in {"no", "pause", "sleep"}
  BY <1>2, <1>4
<1>11. Typed' /\ WaveInv'
  BY <1>1, <1>7, <1>8, <1>9, <1>10, SendKeeps DEF WInv
<1>12. PhaseFree \/ PhaseStopped
  BY <1>1, Ranks DEF WInv, Phased, PhaseAwake, PhaseRoused, PhaseAgreed, PhaseResuming, Pausing
<1>13. \A o \in Engines : Clean(cin[o]) /\ Once(cin'[o], c.op)
  BY <1>5, <1>6, <1>12 DEF PhaseFree, PhaseStopped
<1>14. CASE PhaseFree
  <2>1. c.op \in {"pause", "sleep"} /\ paused' = c.op
    BY <1>1, <1>2, <1>4, <1>14 DEF PhaseFree
  <2>2. \A o \in Engines : Unaware(o)' /\ ~eng'[o].asleep
    BY <1>1, <1>9, <1>13, <1>14 DEF PhaseFree, Free, Unaware
  <2>3. PhaseAwake'
    BY <1>1, <1>9, <1>14, <2>1, <2>2 DEF PhaseAwake, Pausing, PhaseFree
  <2>. QED BY <1>11, <2>3 DEF WInv, Phased
<1>15. CASE PhaseStopped
  <2>1. \A o \in Engines : Stopped(eng[o]) /\ eng[o].idleCall = NoCall /\ (eng[o].asleep <=> paused = "sleep")
    BY <1>1, <1>15 DEF PhaseStopped
  <2>2. \A o \in Engines : Unaware(o)'
    BY <1>1, <1>9, <1>13, <2>1 DEF Unaware, Stopped
  <2>3. CASE c.op \in {"pause", "sleep"} /\ paused = "sleep"
    <3>1. paused' = "sleep"
      BY <1>2, <2>3
    <3>2. PhaseRoused'
      BY <1>1, <1>9, <2>1, <2>2, <2>3, <3>1 DEF PhaseRoused, Pausing
    <3>. QED BY <1>11, <3>2 DEF WInv, Phased
  <2>4. CASE c.op \in {"pause", "sleep"} /\ paused # "sleep"
    <3>1. paused' = c.op
      BY <1>2, <2>4
    <3>2. \A o \in Engines : eng'[o].step = 0 /\ ~eng'[o].asleep
      BY <1>1, <2>1, <2>4 DEF Stopped
    <3>3. PhaseAwake'
      BY <1>9, <2>2, <2>4, <3>1, <3>2 DEF PhaseAwake, Pausing
    <3>. QED BY <1>11, <3>3 DEF WInv, Phased
  <2>5. CASE c.op \in {"resume", "wake"}
    <3>1. paused' = "no"
      BY <1>2, <2>5
    <3>2. \A o \in Engines : eng[o].asleep => c.op = "wake"
      BY <1>1, <2>1, <2>5
    <3>3. PhaseResuming'
      BY <1>1, <1>9, <1>13, <2>1, <2>5, <3>1, <3>2 DEF PhaseResuming
    <3>. QED BY <1>11, <3>3 DEF WInv, Phased
  <2>. QED BY <1>4, <2>3, <2>4, <2>5
<1>. QED BY <1>12, <1>14, <1>15

-----------------------------------------------------------------------------
(* The theorems.                                                           *)

\* All ranks start in wave 0 with nothing called.
LEMMA InitWInv ==
  ASSUME DPAssumption, Careful, Init
  PROVE  WInv
<1>. DEFINE s == [pc |-> "idle", running |-> FALSE, was |-> FALSE, wave |-> 0, step |-> 0,
                  pending |-> FALSE, ignore |-> FALSE, pause |-> "UNPAUSED",
                  waiting |-> {}, active |-> {}, idleCall |-> NoCall, asleep |-> FALSE]
<1>1. 0 \in 0..(SyncInterval * PrefillInterval + 1)
  <2>1. SyncInterval * PrefillInterval \in Nat
    BY Period
  <2>2. \A n \in Nat : 0 \in 0..(n + 1)
    OBVIOUS
  <2>. QED BY <2>1, <2>2
<1>2. s \in Engine /\ Free(s) /\ s.wave = 0 /\ s.step = 0
  BY <1>1 DEF Engine, Free
<1>3. eng = [o \in Engines |-> s]
  BY DEF Init
<1>. HIDE DEF s
<1>4. \A o \in Engines : eng[o] = s /\ cin[o] = <<>> /\ kin[o] = <<>> /\ kout[o] = <<>>
  BY <1>3 DEF Init
<1>5. Typed
  <2>1. eng \in [Engines -> Engine]
    BY <1>2, <1>3
  <2>2. /\ cin \in [Engines -> Seq(ClientMessage)] /\ kin \in [Engines -> Seq(StartMessage)]
        /\ kout \in [Engines -> Seq(Report)] /\ first \in Seq([target : Engines, wave : Nat])
    BY DEF Init
  <2>3. coord \in View /\ client \in View
    BY DEF Init, View
  <2>4. req \in [Requests -> {"new", "sent", "done", "aborted"}] /\ flight \in [Requests -> Engines \cup {None}]
    BY DEF Init
  <2>5. call \in [op : {"none", "pause", "sleep", "resume", "wake"}, left : SUBSET Engines]
    BY DEF Init
  <2>6. paused \in {"no", "pause", "sleep"} /\ nInputs \in 0..MaxInputs
    BY DEF Init, DPAssumption
  <2>. QED BY <2>1, <2>2, <2>3, <2>4, <2>5, <2>6 DEF Typed
<1>6. WaveInv
  BY <1>2, <1>4 DEF Init, WaveInv
<1>7. PhaseFree
  <2>1. paused = "no" /\ call.left = {}
    BY DEF Init
  <2>2. \A o \in Engines : Clean(cin[o])
    BY <1>4 DEF Clean
  <2>. QED BY <1>2, <1>4, <2>1, <2>2 DEF PhaseFree
<1>. QED BY <1>5, <1>6, <1>7 DEF WInv, Phased

\* Every step of the ranks, the coordinator, the client and the operator keeps it.
LEMMA NextWInv ==
  ASSUME DPAssumption, WInv, [Next]_vars
  PROVE  WInv'
<1>1. ASSUME NEW e \in Engines, EngineLoop(e) PROVE WInv'
  BY <1>1, ReceiveClientKeeps, ReceiveCoordinatorKeeps, IdleCallbackKeeps, BeginStepKeeps DEF EngineLoop
<1>2. CASE Collective
  BY <1>2, ForwardKeeps, SyncKeeps, ResumeBarrierKeeps DEF Collective
<1>3. CASE Coordinator
  BY <1>3, CoordinatorFirstKeeps, CoordinatorReportKeeps DEF Coordinator
<1>4. CASE ClientNews
  BY <1>4, ClientNewsKeeps
<1>5. ASSUME NEW r \in Requests, ClientAdd(r) \/ ClientAbort(r) PROVE WInv'
  BY <1>5, ClientAddKeeps, ClientAbortKeeps
<1>6. ASSUME NEW c \in Calls, OperatorCall(c) PROVE WInv'
  BY <1>6, OperatorCallKeeps
<1>7. CASE UNCHANGED vars
  <2>1. Typed' /\ WaveInv'
    BY <1>7 DEF vars, WInv, Typed, WaveInv
  <2>2. Phased'
    BY <1>7, PhaseSame DEF vars
  <2>. QED BY <2>1, <2>2 DEF WInv
<1>. QED BY <1>1, <1>2, <1>3, <1>4, <1>5, <1>6, <1>7 DEF Next, Quiet

\* The invariant gives what the runs check.
LEMMA Follows ==
  ASSUME DPAssumption, WInv
  PROVE  RanksTogether /\ InLockstep
<1>0. \A o \in Engines : eng[o] \in Engine
  BY DEF WInv, Typed
<1>1. TypeOK
  BY DEF WInv, Typed, TypeOK, View
<1>2. PhaseRoused => \A o \in Engines : eng[o].pc # "forward" /\ (eng[o].pc = "sync" => eng[o].step = 1)
  BY DEF PhaseRoused, Stopped, Roused
<1>3. PhaseStopped \/ PhaseResuming => \A o \in Engines : eng[o].pc \notin {"forward", "sync"}
  BY DEF PhaseStopped, PhaseResuming, Stopped, Resuming
<1>4. ResumedTogether
  <2>1. PhaseFree => ResumedTogether
    BY DEF PhaseFree, Free, ResumedTogether
  <2>2. PhaseAwake \/ PhaseRoused \/ PhaseAgreed => ResumedTogether
    BY DEF PhaseAwake, PhaseRoused, PhaseAgreed, Pausing, ResumedTogether
  <2>3. PhaseStopped \/ PhaseResuming => ResumedTogether
    BY <1>3 DEF ResumedTogether
  <2>. QED BY <2>1, <2>2, <2>3 DEF WInv, Phased
<1>5. AwakeTogether
  <2>1. PhaseFree \/ PhaseAwake \/ PhaseAgreed => AwakeTogether
    BY DEF PhaseFree, Free, PhaseAwake, PhaseAgreed, AwakeTogether
  <2>2. PhaseRoused \/ PhaseStopped \/ PhaseResuming => AwakeTogether
    BY <1>2, <1>3 DEF AwakeTogether
  <2>. QED BY <2>1, <2>2 DEF WInv, Phased
<1>6. PauseHolds
  <2>1. PhaseFree \/ PhaseAwake \/ PhaseRoused \/ PhaseAgreed \/ PhaseResuming => PauseHolds
    BY Ranks DEF PhaseFree, PhaseAwake, PhaseRoused, PhaseAgreed, PhaseResuming, Pausing, PauseHolds
  <2>2. PhaseStopped => PauseHolds
    BY <1>3 DEF PhaseStopped, Stopped, PauseHolds
  <2>. QED BY <2>1, <2>2 DEF WInv, Phased
<1>7. InLockstep
  <2>1. SUFFICES ASSUME NEW e \in Engines, NEW f \in Engines,
                        eng[e].pc \in {"forward", "sync"}, eng[f].pc \in {"forward", "sync"}
                 PROVE  eng[e].step = eng[f].step /\ eng[e].wave = eng[f].wave
    BY DEF InLockstep
  <2>2. eng[e].wave = eng[f].wave
    BY DEF WInv, WaveInv
  <2>3. eng[e].step = eng[f].step
    BY <1>2, <1>3, <2>1 DEF WInv, Phased, PhaseFree, PhaseAwake, PhaseAgreed
  <2>. QED BY <2>2, <2>3
<1>. QED BY <1>1, <1>4, <1>5, <1>6, <1>7 DEF RanksTogether

\* The inductive invariant holds always, for any number of ranks, requests and
\* calls and any intervals, when callers respect what Careful says.
THEOREM WInvAlways == Careful /\ Spec => []WInv
<1>1. Careful /\ Init => WInv
  BY InitWInv, DPAssumption
<1>2. WInv /\ [Next]_vars => WInv'
  BY NextWInv, DPAssumption
<1>. QED BY <1>1, <1>2, PTL DEF Spec

\* DPEngineCoreProc's ranks pause, sleep and resume as one: none steps while
\* another ignores START_DP_WAVE or has its memory unmapped, and a pause that
\* was answered holds on every rank.
THEOREM AlwaysRanksTogether == Careful /\ Spec => []RanksTogether
<1>1. WInv => RanksTogether
  BY Follows, DPAssumption
<1>. QED BY <1>1, WInvAlways, PTL

\* Ranks that meet in a forward pass or in the all-reduce are at the same step
\* of the same wave: step_counter and current_wave never drift apart, whatever
\* the order of requests, wave messages, pauses and resumes.
THEOREM AlwaysInLockstep == Careful /\ Spec => []InLockstep
<1>1. WInv => InLockstep
  BY Follows, DPAssumption
<1>. QED BY <1>1, WInvAlways, PTL

=============================================================================
