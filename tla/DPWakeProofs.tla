--------------------------- MODULE DPWakeProofs ----------------------------
(***************************************************************************)
(* A second proof about DPWaves: no rank waits in a forward pass for one   *)
(* that nothing will wake (NeverStranded), for any number of ranks and     *)
(* requests, when callers respect all of Discipline.                       *)
(*                                                                         *)
(* On top of WInv, which says where the ranks are, the invariant says who  *)
(* takes part in the current wave before its first collective: as soon as  *)
(* one rank, the coordinator or the client counts on it, every rank has a  *)
(* reason of its own to step or a message on its way that will give it one *)
(* (Gathering).  ViewInv and PlaceInv say why no such message is stale and *)
(* no such reason is taken back.                                           *)
(***************************************************************************)
EXTENDS DPWavesProofs

\* What callers respect: they also wait with a resume until news of earlier
\* waves has arrived, send no request meanwhile, and abort only what has begun.
Disciplined == Careful /\ {"settled", "admitted"} \subseteq Discipline

-----------------------------------------------------------------------------
(* What NeverStranded rests on: who takes part in the current wave.        *)

\* The wave all ranks are in.
Wave == eng[0].wave

\* What rank e has before it: requests on their way to it (of this wave), requests
\* it holds, a START_DP_WAVE of this wave, and a report of its own.
HasAdd(e) == \E i \in DOMAIN cin[e] : cin[e][i].type = "ADD"
HasWaveAdd(e) == \E i \in DOMAIN cin[e] : cin[e][i].type = "ADD" /\ cin[e][i].wave = Wave
Holds(e) == eng[e].waiting # {} \/ eng[e].active # {}
Started(e) == \E i \in DOMAIN kin[e] : kin[e][i].wave = Wave /\ kin[e][i].exclude # e
Reports(e) == \E i \in DOMAIN kout[e] : kout[e][i].type = "start" /\ kout[e][i].wave = Wave
\* The coordinator or the client takes the wave for running.
Runs(view) == view.wave = Wave /\ view.running

\* A rank that will step by itself, and one that takes the others along.
On(e) == eng[e].running \/ Holds(e) \/ HasAdd(e)
Live(e) == eng[e].running \/ Holds(e) \/ HasWaveAdd(e)

\* A message that will wake rank e: on its way to it, or to a coordinator that
\* does not yet take the wave for running and will tell all ranks.
Woken(e) ==
  \/ Started(e)
  \/ /\ ~Runs(coord)
     /\ \/ \E g \in Engines : g # e /\ Reports(g)
        \/ \E i \in DOMAIN first : first[i].wave = Wave /\ first[i].target # e

\* Somebody counts on the wave to run.
Wanted ==
  \/ \E e \in Engines : Live(e) \/ Started(e)
  \/ Runs(coord) \/ Runs(client)

\* A first request of the wave was sent to a rank that will step by itself.
FirstsOn == \A i \in DOMAIN first : first[i].wave = Wave => On(first[i].target)

\* Before the first collective of a wave: what wakes one rank wakes all.
Gathering ==
  /\ \A e \in Engines :
       /\ eng[e].step = 0 /\ eng[e].pc \in {"idle", "drain", "forward"}
       /\ eng[e].active # {} => eng[e].pc = "forward"
       /\ eng[e].pc = "forward" => eng[e].running \/ eng[e].active # {}
  /\ FirstsOn
  /\ Wanted => \A e \in Engines : On(e) \/ Woken(e)

\* After it every rank knows that the wave runs.
Running == \A e \in Engines : eng[e].running \/ eng[e].pc = "sync"

\* A wave that has not begun while the ranks are stopped is wanted at most
\* because of a request one of them keeps.
HaltInv ==
  /\ ~Runs(coord)
  /\ Runs(client) => \E e \in Engines : eng[e].waiting # {} \/ HasAdd(e)

\* No news of earlier waves is under way, and no request behind the resume.
AddsAhead(e) ==
  \A i \in DOMAIN cin[e] :
    cin[e][i].type = "ADD" => \E j \in DOMAIN cin[e] : i < j /\ cin[e][j].type = "UTILITY"

SettledInv == Settled /\ \A e \in Engines : AddsAhead(e)

GatherInv ==
  /\ PhaseFree => Gathering \/ Running
  /\ PhaseStopped => HaltInv
  /\ PhaseResuming => HaltInv /\ SettledInv

\* The coordinator is never behind the client, and a report of the current
\* wave comes from a rank that runs.
ViewInv ==
  /\ client.wave <= coord.wave
  /\ \A i \in DOMAIN first : first[i].wave <= coord.wave
  /\ \A e \in Engines : Reports(e) => eng[e].running

\* Where a request is: nowhere, in one queue, waiting at one rank, or admitted
\* there; only then it may be aborted.
Adds(e, r) == {i \in DOMAIN cin[e] : cin[e][i].type = "ADD" /\ cin[e][i].req = r}
Aborts(r) == \E e \in Engines : \E i \in DOMAIN cin[e] : cin[e][i].type = "ABORT" /\ cin[e][i].req = r
Sent(r) == \E e \in Engines : Adds(e, r) # {}
Waits(r) == \E e \in Engines : r \in eng[e].waiting
Begun(r) == \E e \in Engines : r \in eng[e].active

SentOnce(r) == \A e, f \in Engines : \A i \in Adds(e, r), j \in Adds(f, r) : e = f /\ i = j
WaitsOnce(r) == \A e, f \in Engines : r \in eng[e].waiting /\ r \in eng[f].waiting => e = f

PlaceInv(r) ==
  /\ req[r] = "new" => ~Sent(r) /\ ~Waits(r) /\ ~Begun(r) /\ ~Aborts(r)
  /\ Sent(r) => ~Waits(r) /\ ~Begun(r) /\ ~Aborts(r)
  /\ Waits(r) => ~Begun(r) /\ ~Aborts(r)
  /\ SentOnce(r) /\ WaitsOnce(r)

NInv == ViewInv /\ GatherInv /\ \A r \in Requests : PlaceInv(r)

SInv == Disciplined /\ WInv /\ NInv

-----------------------------------------------------------------------------
(* What the steps of a rank do to its requests and to the others.          *)

\* Rank e alone is concerned; types and waves stay.
Local(e) ==
  /\ eng'[e] \in Engine /\ eng[e] \in Engine
  /\ eng[e].pc \in {"idle", "drain"}
  /\ eng'[e].wave = eng[e].wave /\ eng'[e].step = eng[e].step
  /\ eng[e].running => eng'[e].running
  /\ \A o \in Engines : o # e => eng'[o] = eng[o] /\ kout'[o] = kout[o]
  /\ first' = first /\ coord' = coord /\ client' = client /\ paused' = paused
  /\ call' = call

\* No request is new again.
SameRequests == \A r \in Requests : req'[r] = "new" => req[r] = "new"

\* Rank e takes the next message of its client.
ReadsClient(e) ==
  /\ cin[e] # <<>> /\ cin'[e] = Tail(cin[e]) /\ kin' = kin
  /\ \A o \in Engines : o # e => cin'[o] = cin[o]

\* add_request: the request waits; it starts a wave if it is of an earlier one.
StartsWave(s, m) == ~s.running /\ m.wave < s.wave /\ s.pause = "UNPAUSED"

\* What a rank does with a new request.
LEMMA AddDoes ==
  ASSUME NEW s \in Engine, s.pc \in {"idle", "drain"}, NEW m, m.req \in Requests, m.wave \in Nat,
         m.wave <= s.wave
  PROVE  LET x == AddRequest(Polled(s), m.req, m.wave)
         IN  /\ x.eng.waiting = s.waiting \cup {m.req} /\ x.eng.active = s.active
             /\ x.eng.pc \in {"idle", "drain"}
             /\ x.eng.running <=> (s.running \/ StartsWave(s, m))
             /\ x.toCoord = IF StartsWave(s, m) THEN <<StartWave(s.wave)>> ELSE <<>>
<1>. DEFINE p == Polled(s)  t == [p EXCEPT !.waiting = @ \cup {m.req}]  u == [t EXCEPT !.running = TRUE]
<1>1. /\ p \in Engine /\ p.pc \in {"idle", "drain"} /\ p.running = s.running /\ p.wave = s.wave
      /\ p.pause = s.pause /\ p.waiting = s.waiting /\ p.active = s.active
  BY PolledFacts
<1>. HIDE DEF p
<1>2. /\ t \in Engine /\ t.pc = p.pc /\ t.running = p.running /\ t.waiting = p.waiting \cup {m.req}
      /\ t.active = p.active
  BY <1>1 DEF Engine
<1>. HIDE DEF t
<1>3. /\ u.pc = t.pc /\ u.running = TRUE /\ u.waiting = t.waiting /\ u.active = t.active
  BY <1>2 DEF Engine
<1>. HIDE DEF u
<1>4. s.wave \in Nat /\ s.running \in BOOLEAN
  BY DEF Engine
<1>5. AddRequest(p, m.req, m.wave) = IF m.wave < p.wave /\ ~p.running /\ p.pause = "UNPAUSED"
                                     THEN Result(u, <<StartWave(p.wave)>>, {}, FALSE) ELSE Quietly(t)
  <2>1. ~(m.wave > p.wave)
    BY <1>1, <1>4
  <2>. QED BY <2>1 DEF AddRequest, t, u
<1>6. CASE StartsWave(s, m)
  <2>1. AddRequest(p, m.req, m.wave) = Result(u, <<StartWave(s.wave)>>, {}, FALSE)
    BY <1>1, <1>5, <1>6 DEF StartsWave
  <2>. QED BY <1>1, <1>2, <1>3, <1>6, <2>1 DEF Result, p
<1>7. CASE ~StartsWave(s, m)
  <2>1. AddRequest(p, m.req, m.wave) = Quietly(t)
    BY <1>1, <1>5, <1>7 DEF StartsWave
  <2>. QED BY <1>1, <1>2, <1>7, <2>1 DEF Result, Quietly, p
<1>. QED BY <1>6, <1>7

\* A request is read.
LEMMA ReadsAdd ==
  ASSUME WInv, NEW e \in Engines, ReceiveClient(e), Head(cin[e]).type = "ADD"
  PROVE  LET s == eng[e]  t == eng'[e]  m == Head(cin[e])
         IN  /\ Local(e) /\ SameRequests /\ ReadsClient(e)
             /\ m.req \in Requests /\ m.wave \in Nat /\ m.wave <= s.wave
             /\ t.waiting = s.waiting \cup {m.req} /\ t.active = s.active
             /\ t.pc \in {"idle", "drain"}
             /\ t.running <=> (s.running \/ StartsWave(s, m))
             /\ kout'[e] = IF StartsWave(s, m) THEN Append(kout[e], StartWave(s.wave)) ELSE kout[e]
<1>. DEFINE s == eng[e]  m == Head(cin[e])  x == AddRequest(Polled(s), m.req, m.wave)
<1>1. /\ s \in Engine /\ cin[e] \in Seq(ClientMessage) /\ cin[e] # <<>> /\ s.pc \in {"idle", "drain"}
      /\ kout[e] \in Seq(Report)
  BY DEF WInv, Typed, ReceiveClient, ReceiveFrom
<1>2. m \in ClientMessage /\ m = cin[e][1] /\ 1 \in DOMAIN cin[e]
  BY <1>1, TailFacts
<1>3. m.req \in Requests /\ m.wave \in Nat /\ m.wave <= s.wave
  <2>1. m.type = "ADD" => m.req \in Requests /\ m.wave \in Nat
    BY <1>2 DEF ClientMessage
  <2>2. m.wave <= s.wave
    BY <1>2 DEF WInv, WaveInv
  <2>. QED BY <2>1, <2>2
<1>4. /\ Effect(e, x) /\ UNCHANGED <<first, coord, client, paused, nInputs, kin>>
      /\ cin' = [cin EXCEPT ![e] = Tail(cin[e])]
  <2>1. Handle(e, Polled(s), m) = x
    BY DEF Handle
  <2>. QED BY <2>1 DEF ReceiveClient, ReceiveFrom
<1>. HIDE DEF m
<1>5. /\ x.eng.waiting = s.waiting \cup {m.req} /\ x.eng.active = s.active
      /\ x.eng.pc \in {"idle", "drain"}
      /\ x.eng.running <=> (s.running \/ StartsWave(s, m))
      /\ x.toCoord = IF StartsWave(s, m) THEN <<StartWave(s.wave)>> ELSE <<>>
  BY <1>1, <1>3, AddDoes
<1>6. x.eng \in Engine /\ Soft(s, x.eng) /\ x.done = {} /\ ~x.answers
  BY <1>1, <1>3, AddFacts
<1>. HIDE DEF x
<1>7. /\ eng'[e] = x.eng /\ kout'[e] = kout[e] \o x.toCoord
      /\ \A o \in Engines : o # e => eng'[o] = eng[o] /\ kout'[o] = kout[o] /\ cin'[o] = cin[o]
      /\ cin'[e] = Tail(cin[e]) /\ call' = call
  BY <1>4, <1>6 DEF WInv, Typed, Effect, Answer
<1>8. Local(e)
  BY <1>1, <1>4, <1>6, <1>7 DEF Local, Soft
<1>9. SameRequests
  BY <1>4 DEF Effect, End, SameRequests
<1>10. ReadsClient(e)
  BY <1>1, <1>4, <1>7 DEF ReadsClient
<1>11. kout'[e] = IF StartsWave(s, m) THEN Append(kout[e], StartWave(s.wave)) ELSE kout[e]
  <2>1. StartWave(s.wave) \in Report
    BY <1>1 DEF StartWave, Report, Engine
  <2>2. kout[e] \o <<StartWave(s.wave)>> = Append(kout[e], StartWave(s.wave)) /\ kout[e] \o <<>> = kout[e]
    BY <1>1, <2>1, AppendFacts
  <2>. QED BY <1>5, <1>7, <2>2
<1>. QED BY <1>3, <1>5, <1>7, <1>8, <1>9, <1>10, <1>11 DEF m

\* An abort is read: it drops the request.
LEMMA ReadsAbort ==
  ASSUME WInv, NEW e \in Engines, ReceiveClient(e), Head(cin[e]).type = "ABORT"
  PROVE  LET s == eng[e]  t == eng'[e]  m == Head(cin[e])
         IN  /\ Local(e) /\ SameRequests /\ ReadsClient(e) /\ m.req \in Requests
             /\ t.waiting = s.waiting \ {m.req} /\ t.active = s.active \ {m.req}
             /\ t.pc \in {"idle", "drain"} /\ t.running = s.running /\ kout'[e] = kout[e]
<1>. DEFINE s == eng[e]  m == Head(cin[e])  p == Polled(s)
            gone == {m.req} \cap (p.waiting \cup p.active)  d == Drop(p, gone)
            x == Result(d, <<>>, gone, FALSE)
<1>1. /\ s \in Engine /\ cin[e] \in Seq(ClientMessage) /\ cin[e] # <<>> /\ s.pc \in {"idle", "drain"}
      /\ kout[e] \in Seq(Report)
  BY DEF WInv, Typed, ReceiveClient, ReceiveFrom
<1>2. m \in ClientMessage
  BY <1>1, TailFacts
<1>3. m.req \in Requests
  BY <1>2 DEF ClientMessage
<1>4. /\ Effect(e, x) /\ UNCHANGED <<first, coord, client, paused, nInputs, kin>>
      /\ cin' = [cin EXCEPT ![e] = Tail(cin[e])]
  <2>1. Handle(e, Polled(s), m) = x
    BY DEF Handle
  <2>. QED BY <2>1 DEF ReceiveClient, ReceiveFrom
<1>. HIDE DEF m
<1>5. /\ p \in Engine /\ p.pc \in {"idle", "drain"} /\ p.running = s.running
      /\ p.waiting = s.waiting /\ p.active = s.active
  BY <1>1, PolledFacts
<1>6. d \in Engine /\ Soft(s, d)
  BY <1>1, AbortFacts
<1>7. d.pc = p.pc /\ d.running = p.running /\ d.waiting = p.waiting \ gone /\ d.active = p.active \ gone
  BY <1>5, DropFacts
<1>8. x.eng = d /\ x.toCoord = <<>> /\ x.answers = FALSE
  BY DEF Result
<1>9. d.waiting = s.waiting \ {m.req} /\ d.active = s.active \ {m.req}
  BY <1>5, <1>7
<1>. HIDE DEF x, d, gone, p
<1>10. /\ eng'[e] = d /\ kout'[e] = kout[e] \o <<>>
       /\ \A o \in Engines : o # e => eng'[o] = eng[o] /\ kout'[o] = kout[o] /\ cin'[o] = cin[o]
       /\ cin'[e] = Tail(cin[e]) /\ call' = call
  BY <1>4, <1>8 DEF WInv, Typed, Effect, Answer
<1>11. Local(e)
  BY <1>1, <1>4, <1>6, <1>10 DEF Local, Soft
<1>12. SameRequests
  BY <1>4 DEF Effect, End, SameRequests
<1>13. ReadsClient(e)
  BY <1>1, <1>4, <1>10 DEF ReadsClient
<1>14. kout'[e] = kout[e]
  BY <1>1, <1>10, ConcatEmptySeq
<1>. QED BY <1>3, <1>5, <1>7, <1>9, <1>10, <1>11, <1>12, <1>13, <1>14 DEF m

\* START_DP_WAVE is read.
LEMMA ReadsStart ==
  ASSUME WInv, NEW e \in Engines, ReceiveCoordinator(e)
  PROVE  LET s == eng[e]  t == eng'[e]  m == Head(kin[e])
         IN  /\ Local(e) /\ SameRequests /\ cin' = cin
             /\ kin[e] # <<>> /\ kin'[e] = Tail(kin[e]) /\ \A o \in Engines : o # e => kin'[o] = kin[o]
             /\ t.waiting = s.waiting /\ t.active = s.active /\ t.pc \in {"idle", "drain"}
             /\ t.running <=> (s.running \/ (~s.ignore /\ m.exclude # e /\ m.wave = s.wave))
             /\ kout'[e] = kout[e]
<1>. DEFINE s == eng[e]  m == Head(kin[e])  p == Polled(s)
            t == [p EXCEPT !.wave = m.wave, !.running = TRUE]
            x == Start(p, e, m.wave, m.exclude)
<1>1. /\ s \in Engine /\ kin[e] \in Seq(StartMessage) /\ kin[e] # <<>> /\ s.pc \in {"idle", "drain"}
      /\ kout[e] \in Seq(Report) /\ s.wave \in Nat /\ s.running \in BOOLEAN
  BY DEF WInv, Typed, ReceiveCoordinator, ReceiveFrom, Engine
<1>2. m \in StartMessage /\ m = kin[e][1] /\ 1 \in DOMAIN kin[e]
  BY <1>1, TailFacts
<1>3. m.type = "START" /\ m.wave \in Nat /\ m.wave <= s.wave
  BY <1>2 DEF StartMessage, WInv, WaveInv
<1>4. /\ Effect(e, x) /\ UNCHANGED <<first, coord, client, paused, nInputs, cin>>
      /\ kin' = [kin EXCEPT ![e] = Tail(kin[e])]
  <2>1. Handle(e, Polled(s), m) = x
    BY <1>3 DEF Handle
  <2>. QED BY <2>1 DEF ReceiveCoordinator, ReceiveFrom
<1>. HIDE DEF m
<1>5. /\ p \in Engine /\ p.pc \in {"idle", "drain"} /\ p.running = s.running /\ p.wave = s.wave
      /\ p.waiting = s.waiting /\ p.active = s.active /\ p.ignore = s.ignore
  BY <1>1, PolledFacts
<1>6. x.eng \in Engine /\ Soft(s, x.eng) /\ x.done = {} /\ ~x.answers /\ x.toCoord = <<>>
  BY <1>1, <1>3, StartFacts
<1>7. x.eng = IF ~p.ignore /\ m.exclude # e /\ m.wave >= p.wave THEN t ELSE p
  BY DEF Start, Quietly, Result
<1>. HIDE DEF x, p
<1>8. t.pc = p.pc /\ t.running = TRUE /\ t.waiting = p.waiting /\ t.active = p.active
  BY <1>5 DEF Engine
<1>. HIDE DEF t
<1>9. /\ x.eng.pc = p.pc /\ x.eng.waiting = p.waiting /\ x.eng.active = p.active
      /\ x.eng.running <=> (s.running \/ (~s.ignore /\ m.exclude # e /\ m.wave = s.wave))
  <2>1. m.wave >= p.wave <=> m.wave = s.wave
    BY <1>1, <1>3, <1>5
  <2>2. CASE ~p.ignore /\ m.exclude # e /\ m.wave >= p.wave
    BY <1>5, <1>7, <1>8, <2>1, <2>2
  <2>3. CASE ~(~p.ignore /\ m.exclude # e /\ m.wave >= p.wave)
    BY <1>5, <1>7, <2>1, <2>3
  <2>. QED BY <2>2, <2>3
<1>10. /\ eng'[e] = x.eng /\ kout'[e] = kout[e] \o <<>>
       /\ \A o \in Engines : o # e => eng'[o] = eng[o] /\ kout'[o] = kout[o] /\ kin'[o] = kin[o]
       /\ kin'[e] = Tail(kin[e]) /\ call' = call
  BY <1>4, <1>6 DEF WInv, Typed, Effect, Answer
<1>11. Local(e)
  BY <1>1, <1>4, <1>6, <1>10 DEF Local, Soft
<1>12. SameRequests
  BY <1>4 DEF Effect, End, SameRequests
<1>13. kout'[e] = kout[e]
  BY <1>1, <1>10, ConcatEmptySeq
<1>. QED BY <1>1, <1>4, <1>5, <1>9, <1>10, <1>11, <1>12, <1>13 DEF m

-----------------------------------------------------------------------------
(* Where a request is.                                                     *)

\* No rank gets a request.
Shrinks ==
  \A o \in Engines : eng'[o].waiting \subseteq eng[o].waiting /\ eng'[o].active \subseteq eng[o].active

\* Reading a message takes a request off a queue, if any.
LEMMA ReadPlaces ==
  ASSUME Typed, NEW e \in Engines, ReadsClient(e), NEW r
  PROVE  /\ Sent(r)' => Sent(r)
         /\ Aborts(r)' => Aborts(r)
         /\ SentOnce(r) => SentOnce(r)'
         /\ Head(cin[e]).type = "ADD" /\ Head(cin[e]).req = r => Sent(r)
         /\ Head(cin[e]).type = "ADD" /\ Head(cin[e]).req = r /\ SentOnce(r) => ~Sent(r)'
         /\ Head(cin[e]).type = "ABORT" /\ Head(cin[e]).req = r => Aborts(r)
<1>1. /\ cin[e] \in Seq(ClientMessage) /\ cin[e] # <<>> /\ cin'[e] = Tail(cin[e])
      /\ \A o \in Engines : o # e => cin'[o] = cin[o]
  BY DEF Typed, ReadsClient
<1>2. /\ Head(cin[e]) = cin[e][1] /\ 1 \in DOMAIN cin[e]
      /\ \A i \in DOMAIN Tail(cin[e]) : i + 1 \in DOMAIN cin[e] /\ Tail(cin[e])[i] = cin[e][i + 1]
      /\ \A i \in DOMAIN Tail(cin[e]) : i \in Int /\ i + 1 # 1
  BY <1>1, TailFacts
<1>3. \A i \in Adds(e, r)' : i + 1 \in Adds(e, r) /\ i \in Int /\ i + 1 # 1
  BY <1>1, <1>2 DEF Adds
<1>4. \A o \in Engines : o # e => Adds(o, r)' = Adds(o, r)
  BY <1>1 DEF Adds
<1>5. Head(cin[e]).type = "ADD" /\ Head(cin[e]).req = r => 1 \in Adds(e, r)
  BY <1>2 DEF Adds
<1>6. ASSUME Aborts(r)' PROVE Aborts(r)
  <2>1. PICK o \in Engines : \E i \in DOMAIN cin'[o] : cin'[o][i].type = "ABORT" /\ cin'[o][i].req = r
    BY <1>6 DEF Aborts
  <2>2. CASE o = e
    <3>1. PICK i \in DOMAIN Tail(cin[e]) : Tail(cin[e])[i].type = "ABORT" /\ Tail(cin[e])[i].req = r
      BY <1>1, <2>1, <2>2
    <3>2. i + 1 \in DOMAIN cin[e] /\ cin[e][i + 1].type = "ABORT" /\ cin[e][i + 1].req = r
      BY <1>2, <3>1
    <3>. QED BY <3>2 DEF Aborts
  <2>3. CASE o # e
    BY <1>1, <2>1, <2>3 DEF Aborts
  <2>. QED BY <2>2, <2>3
<1>7. Head(cin[e]).type = "ABORT" /\ Head(cin[e]).req = r => Aborts(r)
  BY <1>2 DEF Aborts
<1>8. Sent(r)' => Sent(r)
  BY <1>3, <1>4 DEF Sent
<1>9. ASSUME SentOnce(r) PROVE SentOnce(r)'
  <2>1. SUFFICES ASSUME NEW a \in Engines, NEW b \in Engines,
                        NEW i \in Adds(a, r)', NEW j \in Adds(b, r)'
                 PROVE  a = b /\ i = j
    BY DEF SentOnce
  <2>2. CASE a = e /\ b = e
    <3>1. i + 1 = j + 1 /\ i \in Int /\ j \in Int
      BY <1>3, <1>9, <2>2 DEF SentOnce
    <3>. QED BY <2>2, <3>1
  <2>3. CASE a # e /\ b # e
    BY <1>4, <1>9, <2>3 DEF SentOnce
  <2>4. CASE a = e /\ b # e
    BY <1>3, <1>4, <1>9, <2>4 DEF SentOnce
  <2>5. CASE a # e /\ b = e
    BY <1>3, <1>4, <1>9, <2>5 DEF SentOnce
  <2>. QED BY <2>2, <2>3, <2>4, <2>5
<1>10. ASSUME Head(cin[e]).type = "ADD", Head(cin[e]).req = r, SentOnce(r) PROVE ~Sent(r)'
  <2>1. 1 \in Adds(e, r)
    BY <1>5, <1>10
  <2>2. \A o \in Engines : o # e => Adds(o, r)' = {}
    BY <1>4, <1>10, <2>1 DEF SentOnce
  <2>3. Adds(e, r)' = {}
    BY <1>3, <1>10, <2>1 DEF SentOnce
  <2>. QED BY <2>2, <2>3 DEF Sent
<1>11. Head(cin[e]).type = "ADD" /\ Head(cin[e]).req = r => Sent(r)
  BY <1>5 DEF Sent
<1>. QED BY <1>6, <1>7, <1>8, <1>9, <1>10, <1>11

\* Sending one puts it on a queue, if it is about the request.
LEMMA SendPlaces ==
  ASSUME Typed, NEW m \in ClientMessage, NEW r,
         \A o \in Engines : cin'[o] = cin[o] \/ cin'[o] = Append(cin[o], m)
  PROVE  /\ Sent(r)' => Sent(r) \/ (m.type = "ADD" /\ m.req = r)
         /\ Aborts(r)' => Aborts(r) \/ (m.type = "ABORT" /\ m.req = r)
         /\ ~(m.type = "ADD" /\ m.req = r) /\ SentOnce(r) => SentOnce(r)'
<1>1. ASSUME NEW o \in Engines
      PROVE  \A i \in DOMAIN cin'[o] : (i \in DOMAIN cin[o] /\ cin'[o][i] = cin[o][i]) \/ cin'[o][i] = m
  <2>1. cin[o] \in Seq(ClientMessage)
    BY DEF Typed
  <2>2. \A i \in DOMAIN Append(cin[o], m) :
          (i \in DOMAIN cin[o] /\ Append(cin[o], m)[i] = cin[o][i]) \/ Append(cin[o], m)[i] = m
    BY <2>1, AppendFacts
  <2>. QED BY <2>2
<1>2. Sent(r)' => Sent(r) \/ (m.type = "ADD" /\ m.req = r)
  BY <1>1 DEF Sent, Adds
<1>3. Aborts(r)' => Aborts(r) \/ (m.type = "ABORT" /\ m.req = r)
  BY <1>1 DEF Aborts
<1>4. ~(m.type = "ADD" /\ m.req = r) => \A o \in Engines : Adds(o, r)' \subseteq Adds(o, r)
  BY <1>1 DEF Adds
<1>5. ~(m.type = "ADD" /\ m.req = r) /\ SentOnce(r) => SentOnce(r)'
  BY <1>4 DEF SentOnce
<1>. QED BY <1>2, <1>3, <1>5

\* A step by which requests only get fewer.
LEMMA PlaceShrinks ==
  ASSUME NEW r \in Requests, PlaceInv(r), Shrinks, SameRequests,
         Sent(r)' => Sent(r), Aborts(r)' => Aborts(r), SentOnce(r) => SentOnce(r)'
  PROVE  PlaceInv(r)'
<1>1. (Waits(r)' => Waits(r)) /\ (Begun(r)' => Begun(r))
  BY DEF Shrinks, Waits, Begun
<1>2. WaitsOnce(r)'
  BY DEF PlaceInv, Shrinks, WaitsOnce
<1>3. req'[r] = "new" => req[r] = "new"
  BY DEF SameRequests
<1>. QED BY <1>1, <1>2, <1>3 DEF PlaceInv

\* Nothing is read or sent.
LEMMA PlaceStays ==
  ASSUME NEW r \in Requests, PlaceInv(r), Shrinks, SameRequests, cin' = cin
  PROVE  PlaceInv(r)'
<1>1. Sent(r)' = Sent(r) /\ Aborts(r)' = Aborts(r) /\ SentOnce(r)' = SentOnce(r)
  BY DEF Sent, Aborts, SentOnce, Adds
<1>. QED BY <1>1, PlaceShrinks

\* The request that is read waits now, and no other moves.
LEMMA PlaceReadsAdd ==
  ASSUME SInv, NEW e \in Engines, ReceiveClient(e), Head(cin[e]).type = "ADD",
         NEW r \in Requests
  PROVE  PlaceInv(r)'
<1>. DEFINE m == Head(cin[e])
<1>1. PlaceInv(r) /\ WInv /\ Typed
  BY DEF SInv, NInv, WInv
<1>2. Local(e) /\ SameRequests /\ ReadsClient(e)
  BY <1>1, ReadsAdd
<1>3. eng'[e].waiting = eng[e].waiting \cup {m.req} /\ eng'[e].active = eng[e].active
  BY <1>1, ReadsAdd
<1>4. \A o \in Engines : o # e => eng'[o] = eng[o]
  BY <1>2 DEF Local
<1>5. CASE m.req = r
  <2>1. Sent(r) /\ ~Sent(r)'
    BY <1>1, <1>2, <1>5, ReadPlaces DEF PlaceInv
  <2>2. Aborts(r)' => Aborts(r)
    BY <1>1, <1>2, ReadPlaces
  <2>3. SentOnce(r)'
    BY <1>1, <1>2, ReadPlaces DEF PlaceInv
  <2>4. req'[r] # "new" /\ ~Waits(r) /\ ~Begun(r) /\ ~Aborts(r)
    BY <1>1, <1>2, <2>1 DEF PlaceInv, SameRequests
  <2>5. ~Begun(r)'
    BY <1>3, <1>4, <2>4 DEF Begun
  <2>6. WaitsOnce(r)'
    BY <1>4, <2>4 DEF WaitsOnce, Waits
  <2>. QED BY <2>1, <2>2, <2>3, <2>4, <2>5, <2>6 DEF PlaceInv
<1>6. CASE m.req # r
  <2>1. (Sent(r)' => Sent(r)) /\ (Aborts(r)' => Aborts(r)) /\ (SentOnce(r) => SentOnce(r)')
    BY <1>1, <1>2, ReadPlaces
  <2>2. (Waits(r)' => Waits(r)) /\ (Begun(r)' => Begun(r))
    BY <1>3, <1>4, <1>6 DEF Waits, Begun
  <2>3. WaitsOnce(r)'
    BY <1>1, <1>3, <1>4, <1>6 DEF WaitsOnce, PlaceInv
  <2>4. req'[r] = "new" => req[r] = "new"
    BY <1>2 DEF SameRequests
  <2>. QED BY <1>1, <2>1, <2>2, <2>3, <2>4 DEF PlaceInv
<1>. QED BY <1>5, <1>6

\* What is aborted does not wait.
LEMMA PlaceReadsAbort ==
  ASSUME SInv, NEW e \in Engines, ReceiveClient(e), Head(cin[e]).type = "ABORT",
         NEW r \in Requests
  PROVE  PlaceInv(r)' /\ eng'[e].waiting = eng[e].waiting
<1>. DEFINE m == Head(cin[e])
<1>1. WInv /\ Typed /\ \A q \in Requests : PlaceInv(q)
  BY DEF SInv, NInv, WInv
<1>2. Local(e) /\ SameRequests /\ ReadsClient(e) /\ m.req \in Requests
  BY <1>1, ReadsAbort
<1>3. eng'[e].waiting = eng[e].waiting \ {m.req} /\ eng'[e].active = eng[e].active \ {m.req}
  BY <1>1, ReadsAbort
<1>4. Shrinks
  BY <1>2, <1>3 DEF Local, Shrinks
<1>5. (Sent(r)' => Sent(r)) /\ (Aborts(r)' => Aborts(r)) /\ (SentOnce(r) => SentOnce(r)')
  BY <1>1, <1>2, ReadPlaces
<1>6. PlaceInv(r)'
  BY <1>1, <1>2, <1>4, <1>5, PlaceShrinks
<1>7. Aborts(m.req)
  BY <1>1, <1>2, ReadPlaces
<1>8. m.req \notin eng[e].waiting
  BY <1>1, <1>2, <1>7 DEF PlaceInv, Waits
<1>. QED BY <1>3, <1>6, <1>8

-----------------------------------------------------------------------------
(* Phases, seen from the step that leads to them.                          *)

\* Which calls are under way tells the phases apart.
LEMMA PhaseKinds ==
  ASSUME DPAssumption, Phased
  PROVE  /\ paused = "no" /\ call.left = {} => PhaseFree
         /\ paused = "no" /\ call.left = Engines => PhaseResuming
         /\ paused = "no" => PhaseFree \/ PhaseResuming
<1>1. Engines # {}
  BY Ranks
<1>. QED BY <1>1 DEF Phased, PhaseFree, PhaseAwake, PhaseRoused, PhaseAgreed, PhaseStopped,
                     PhaseResuming, Pausing

\* Before the ranks have stopped, each has a pause to read or runs.
LEMMA PhaseBack ==
  ASSUME DPAssumption, WInv, call' = call, paused' = paused,
         \A o \in Engines : Clean(cin'[o]) => Clean(cin[o]),
         \A o \in Engines : eng[o].running => eng'[o].running
  PROVE  /\ PhaseFree' => PhaseFree
         /\ PhaseStopped' => PhaseStopped
         /\ PhaseResuming' => PhaseResuming
<1>1. PhaseFree' => PhaseFree
  BY PhaseKinds DEF PhaseFree, WInv
<1>2. PhaseResuming' => PhaseResuming
  BY PhaseKinds DEF PhaseResuming, WInv
<1>3. ASSUME PhaseStopped' PROVE PhaseStopped
  <2>1. /\ paused # "no" /\ 0 \in Engines /\ Clean(cin'[0]) /\ ~eng'[0].running
    BY <1>3, Ranks DEF PhaseStopped, Stopped
  <2>2. Clean(cin[0]) /\ ~eng[0].running
    BY <2>1
  <2>3. ~Unaware(0) /\ ~Aware(0)
    BY <2>2 DEF Unaware, Aware, Once, Clean
  <2>4. ~PhaseAwake /\ ~PhaseRoused /\ ~PhaseAgreed
    BY <2>1, <2>2, <2>3 DEF PhaseAwake, PhaseRoused, PhaseAgreed
  <2>5. ~PhaseFree /\ ~PhaseResuming
    BY <2>1 DEF PhaseFree, PhaseResuming
  <2>. QED BY <2>4, <2>5 DEF WInv, Phased
<1>. QED BY <1>1, <1>2, <1>3

\* A rank that is stopped or in the barrier does not step by itself.
LEMMA Halted ==
  ASSUME DPAssumption, WInv, PhaseStopped \/ PhaseResuming, NEW e \in Engines
  PROVE  /\ ~eng[e].running /\ eng[e].pc \in {"idle", "resume"}
         /\ eng[e].pc = "idle" => ~HasWork(eng[e]) /\ eng[e].pause # "UNPAUSED" /\ eng[e].ignore
<1>1. Stopped(eng[e]) \/ Resuming(eng[e])
  BY DEF PhaseStopped, PhaseResuming
<1>. QED BY <1>1 DEF Stopped, Resuming, HasWork

-----------------------------------------------------------------------------
(* What a step does to those who take part in the wave.                    *)

\* First requests on their way stay about ranks that will step.
LEMMA FirstsFrom ==
  ASSUME \A i \in DOMAIN first' : first'[i].wave = Wave' =>
           \E o \in Engines : first'[i].target = o /\ On(o)'
  PROVE  FirstsOn'
BY DEF FirstsOn, On, Holds, HasAdd

\* First requests on their way stay covered while the ranks that step go on to.
LEMMA FirstsStay ==
  ASSUME Typed, FirstsOn, first' = first, Wave' = Wave, \A o \in Engines : On(o) => On(o)'
  PROVE  FirstsOn'
<1>1. ASSUME NEW i \in DOMAIN first, first[i].wave = Wave
      PROVE  \E o \in Engines : first[i].target = o /\ On(o)'
  <2>1. PICK o \in Engines : first[i].target = o
    <3>1. first[i] \in [target : Engines, wave : Nat]
      <4>1. first \in Seq([target : Engines, wave : Nat])
        BY DEF Typed
      <4>2. i \in 1..Len(first)
        BY <4>1, LenProperties
      <4>. QED BY <4>1, <4>2, ElementOfSeq
    <3>. QED BY <3>1
  <2>2. On(o)
    BY <1>1, <2>1 DEF FirstsOn
  <2>. QED BY <2>1, <2>2
<1>. QED BY <1>1, FirstsFrom

\* What wakes one rank still wakes all.
LEMMA GatherFrom ==
  ASSUME Gathering,
         \A e \in Engines :
           /\ eng'[e].step = 0 /\ eng'[e].pc \in {"idle", "drain", "forward"}
           /\ eng'[e].active # {} => eng'[e].pc = "forward"
           /\ eng'[e].pc = "forward" => eng'[e].running \/ eng'[e].active # {},
         FirstsOn',
         \A e \in Engines : On(e) => On(e)',
         \A e \in Engines : Woken(e) => Woken(e)' \/ On(e)',
         Wanted' => Wanted \/ \A e \in Engines : On(e)' \/ Woken(e)'
  PROVE  Gathering'
BY DEF Gathering

\* A step of one rank.
LEMMA LocalGathers ==
  ASSUME DPAssumption, WInv, Gathering, NEW e \in Engines, Local(e),
         \A o \in Engines : o # e => cin'[o] = cin[o] /\ kin'[o] = kin[o],
         eng'[e].pc \in {"idle", "drain", "forward"},
         eng'[e].active # {} => eng'[e].pc = "forward",
         eng'[e].pc = "forward" => eng'[e].running \/ eng'[e].active # {},
         On(e) => On(e)',
         Started(e) => Started(e)' \/ On(e)',
         Reports(e) => Reports(e)',
         Live(e)' \/ Started(e)' =>
           Wanted \/ (On(e)' /\ \A o \in Engines : o # e => Woken(o)')
  PROVE  Gathering'
<1>1. /\ \A o \in Engines : o # e => eng'[o] = eng[o] /\ kout'[o] = kout[o]
      /\ eng'[e].wave = eng[e].wave /\ eng'[e].step = eng[e].step
      /\ first' = first /\ coord' = coord /\ client' = client
  BY DEF Local
<1>2. 0 \in Engines
  BY Ranks
<1>3. Wave' = Wave
  BY <1>1, <1>2 DEF Wave
<1>4. \A o \in Engines : o # e => (On(o)' <=> On(o)) /\ (Live(o)' <=> Live(o))
  BY <1>1, <1>3 DEF On, Live, Holds, HasAdd, HasWaveAdd
<1>5. \A o \in Engines : o # e => (Started(o)' <=> Started(o)) /\ (Reports(o)' <=> Reports(o))
  BY <1>1, <1>3 DEF Started, Reports
<1>6. (Runs(coord)' <=> Runs(coord)) /\ (Runs(client)' <=> Runs(client))
  BY <1>1, <1>3 DEF Runs
<1>7. \A o \in Engines : On(o) => On(o)'
  BY <1>4
<1>8. \A o \in Engines : Woken(o) => Woken(o)' \/ On(o)'
  BY <1>1, <1>3, <1>5, <1>6 DEF Woken
<1>9. Wanted' => Wanted \/ \A o \in Engines : On(o)' \/ Woken(o)'
  <2>1. CASE Live(e)' \/ Started(e)'
    BY <2>1
  <2>2. CASE ~(Live(e)' \/ Started(e)')
    BY <1>4, <1>5, <1>6, <2>2 DEF Wanted
  <2>. QED BY <2>1, <2>2
<1>10. FirstsOn'
  BY <1>1, <1>3, <1>7, FirstsStay DEF WInv, Gathering
<1>11. ASSUME NEW o \in Engines
       PROVE  /\ eng'[o].step = 0 /\ eng'[o].pc \in {"idle", "drain", "forward"}
              /\ eng'[o].active # {} => eng'[o].pc = "forward"
              /\ eng'[o].pc = "forward" => eng'[o].running \/ eng'[o].active # {}
  <2>1. CASE o = e
    BY <1>1, <2>1 DEF Gathering
  <2>2. CASE o # e
    BY <1>1, <2>2 DEF Gathering
  <2>. QED BY <2>1, <2>2

<1>. QED BY <1>7, <1>8, <1>9, <1>10, <1>11, GatherFrom

\* A running wave runs on.
LEMMA LocalRuns ==
  ASSUME WInv, Running, NEW e \in Engines, Local(e)
  PROVE  Running'
<1>1. ASSUME NEW o \in Engines PROVE eng'[o].running \/ eng'[o].pc = "sync"
  <2>1. CASE o = e
    BY <2>1 DEF Local, Running
  <2>2. CASE o # e
    BY <2>2 DEF Local, Running
  <2>. QED BY <2>1, <2>2
<1>. QED BY <1>1 DEF Running

\* Nor does a step of one rank change what is kept while the ranks stand still.
LEMMA LocalHalts ==
  ASSUME DPAssumption, WInv, HaltInv, NEW e \in Engines, Local(e),
         \A o \in Engines : o # e => cin'[o] = cin[o],
         eng[e].waiting # {} \/ HasAdd(e) => eng'[e].waiting # {} \/ HasAdd(e)'
  PROVE  HaltInv'
<1>1. /\ \A o \in Engines : o # e => eng'[o] = eng[o]
      /\ eng'[e].wave = eng[e].wave /\ coord' = coord /\ client' = client
  BY DEF Local
<1>2. Wave' = Wave
  BY <1>1, Ranks DEF Wave
<1>3. (Runs(coord)' <=> Runs(coord)) /\ (Runs(client)' <=> Runs(client))
  BY <1>1, <1>2 DEF Runs
<1>4. \A o \in Engines : o # e => (HasAdd(o)' <=> HasAdd(o))
  BY DEF HasAdd
<1>5. (\E o \in Engines : eng[o].waiting # {} \/ HasAdd(o)) =>
        \E o \in Engines : eng'[o].waiting # {} \/ HasAdd(o)'
  BY <1>1, <1>4
<1>. QED BY <1>3, <1>5 DEF HaltInv

\* The reports of a rank, and the views.
LEMMA LocalViews ==
  ASSUME DPAssumption, ViewInv, NEW e \in Engines, Local(e), Reports(e)' => eng'[e].running
  PROVE  ViewInv'
<1>1. /\ \A o \in Engines : o # e => eng'[o] = eng[o] /\ kout'[o] = kout[o]
      /\ eng'[e].wave = eng[e].wave /\ first' = first /\ coord' = coord /\ client' = client
  BY DEF Local
<1>2. Wave' = Wave
  BY <1>1, Ranks DEF Wave
<1>3. \A o \in Engines : o # e => (Reports(o)' <=> Reports(o))
  BY <1>1, <1>2 DEF Reports
<1>4. \A o \in Engines : Reports(o)' => eng'[o].running
  BY <1>1, <1>3 DEF ViewInv
<1>. QED BY <1>1, <1>4 DEF ViewInv
-----------------------------------------------------------------------------
(* A rank reads a message of the client.                                   *)

\* What is left on its queue.
LEMMA ReadLeaves ==
  ASSUME Typed, NEW e \in Engines, ReadsClient(e)
  PROVE  /\ HasAdd(e)' => HasAdd(e)
         /\ HasAdd(e) => HasAdd(e)' \/ Head(cin[e]).type = "ADD"
         /\ Wave' = Wave => (HasWaveAdd(e)' => HasWaveAdd(e))
         /\ AddsAhead(e) => AddsAhead(e)'
         /\ Head(cin[e]).type = "ADD" /\ Head(cin[e]).wave = Wave => HasWaveAdd(e)
         /\ Head(cin[e]).type # "UTILITY" => \A o \in Engines : Clean(cin'[o]) => Clean(cin[o])
<1>1. /\ cin[e] \in Seq(ClientMessage) /\ cin[e] # <<>> /\ cin'[e] = Tail(cin[e])
      /\ \A o \in Engines : o # e => cin'[o] = cin[o]
  BY DEF Typed, ReadsClient
<1>2. /\ Head(cin[e]) = cin[e][1] /\ 1 \in DOMAIN cin[e]
      /\ \A i \in DOMAIN Tail(cin[e]) : i + 1 \in DOMAIN cin[e] /\ Tail(cin[e])[i] = cin[e][i + 1]
      /\ \A i \in DOMAIN cin[e] : i # 1 => i - 1 \in DOMAIN Tail(cin[e]) /\ Tail(cin[e])[i - 1] = cin[e][i]
      /\ \A i \in DOMAIN cin[e] : i \in Int
      /\ \A i \in DOMAIN Tail(cin[e]) : i \in Int /\ i >= 1
  BY <1>1, TailFacts, LenProperties
<1>3. HasAdd(e)' => HasAdd(e)
  BY <1>1, <1>2 DEF HasAdd
<1>4. ASSUME HasAdd(e), Head(cin[e]).type # "ADD" PROVE HasAdd(e)'
  <2>1. PICK i \in DOMAIN cin[e] : cin[e][i].type = "ADD"
    BY <1>4 DEF HasAdd
  <2>2. i # 1
    BY <1>2, <1>4, <2>1
  <2>3. i - 1 \in DOMAIN Tail(cin[e]) /\ Tail(cin[e])[i - 1].type = "ADD"
    BY <1>2, <2>1, <2>2
  <2>. QED BY <1>1, <2>3 DEF HasAdd
<1>5. Wave' = Wave => (HasWaveAdd(e)' => HasWaveAdd(e))
  BY <1>1, <1>2 DEF HasWaveAdd
<1>6. ASSUME AddsAhead(e) PROVE AddsAhead(e)'
  <2>1. SUFFICES ASSUME NEW i \in DOMAIN Tail(cin[e]), Tail(cin[e])[i].type = "ADD"
                 PROVE  \E j \in DOMAIN Tail(cin[e]) : i < j /\ Tail(cin[e])[j].type = "UTILITY"
    BY <1>1 DEF AddsAhead
  <2>2. i + 1 \in DOMAIN cin[e] /\ cin[e][i + 1].type = "ADD" /\ i \in Int /\ i >= 1
    BY <1>2, <2>1
  <2>3. PICK j \in DOMAIN cin[e] : i + 1 < j /\ cin[e][j].type = "UTILITY"
    BY <1>6, <2>2 DEF AddsAhead
  <2>4. j \in Int /\ j # 1
    BY <1>2, <2>2, <2>3
  <2>5. j - 1 \in DOMAIN Tail(cin[e]) /\ Tail(cin[e])[j - 1].type = "UTILITY"
    BY <1>2, <2>3, <2>4
  <2>6. i < j - 1
    BY <2>2, <2>3, <2>4
  <2>. QED BY <2>5, <2>6
<1>7. Head(cin[e]).type = "ADD" /\ Head(cin[e]).wave = Wave => HasWaveAdd(e)
  BY <1>2 DEF HasWaveAdd
<1>8. ASSUME Head(cin[e]).type # "UTILITY", NEW o \in Engines, Clean(cin'[o]) PROVE Clean(cin[o])
  <2>1. CASE o = e
    <3>1. ASSUME NEW i \in DOMAIN cin[e] PROVE cin[e][i].type # "UTILITY"
      <4>1. CASE i = 1
        BY <1>2, <1>8, <4>1
      <4>2. CASE i # 1
        <5>1. i - 1 \in DOMAIN Tail(cin[e]) /\ Tail(cin[e])[i - 1] = cin[e][i]
          BY <1>2, <4>2
        <5>. QED BY <1>1, <1>8, <2>1, <5>1 DEF Clean
      <4>. QED BY <4>1, <4>2
    <3>. QED BY <2>1, <3>1 DEF Clean
  <2>2. CASE o # e
    BY <1>1, <1>8, <2>2
  <2>. QED BY <2>1, <2>2
<1>. QED BY <1>3, <1>4, <1>5, <1>6, <1>7, <1>8

\* The phase a message that is not a call leads to is the one it is read in.
LEMMA ReadBack ==
  ASSUME DPAssumption, WInv, NEW e \in Engines, Local(e), ReadsClient(e),
         Head(cin[e]).type # "UTILITY"
  PROVE  /\ PhaseFree' => PhaseFree
         /\ PhaseStopped' => PhaseStopped
         /\ PhaseResuming' => PhaseResuming
<1>1. \A o \in Engines : Clean(cin'[o]) => Clean(cin[o])
  BY ReadLeaves DEF WInv
<1>2. ASSUME NEW o \in Engines, eng[o].running PROVE eng'[o].running
  <2>1. CASE o = e
    BY <1>2, <2>1 DEF Local
  <2>2. CASE o # e
    BY <1>2, <2>2 DEF Local
  <2>. QED BY <2>1, <2>2
<1>3. call' = call /\ paused' = paused
  BY DEF Local
<1>. QED BY <1>1, <1>2, <1>3, PhaseBack

\* A request of an earlier wave starts the next one on its rank, which tells
\* the others; one of this wave was counted on before.
LEMMA AddGathers ==
  ASSUME DPAssumption, SInv, PhaseFree, Gathering, NEW e \in Engines, ReceiveClient(e),
         Head(cin[e]).type = "ADD"
  PROVE  Gathering'
<1>. DEFINE s == eng[e]  t == eng'[e]  m == Head(cin[e])
<1>1. WInv /\ Typed
  BY DEF SInv, WInv
<1>2. /\ Local(e) /\ ReadsClient(e)
      /\ m.wave \in Nat /\ m.wave <= s.wave
      /\ t.waiting = s.waiting \cup {m.req} /\ t.active = s.active
      /\ t.pc \in {"idle", "drain"}
      /\ t.running <=> (s.running \/ StartsWave(s, m))
      /\ kout'[e] = IF StartsWave(s, m) THEN Append(kout[e], StartWave(s.wave)) ELSE kout[e]
  BY <1>1, ReadsAdd
<1>3. /\ s.pc \in {"idle", "drain"} /\ s.active = {} /\ s.pause = "UNPAUSED" /\ s.wave = Wave
      /\ s.wave \in Nat /\ kout[e] \in Seq(Report)
  <2>1. s.pc \in {"idle", "drain"}
    BY <1>2 DEF Local
  <2>2. s.active = {}
    BY <2>1 DEF Gathering
  <2>3. s.pause = "UNPAUSED"
    BY DEF PhaseFree, Free
  <2>4. s.wave = Wave
    BY <1>1, Ranks DEF WInv, WaveInv, Wave
  <2>5. s.wave \in Nat /\ kout[e] \in Seq(Report)
    BY <1>1 DEF Typed, Engine
  <2>. QED BY <2>1, <2>2, <2>3, <2>4, <2>5
<1>4. Wave' = Wave
  BY <1>2, Ranks DEF Local, Wave
<1>5. On(e)'
  BY <1>2 DEF On, Holds
<1>6. Reports(e) => Reports(e)'
  <2>1. CASE StartsWave(s, m)
    <3>1. kout'[e] = Append(kout[e], StartWave(s.wave)) /\ StartWave(s.wave) \in Report
      BY <1>2, <1>3, <2>1 DEF StartWave, Report
    <3>2. \A i \in DOMAIN kout[e] : i \in DOMAIN kout'[e] /\ kout'[e][i] = kout[e][i]
      BY <1>3, <3>1, AppendFacts
    <3>. QED BY <1>4, <3>2 DEF Reports
  <2>2. CASE ~StartsWave(s, m)
    BY <1>2, <1>4, <2>2 DEF Reports
  <2>. QED BY <2>1, <2>2
<1>7. Started(e)' <=> Started(e)
  BY <1>2, <1>4 DEF ReadsClient, Started
<1>8. ASSUME ~Wanted PROVE \A o \in Engines : o # e => Woken(o)'
  <2>1. ~Live(e) /\ ~Runs(coord)
    BY <1>8 DEF Wanted
  <2>2. m.wave # Wave
    BY <1>1, <1>2, <2>1, ReadLeaves DEF Live
  <2>3. StartsWave(s, m)
    BY <1>2, <1>3, <2>1, <2>2 DEF StartsWave, Live
  <2>4. kout'[e] = Append(kout[e], StartWave(s.wave)) /\ StartWave(s.wave) \in Report
    BY <1>2, <1>3, <2>3 DEF StartWave, Report
  <2>5. Len(kout[e]) + 1 \in DOMAIN kout'[e] /\ kout'[e][Len(kout[e]) + 1] = StartWave(s.wave)
    BY <1>3, <2>4, AppendFacts
  <2>6. Reports(e)'
    BY <1>3, <1>4, <2>5 DEF Reports, StartWave
  <2>7. ~Runs(coord)'
    BY <1>2, <1>4, <2>1 DEF Local, Runs
  <2>. QED BY <2>6, <2>7 DEF Woken
<1>9. \A o \in Engines : o # e => cin'[o] = cin[o] /\ kin'[o] = kin[o]
  BY <1>2 DEF ReadsClient
<1>10. t.active # {} => t.pc = "forward"
  BY <1>2, <1>3
<1>. QED BY <1>1, <1>2, <1>5, <1>6, <1>7, <1>8, <1>9, <1>10, LocalGathers

\* add_request.
LEMMA AddNews ==
  ASSUME DPAssumption, SInv, NEW e \in Engines, ReceiveClient(e), Head(cin[e]).type = "ADD"
  PROVE  NInv'
<1>. DEFINE s == eng[e]  t == eng'[e]  m == Head(cin[e])
<1>1. WInv /\ Typed /\ ViewInv /\ GatherInv
  BY DEF SInv, NInv, WInv
<1>2. /\ Local(e) /\ ReadsClient(e)
      /\ t.waiting = s.waiting \cup {m.req}
      /\ t.running <=> (s.running \/ StartsWave(s, m))
      /\ kout'[e] = IF StartsWave(s, m) THEN Append(kout[e], StartWave(s.wave)) ELSE kout[e]
  BY <1>1, ReadsAdd
<1>3. Wave' = Wave
  BY <1>2, Ranks DEF Local, Wave
<1>4. /\ PhaseFree' => PhaseFree
      /\ PhaseStopped' => PhaseStopped
      /\ PhaseResuming' => PhaseResuming
  BY <1>1, <1>2, ReadBack
<1>5. ViewInv'
  <2>1. CASE StartsWave(s, m)
    BY <1>1, <1>2, <2>1, LocalViews
  <2>2. CASE ~StartsWave(s, m)
    <3>1. Reports(e)' => Reports(e)
      BY <1>2, <1>3, <2>2 DEF Reports
    <3>. QED BY <1>1, <1>2, <3>1, LocalViews DEF ViewInv
  <2>. QED BY <2>1, <2>2
<1>6. PhaseFree' => Gathering' \/ Running'
  BY <1>1, <1>2, <1>4, AddGathers, LocalRuns DEF GatherInv
<1>7. ASSUME HaltInv PROVE HaltInv'
  <2>1. t.waiting # {}
    BY <1>2
  <2>2. \A o \in Engines : o # e => cin'[o] = cin[o]
    BY <1>2 DEF ReadsClient
  <2>. QED BY <1>1, <1>2, <1>7, <2>1, <2>2, LocalHalts
<1>8. ASSUME PhaseResuming, SettledInv PROVE SettledInv'
  <2>1. s.pause # "UNPAUSED"
    <3>1. s.pc = "idle"
      BY <1>1, <1>2, <1>8, Halted DEF Local
    <3>. QED BY <1>1, <1>8, <3>1, Halted
  <2>2. kout'[e] = kout[e]
    BY <1>2, <2>1 DEF StartsWave
  <2>3. Settled'
    BY <1>2, <1>8, <2>2 DEF SettledInv, Settled, Local, ReadsClient
  <2>4. AddsAhead(e)'
    BY <1>1, <1>2, <1>8, ReadLeaves DEF SettledInv
  <2>5. \A o \in Engines : o # e => AddsAhead(o)'
    BY <1>2, <1>8 DEF SettledInv, AddsAhead, ReadsClient
  <2>. QED BY <2>3, <2>4, <2>5 DEF SettledInv
<1>9. GatherInv'
  BY <1>1, <1>4, <1>6, <1>7, <1>8 DEF GatherInv
<1>10. \A r \in Requests : PlaceInv(r)'
  BY PlaceReadsAdd
<1>. QED BY <1>5, <1>9, <1>10 DEF NInv

\* An abort comes after its request has begun: it leaves who waits alone.
LEMMA AbortNews ==
  ASSUME DPAssumption, SInv, NEW e \in Engines, ReceiveClient(e), Head(cin[e]).type = "ABORT"
  PROVE  NInv'
<1>. DEFINE s == eng[e]  t == eng'[e]  m == Head(cin[e])
<1>1. WInv /\ Typed /\ ViewInv /\ GatherInv
  BY DEF SInv, NInv, WInv
<1>2. /\ Local(e) /\ ReadsClient(e) /\ m.req \in Requests
      /\ t.active = s.active \ {m.req}
      /\ t.pc \in {"idle", "drain"} /\ t.running = s.running /\ kout'[e] = kout[e]
  BY <1>1, ReadsAbort
<1>3. t.waiting = s.waiting
  BY <1>2, PlaceReadsAbort
<1>4. Wave' = Wave
  BY <1>2, Ranks DEF Local, Wave
<1>5. /\ PhaseFree' => PhaseFree
      /\ PhaseStopped' => PhaseStopped
      /\ PhaseResuming' => PhaseResuming
  BY <1>1, <1>2, ReadBack
<1>6. Reports(e)' <=> Reports(e)
  BY <1>2, <1>4 DEF Reports
<1>7. ViewInv'
  BY <1>1, <1>2, <1>6, LocalViews DEF ViewInv
<1>8. HasAdd(e) => HasAdd(e)'
  BY <1>1, <1>2, ReadLeaves
<1>9. ASSUME PhaseFree, Gathering PROVE Gathering'
  <2>1. s.active = {} /\ t.active = {}
    BY <1>2, <1>9 DEF Gathering, Local
  <2>2. On(e) => On(e)'
    BY <1>2, <1>3, <1>8, <2>1 DEF On, Holds
  <2>3. HasWaveAdd(e)' => HasWaveAdd(e)
    BY <1>1, <1>2, <1>4, ReadLeaves
  <2>4. Live(e)' => Live(e)
    BY <1>2, <1>3, <2>1, <2>3 DEF Live, Holds
  <2>5. Started(e)' <=> Started(e)
    BY <1>2, <1>4 DEF ReadsClient, Started
  <2>6. Live(e)' \/ Started(e)' => Wanted
    BY <2>4, <2>5 DEF Wanted
  <2>7. \A o \in Engines : o # e => cin'[o] = cin[o] /\ kin'[o] = kin[o]
    BY <1>2 DEF ReadsClient
  <2>8. t.pc # "forward" /\ t.pc \in {"idle", "drain", "forward"}
    BY <1>2
  <2>. QED BY <1>1, <1>2, <1>6, <1>9, <2>1, <2>2, <2>5, <2>6, <2>7, <2>8, LocalGathers
<1>10. PhaseFree' => Gathering' \/ Running'
  BY <1>1, <1>2, <1>5, <1>9, LocalRuns DEF GatherInv
<1>11. ASSUME HaltInv PROVE HaltInv'
  <2>1. \A o \in Engines : o # e => cin'[o] = cin[o]
    BY <1>2 DEF ReadsClient
  <2>. QED BY <1>1, <1>2, <1>3, <1>8, <1>11, <2>1, LocalHalts
<1>12. ASSUME SettledInv PROVE SettledInv'
  <2>1. Settled'
    BY <1>2, <1>12 DEF SettledInv, Settled, Local, ReadsClient
  <2>2. AddsAhead(e)'
    BY <1>1, <1>2, <1>12, ReadLeaves DEF SettledInv
  <2>3. \A o \in Engines : o # e => AddsAhead(o)'
    BY <1>2, <1>12 DEF SettledInv, AddsAhead, ReadsClient
  <2>. QED BY <2>1, <2>2, <2>3 DEF SettledInv
<1>13. GatherInv'
  BY <1>1, <1>5, <1>10, <1>11, <1>12 DEF GatherInv
<1>14. \A r \in Requests : PlaceInv(r)'
  BY PlaceReadsAbort
<1>. QED BY <1>7, <1>13, <1>14 DEF NInv

\* A pause drops requests at most; a resume keeps them.
LEMMA PauseDrops ==
  ASSUME NEW s \in Engine, s.pc \in {"idle", "drain"}, NEW c
  PROVE  LET t == PauseScheduler(Polled(s), c).eng
         IN  t.active \subseteq s.active /\ t.waiting \subseteq s.waiting
<1>. DEFINE p == Polled(s)
            gone == IF c.mode = "abort" THEN p.waiting \cup p.active ELSE {}
            d == Drop(p, gone)
            t == [d EXCEPT !.pause = IF c.mode = "keep" THEN "PAUSED_ALL" ELSE "PAUSED_NEW",
                           !.pending = TRUE, !.running = TRUE, !.idleCall = c]
<1>1. p \in Engine /\ p.waiting = s.waiting /\ p.active = s.active
  BY PolledFacts
<1>2. PauseScheduler(p, c).eng = t
  BY DEF PauseScheduler, Result
<1>. HIDE DEF p
<1>3. d \in Engine /\ d.waiting = p.waiting \ gone /\ d.active = p.active \ gone
  BY <1>1, DropFacts
<1>. HIDE DEF d, gone
<1>4. t.waiting = d.waiting /\ t.active = d.active
  BY <1>3 DEF Engine
<1>. HIDE DEF t
<1>. QED BY <1>1, <1>2, <1>3, <1>4 DEF p

\* A resume or a wake-up keeps the requests that wait.
LEMMA ResumeHolds ==
  ASSUME NEW s \in Engine, s.pc \in {"idle", "drain"}, NEW c, c.op \in {"resume", "wake"}
  PROVE  LET t == Utility(Polled(s), c).eng
         IN  t.active = s.active /\ t.waiting = s.waiting
<1>1. /\ Polled(s) \in Engine /\ Polled(s).waiting = s.waiting /\ Polled(s).active = s.active
  BY PolledFacts
<1>2. ASSUME NEW p \in Engine
      PROVE  ResumeScheduler(p).eng.active = p.active /\ ResumeScheduler(p).eng.waiting = p.waiting
  BY DEF ResumeScheduler, Result, Quietly, Engine
<1>3. CASE c.op = "resume"
  <2>1. Utility(Polled(s), c) = ResumeScheduler(Polled(s))
    BY <1>3 DEF Utility
  <2>. QED BY <1>1, <1>2, <2>1
<1>4. CASE c.op = "wake"
  <2>. DEFINE w == [Polled(s) EXCEPT !.asleep = FALSE]
  <2>1. Utility(Polled(s), c) = ResumeScheduler(w)
    BY <1>4 DEF Utility, WakeUp
  <2>2. w \in Engine /\ w.active = s.active /\ w.waiting = s.waiting
    BY <1>1 DEF Engine
  <2>. HIDE DEF w
  <2>. QED BY <1>2, <2>1, <2>2
<1>. QED BY <1>3, <1>4

\* A call wakes its rank, or sends it to the barrier with the requests it has.
LEMMA ReadsCall ==
  ASSUME DPAssumption, WInv, NEW e \in Engines, ReceiveClient(e), Head(cin[e]).type = "UTILITY"
  PROVE  /\ ReadsClient(e) /\ SameRequests /\ UNCHANGED <<first, coord, client, paused, call, kout>>
         /\ \A o \in Engines : o # e => eng'[o] = eng[o]
         /\ eng'[e].wave = eng[e].wave /\ eng'[e].active \subseteq eng[e].active
         /\ eng'[e].waiting \subseteq eng[e].waiting
         /\ call.left = Engines
         /\ \/ paused # "no" /\ eng'[e].running
            \/ PhaseResuming /\ eng'[e].waiting = eng[e].waiting /\ ~eng[e].running
<1>. DEFINE s == eng[e]  m == Head(cin[e])  c == m.call  x == Utility(Polled(s), c)
<1>1. /\ s \in Engine /\ cin[e] \in Seq(ClientMessage) /\ cin[e] # <<>> /\ s.pc \in {"idle", "drain"}
      /\ kout \in [Engines -> Seq(Report)]
  BY DEF WInv, Typed, ReceiveClient, ReceiveFrom
<1>2. m \in ClientMessage /\ m.type = "UTILITY"
  BY <1>1, TailFacts
<1>3. c \in Calls
  BY <1>2 DEF ClientMessage
<1>4. ~Clean(cin[e])
  BY <1>1, Reading
<1>5. ~PhaseFree /\ ~PhaseAgreed /\ ~PhaseStopped
  BY <1>4 DEF PhaseFree, PhaseAgreed, PhaseStopped
<1>6. /\ Effect(e, x) /\ UNCHANGED <<first, coord, client, paused, nInputs, kin>>
      /\ cin' = [cin EXCEPT ![e] = Tail(cin[e])]
  <2>1. Handle(e, Polled(s), m) = x
    BY <1>2 DEF Handle
  <2>. QED BY <2>1 DEF ReceiveClient, ReceiveFrom
<1>7. ReadsClient(e)
  BY <1>1, <1>6 DEF ReadsClient, WInv, Typed
<1>8. SameRequests
  BY <1>6 DEF SameRequests, Effect, End
<1>9. /\ \A o \in Engines : o # e => eng'[o] = eng[o]
      /\ eng'[e] = x.eng
      /\ kout' = [kout EXCEPT ![e] = kout[e] \o x.toCoord]
      /\ call' = IF x.answers THEN [call EXCEPT !.left = call.left \ {e}] ELSE call
  BY <1>6 DEF Effect, Answer, WInv, Typed
<1>10. x.toCoord = <<>> /\ ~x.answers => kout' = kout /\ call' = call
  <2>1. kout[e] \o <<>> = kout[e]
    BY <1>1, ConcatEmptySeq
  <2>. QED BY <1>1, <1>9, <2>1
<1>11. CASE PhaseAwake \/ PhaseRoused
  <2>1. Unaware(e) /\ Pausing
    BY <1>4, <1>11 DEF PhaseAwake, PhaseRoused, Aware
  <2>2. c.op = call.op /\ c.op \in {"pause", "sleep"} /\ call.left = Engines /\ paused # "no"
    BY <1>1, <1>11, <2>1, Reading DEF Unaware, Pausing, PhaseAwake, PhaseRoused
  <2>3. x = PauseScheduler(Polled(s), c)
    BY <2>2 DEF Utility
  <2>4. /\ x.eng.running /\ x.eng.wave = s.wave /\ x.toCoord = <<>> /\ ~x.answers
    BY <1>1, <1>3, <2>2, <2>3, PauseFacts
  <2>5. x.eng.active \subseteq s.active /\ x.eng.waiting \subseteq s.waiting
    BY <1>1, <2>3, PauseDrops
  <2>. HIDE DEF x
  <2>. QED BY <1>6, <1>7, <1>8, <1>9, <1>10, <2>2, <2>4, <2>5
<1>12. CASE PhaseResuming
  <2>1. Once(cin[e], call.op) /\ Stopped(s) /\ s.idleCall = NoCall /\ (s.asleep => call.op = "wake")
    BY <1>4, <1>12 DEF PhaseResuming
  <2>2. c.op = call.op /\ c.op \in {"resume", "wake"} /\ call.left = Engines
    BY <1>1, <1>12, <2>1, Reading DEF PhaseResuming
  <2>3. /\ x.eng.wave = s.wave /\ x.toCoord = <<>> /\ ~x.answers
    BY <1>1, <1>3, <2>1, <2>2, ResumeFacts
  <2>4. x.eng.active = s.active /\ x.eng.waiting = s.waiting
    BY <1>1, <2>1, <2>2, ResumeHolds DEF Stopped
  <2>5. ~s.running
    BY <2>1 DEF Stopped
  <2>. HIDE DEF x
  <2>. QED BY <1>6, <1>7, <1>8, <1>9, <1>10, <1>12, <2>2, <2>3, <2>4, <2>5
<1>. QED BY <1>5, <1>11, <1>12 DEF WInv, Phased

\* pause_scheduler, sleep, resume_scheduler and wake_up.
LEMMA CallNews ==
  ASSUME DPAssumption, SInv, NEW e \in Engines, ReceiveClient(e), Head(cin[e]).type = "UTILITY"
  PROVE  NInv'
<1>1. WInv /\ Typed /\ ViewInv /\ GatherInv
  BY DEF SInv, NInv, WInv
<1>2. /\ ReadsClient(e) /\ SameRequests /\ UNCHANGED <<first, coord, client, paused, call, kout>>
      /\ \A o \in Engines : o # e => eng'[o] = eng[o]
      /\ eng'[e].wave = eng[e].wave /\ eng'[e].active \subseteq eng[e].active
      /\ eng'[e].waiting \subseteq eng[e].waiting
      /\ call.left = Engines
      /\ \/ paused # "no" /\ eng'[e].running
         \/ PhaseResuming /\ eng'[e].waiting = eng[e].waiting /\ ~eng[e].running
  BY <1>1, ReadsCall
<1>3. Wave' = Wave
  BY <1>2, Ranks DEF Wave
<1>4. \A o \in Engines : Reports(o)' <=> Reports(o)
  BY <1>2, <1>3 DEF Reports
<1>5. ASSUME NEW o \in Engines, Reports(o)' PROVE eng'[o].running
  <2>1. eng[o].running
    BY <1>1, <1>4, <1>5 DEF ViewInv
  <2>2. CASE o # e
    BY <1>2, <2>1, <2>2
  <2>3. CASE o = e
    BY <1>2, <2>1, <2>3
  <2>. QED BY <2>2, <2>3
<1>6. ViewInv'
  BY <1>1, <1>2, <1>5 DEF ViewInv
<1>7. ~PhaseFree'
  BY <1>2, Ranks DEF PhaseFree
<1>8. ~PhaseStopped'
  BY <1>2 DEF PhaseStopped, Stopped, PhaseResuming
<1>9. ASSUME PhaseResuming' PROVE HaltInv' /\ SettledInv'
  <2>1. PhaseResuming /\ eng'[e].waiting = eng[e].waiting
    BY <1>2, <1>9 DEF PhaseResuming
  <2>2. HaltInv /\ SettledInv
    BY <1>1, <2>1 DEF GatherInv
  <2>3. Settled'
    BY <1>2, <2>2 DEF SettledInv, Settled, ReadsClient
  <2>4. AddsAhead(e)'
    BY <1>1, <1>2, <2>2, ReadLeaves DEF SettledInv
  <2>5. \A o \in Engines : o # e => AddsAhead(o)'
    BY <1>2, <2>2 DEF SettledInv, AddsAhead, ReadsClient
  <2>6. HasAdd(e) => HasAdd(e)'
    BY <1>1, <1>2, ReadLeaves
  <2>7. \A o \in Engines : o # e => (HasAdd(o)' <=> HasAdd(o))
    BY <1>2 DEF HasAdd, ReadsClient
  <2>8. (Runs(coord)' <=> Runs(coord)) /\ (Runs(client)' <=> Runs(client))
    BY <1>2, <1>3 DEF Runs
  <2>9. (\E o \in Engines : eng[o].waiting # {} \/ HasAdd(o)) =>
          \E o \in Engines : eng'[o].waiting # {} \/ HasAdd(o)'
    BY <1>2, <2>1, <2>6, <2>7
  <2>10. HaltInv'
    BY <2>2, <2>8, <2>9 DEF HaltInv
  <2>. QED BY <2>3, <2>4, <2>5, <2>10 DEF SettledInv
<1>10. GatherInv'
  BY <1>7, <1>8, <1>9 DEF GatherInv
<1>11. Shrinks
  BY <1>2 DEF Shrinks
<1>12. ASSUME NEW r \in Requests PROVE PlaceInv(r)'
  <2>1. PlaceInv(r)
    BY DEF SInv, NInv
  <2>2. (Sent(r)' => Sent(r)) /\ (Aborts(r)' => Aborts(r)) /\ (SentOnce(r) => SentOnce(r)')
    BY <1>1, <1>2, ReadPlaces
  <2>. QED BY <1>2, <1>11, <2>1, <2>2, PlaceShrinks
<1>. QED BY <1>6, <1>10, <1>12 DEF NInv

\* _process_input_queue, a message of the client.
LEMMA ReceiveClientNews ==
  ASSUME DPAssumption, SInv, NEW e \in Engines, ReceiveClient(e)
  PROVE  NInv'
<1>1. cin[e] \in Seq(ClientMessage) /\ cin[e] # <<>>
  BY DEF SInv, WInv, Typed, ReceiveClient, ReceiveFrom
<1>2. Head(cin[e]) \in ClientMessage
  BY <1>1, TailFacts
<1>3. Head(cin[e]).type \in {"ADD", "ABORT", "UTILITY"}
  BY <1>2 DEF ClientMessage
<1>. QED BY <1>3, AddNews, AbortNews, CallNews

\* _process_input_queue, a START_DP_WAVE of the coordinator.
LEMMA ReceiveCoordinatorNews ==
  ASSUME DPAssumption, SInv, NEW e \in Engines, ReceiveCoordinator(e)
  PROVE  NInv'
<1>. DEFINE s == eng[e]  t == eng'[e]  m == Head(kin[e])
<1>1. WInv /\ Typed /\ ViewInv /\ GatherInv
  BY DEF SInv, NInv, WInv
<1>2. /\ Local(e) /\ SameRequests /\ cin' = cin
      /\ kin[e] # <<>> /\ kin'[e] = Tail(kin[e]) /\ \A o \in Engines : o # e => kin'[o] = kin[o]
      /\ t.waiting = s.waiting /\ t.active = s.active /\ t.pc \in {"idle", "drain"}
      /\ t.running <=> (s.running \/ (~s.ignore /\ m.exclude # e /\ m.wave = s.wave))
      /\ kout'[e] = kout[e]
  BY <1>1, ReadsStart
<1>3. Wave' = Wave /\ s.wave = Wave
  BY <1>1, <1>2, Ranks DEF Local, Wave, WInv, WaveInv
<1>4. \A o \in Engines : eng[o].running => eng'[o].running
  BY <1>2 DEF Local
<1>5. /\ PhaseFree' => PhaseFree
      /\ PhaseStopped' => PhaseStopped
      /\ PhaseResuming' => PhaseResuming
  <2>1. call' = call /\ paused' = paused
    BY <1>2 DEF Local
  <2>2. \A o \in Engines : Clean(cin'[o]) => Clean(cin[o])
    BY <1>2
  <2>. QED BY <1>1, <1>4, <2>1, <2>2, PhaseBack
<1>6. Reports(e)' <=> Reports(e)
  BY <1>2, <1>3 DEF Reports
<1>7. ViewInv'
  BY <1>1, <1>2, <1>4, <1>6, LocalViews DEF ViewInv
<1>8. HasAdd(e)' <=> HasAdd(e)
  BY <1>2 DEF HasAdd
<1>9. ASSUME PhaseFree, Gathering PROVE Gathering'
  <2>1. /\ kin[e] \in Seq(StartMessage) /\ m = kin[e][1] /\ 1 \in DOMAIN kin[e]
        /\ \A i \in DOMAIN Tail(kin[e]) : i + 1 \in DOMAIN kin[e] /\ Tail(kin[e])[i] = kin[e][i + 1]
        /\ \A i \in DOMAIN kin[e] : i # 1 => i - 1 \in DOMAIN Tail(kin[e]) /\ Tail(kin[e])[i - 1] = kin[e][i]
    <3>1. kin[e] \in Seq(StartMessage)
      BY <1>1 DEF Typed
    <3>. QED BY <1>2, <3>1, TailFacts
  <2>2. s.active = {} /\ t.active = {} /\ ~s.ignore
    BY <1>2, <1>9 DEF Gathering, Local, PhaseFree, Free
  <2>3. On(e) => On(e)'
    BY <1>2, <1>4, <1>8 DEF On, Holds
  <2>4. m.exclude # e /\ m.wave = Wave => Started(e) /\ On(e)'
    BY <1>2, <1>3, <2>1, <2>2 DEF Started, On
  <2>5. ASSUME Started(e), ~(m.exclude # e /\ m.wave = Wave) PROVE Started(e)'
    <3>1. PICK i \in DOMAIN kin[e] : kin[e][i].wave = Wave /\ kin[e][i].exclude # e
      BY <2>5 DEF Started
    <3>2. i # 1
      BY <2>1, <2>5, <3>1
    <3>3. i - 1 \in DOMAIN kin'[e] /\ kin'[e][i - 1] = kin[e][i]
      BY <1>2, <2>1, <3>2
    <3>. QED BY <1>3, <3>1, <3>3 DEF Started
  <2>6. Started(e)' => Started(e)
    BY <1>2, <1>3, <2>1 DEF Started
  <2>7. HasWaveAdd(e)' <=> HasWaveAdd(e)
    BY <1>2, <1>3 DEF HasWaveAdd
  <2>8. Live(e)' => Live(e) \/ Started(e)
    BY <1>2, <1>3, <2>4, <2>7 DEF Live, Holds
  <2>9. Live(e)' \/ Started(e)' => Wanted
    BY <2>6, <2>8 DEF Wanted
  <2>10. \A o \in Engines : o # e => cin'[o] = cin[o] /\ kin'[o] = kin[o]
    BY <1>2
  <2>11. t.pc # "forward" /\ t.pc \in {"idle", "drain", "forward"}
    BY <1>2
  <2>. QED BY <1>1, <1>2, <1>6, <1>9, <2>2, <2>3, <2>4, <2>5, <2>9, <2>10, <2>11, LocalGathers
<1>10. PhaseFree' => Gathering' \/ Running'
  BY <1>1, <1>2, <1>5, <1>9, LocalRuns DEF GatherInv
<1>11. ASSUME HaltInv PROVE HaltInv'
  <2>1. \A o \in Engines : o # e => cin'[o] = cin[o]
    BY <1>2
  <2>. QED BY <1>1, <1>2, <1>8, <1>11, <2>1, LocalHalts
<1>12. PhaseResuming => ~SettledInv
  BY <1>2 DEF SettledInv, Settled
<1>13. GatherInv'
  BY <1>1, <1>5, <1>10, <1>11, <1>12 DEF GatherInv
<1>14. Shrinks
  BY <1>2 DEF Local, Shrinks
<1>15. \A r \in Requests : PlaceInv(r)'
  BY <1>2, <1>14, PlaceStays DEF SInv, NInv
<1>. QED BY <1>7, <1>13, <1>15 DEF NInv
-----------------------------------------------------------------------------
(* A rank answers, and begins a step.                                      *)

\* _notify_idle_state_callbacks: the ranks have stopped, and none is woken.
LEMMA IdleCallbackNews ==
  ASSUME DPAssumption, SInv, NEW e \in Engines, IdleCallback(e)
  PROVE  NInv'
<1>1. WInv /\ Typed /\ ViewInv /\ GatherInv
  BY DEF SInv, NInv, WInv
<1>2. eng[e].pc = "idle" /\ ~HasWork(eng[e]) /\ eng[e].idleCall # NoCall
  BY DEF IdleCallback
<1>3. PhaseStopped
  <2>1. ~PhaseFree /\ ~PhaseResuming
    BY <1>2 DEF PhaseFree, Free, PhaseResuming, Resuming
  <2>2. ~PhaseAwake /\ ~PhaseRoused /\ ~PhaseAgreed
    BY <1>2 DEF PhaseAwake, PhaseRoused, PhaseAgreed, Unaware, Aware, HasWork
  <2>. QED BY <1>1, <2>1, <2>2 DEF WInv, Phased
<1>4. /\ UNCHANGED <<cin, kin, kout, first, coord, client, req, paused>>
      /\ eng' = [eng EXCEPT ![e].idleCall = NoCall,
                            ![e].asleep = @ \/ eng[e].idleCall.op = "sleep"]
  BY DEF IdleCallback, net
<1>5. ASSUME NEW o \in Engines
      PROVE  /\ eng'[o].wave = eng[o].wave /\ eng'[o].running = eng[o].running
             /\ eng'[o].waiting = eng[o].waiting /\ eng'[o].active = eng[o].active
  <2>1. eng[o] \in Engine /\ eng[e] \in Engine
    BY <1>1 DEF Typed
  <2>2. CASE o = e
    <3>1. eng'[e] = [eng[e] EXCEPT !.idleCall = NoCall,
                                   !.asleep = @ \/ eng[e].idleCall.op = "sleep"]
      BY <1>1, <1>4 DEF Typed
    <3>. QED BY <2>1, <2>2, <3>1 DEF Engine
  <2>3. CASE o # e
    BY <1>1, <1>4, <2>3 DEF Typed
  <2>. QED BY <2>2, <2>3
<1>6. Wave' = Wave
  BY <1>5, Ranks DEF Wave
<1>7. ViewInv'
  BY <1>1, <1>4, <1>5, <1>6 DEF ViewInv, Reports
<1>8. ~PhaseFree' /\ ~PhaseResuming'
  BY <1>3, <1>4 DEF PhaseFree, PhaseResuming, PhaseStopped
<1>9. HaltInv'
  <2>1. HaltInv
    BY <1>1, <1>3 DEF GatherInv
  <2>2. (Runs(coord)' <=> Runs(coord)) /\ (Runs(client)' <=> Runs(client))
    BY <1>4, <1>6 DEF Runs
  <2>3. \A o \in Engines : HasAdd(o)' <=> HasAdd(o)
    BY <1>4 DEF HasAdd
  <2>. QED BY <1>5, <2>1, <2>2, <2>3 DEF HaltInv
<1>10. GatherInv'
  BY <1>8, <1>9 DEF GatherInv
<1>11. Shrinks /\ SameRequests
  BY <1>4, <1>5 DEF Shrinks, SameRequests
<1>12. \A r \in Requests : PlaceInv(r)'
  BY <1>4, <1>11, PlaceStays DEF SInv, NInv
<1>. QED BY <1>7, <1>10, <1>12 DEF NInv

\* Some of the waiting requests begin.
Admits(s, t) ==
  \E R \in SUBSET s.waiting : t.waiting = s.waiting \ R /\ t.active = s.active \cup R

\* The step of a rank that is awake admits waiting requests; before the first
\* step of a wave it admits all, and goes to the forward pass only for them or
\* because the wave runs.
LEMMA StepPlaces ==
  ASSUME DPAssumption, NEW e, NEW s \in Engine, ~s.asleep, s.pc = "drain" \/ (s.pc = "idle" /\ HasWork(s))
  PROVE  LET t == Step(e, s).eng
         IN  /\ t.running = s.running
             /\ Admits(s, t)
             /\ s.pause = "UNPAUSED" /\ s.step = 0 =>
                  /\ t.active # {} => t.pc = "forward"
                  /\ t.pc = "forward" => t.running \/ t.active # {}
<1>. DEFINE R == Scheduled(s)
            t == [s EXCEPT !.pc = "forward", !.active = @ \cup R, !.waiting = @ \ R]
            u == LoopTop(s)
            v == [s EXCEPT !.pc = "forward"]
            y == Step(e, s).eng
<1>1. R \subseteq s.active \cup s.waiting
  BY DEF Scheduled, Admitted
<1>2. s.pause = "UNPAUSED" /\ s.step = 0 => R = s.active \cup s.waiting
  <2>1. 0 % PrefillInterval = 0
    BY DEF DPAssumption
  <2>. QED BY <2>1 DEF Scheduled, Admitted, ThrottlePrefills
<1>3. y = IF R # {} THEN t ELSE IF ~Unfinished(s) /\ ~s.running THEN u ELSE v
  BY DEF Step, Quietly, Result
<1>. HIDE DEF R, y
<1>4. t.pc = "forward" /\ t.running = s.running /\ t.active = s.active \cup R /\ t.waiting = s.waiting \ R
  BY DEF Engine
<1>5. u.pc = "idle" /\ u.running = s.running /\ u.active = s.active /\ u.waiting = s.waiting
  BY DEF Engine, LoopTop
<1>6. v.pc = "forward" /\ v.running = s.running /\ v.active = s.active /\ v.waiting = s.waiting
  BY DEF Engine
<1>. HIDE DEF t, u, v
<1>7. CASE R # {}
  <2>. DEFINE Q == R \cap s.waiting
  <2>1. s.waiting \ Q = s.waiting \ R
    OBVIOUS
  <2>2. s.active \cup Q = s.active \cup R /\ Q \in SUBSET s.waiting
    BY <1>1
  <2>3. Admits(s, y)
    BY <1>3, <1>4, <1>7, <2>1, <2>2 DEF Admits
  <2>4. y.pc = "forward" /\ y.running = s.running /\ y.active # {}
    BY <1>3, <1>4, <1>7
  <2>. QED BY <2>3, <2>4 DEF y
<1>8. CASE R = {}
  <2>1. y.waiting = s.waiting \ {} /\ y.active = s.active \cup {} /\ y.running = s.running
    BY <1>3, <1>5, <1>6, <1>8
  <2>2. Admits(s, y)
    BY <2>1 DEF Admits
  <2>3. ASSUME s.pause = "UNPAUSED", s.step = 0
        PROVE  y.active = {} /\ (y.pc = "forward" => y.running)
    <3>1. s.active = {} /\ s.waiting = {}
      BY <1>2, <1>8, <2>3
    <3>2. ~Unfinished(s)
      BY <3>1 DEF Unfinished
    <3>. QED BY <1>3, <1>5, <1>6, <1>8, <2>1, <3>1, <3>2
  <2>. QED BY <2>1, <2>2, <2>3 DEF y
<1>. QED BY <1>7, <1>8

\* What a rank that begins a step keeps.
LEMMA BeginsStep ==
  ASSUME DPAssumption, WInv, NEW e \in Engines, BeginStep(e)
  PROVE  LET s == eng[e]  t == eng'[e]
         IN  /\ SameRequests /\ UNCHANGED <<cin, kin, first, coord, client, paused, call>>
             /\ \A o \in Engines : o # e => eng'[o] = eng[o] /\ kout'[o] = kout[o]
             /\ t.wave = s.wave /\ (s.running => t.running)
             /\ Admits(s, t)
             /\ kout'[e] = kout[e] \/ t.running
             /\ PhaseFree /\ eng[e].step = 0 =>
                  /\ t.pc \in {"idle", "drain", "forward"}
                  /\ t.active # {} => t.pc = "forward"
                  /\ t.pc = "forward" => t.running \/ t.active # {}
             /\ PhaseFree => Local(e) /\ t.running = s.running /\ kout'[e] = kout[e]
<1>. DEFINE s == eng[e]  x == Step(e, s)
<1>1. /\ s \in Engine /\ (s.pc = "drain" \/ (s.pc = "idle" /\ HasWork(s)))
      /\ kout \in [Engines -> Seq(Report)]
  BY DEF WInv, Typed, BeginStep
<1>2. Effect(e, x) /\ UNCHANGED <<cin, kin, first, coord, client, paused, nInputs>>
  BY DEF BeginStep
<1>3. SameRequests
  BY <1>2 DEF Effect, End, SameRequests
<1>4. /\ \A o \in Engines : o # e => eng'[o] = eng[o] /\ kout'[o] = kout[o]
      /\ eng'[e] = x.eng /\ kout'[e] = kout[e] \o x.toCoord
      /\ ~x.answers => call' = call
  BY <1>1, <1>2 DEF Effect, Answer, WInv, Typed
<1>5. CASE ~s.asleep
  <2>1. x.eng \in Engine /\ Soft(s, x.eng)
    BY <1>1, <1>5, StepAwake
  <2>2. ~x.answers /\ x.toCoord = <<>>
    BY <1>1, <1>5, StepAwake
  <2>3. x.eng.running = s.running
    BY <1>1, <1>5, StepPlaces
  <2>4. Admits(s, x.eng)
    BY <1>1, <1>5, StepPlaces
  <2>5. s.pause = "UNPAUSED" /\ s.step = 0 =>
                  /\ x.eng.active # {} => x.eng.pc = "forward"
                  /\ x.eng.pc = "forward" => x.eng.running \/ x.eng.active # {}
    BY <1>1, <1>5, StepPlaces
  <2>. HIDE DEF x
  <2>6. kout'[e] = kout[e] /\ call' = call
    <3>1. kout[e] \o <<>> = kout[e]
      BY <1>1, ConcatEmptySeq
    <3>. QED BY <1>4, <2>2, <3>1
  <2>7. x.eng.wave = s.wave /\ x.eng.step = s.step /\ x.eng.pc \in {"idle", "drain", "forward"}
    BY <2>1 DEF Soft
  <2>8. PhaseFree => s.pause = "UNPAUSED"
    BY DEF PhaseFree, Free
  <2>9. Local(e)
    BY <1>1, <1>2, <1>4, <2>1, <2>3, <2>6, <2>7 DEF Local
  <2>. QED BY <1>2, <1>3, <1>4, <2>3, <2>4, <2>5, <2>6, <2>7, <2>8, <2>9
<1>6. CASE s.asleep
  <2>1. PhaseRoused /\ ~PhaseFree
    <3>1. ~PhaseFree /\ ~PhaseAwake /\ ~PhaseAgreed
      BY <1>6 DEF PhaseFree, Free, PhaseAwake, PhaseAgreed
    <3>2. ~Stopped(s) /\ ~Resuming(s)
      BY <1>1 DEF Stopped, Resuming, HasWork
    <3>3. ~PhaseStopped /\ ~PhaseResuming
      BY <3>2 DEF PhaseStopped, PhaseResuming
    <3>. QED BY <3>1, <3>3 DEF WInv, Phased
  <2>2. Aware(e) /\ Roused(s)
    BY <1>1, <2>1 DEF PhaseRoused, Stopped, HasWork
  <2>3. s.running /\ s.pause # "UNPAUSED" /\ s.step = 0
    BY <1>1, <2>2 DEF Aware, Registered, Roused
  <2>4. x.eng.running /\ x.eng.wave = s.wave
    BY <1>1, <2>2, <2>3, StepAsleep
  <2>5. x.eng.waiting = s.waiting /\ x.eng.active = s.active
    BY <1>1, <2>2, <2>3, StepAsleep
  <2>6. ~x.answers
    BY <1>1, <2>2, <2>3, StepAsleep
  <2>. HIDE DEF x
  <2>7. Admits(s, x.eng)
    <3>1. x.eng.waiting = s.waiting \ {} /\ x.eng.active = s.active \cup {}
      BY <2>5
    <3>. QED BY <3>1 DEF Admits
  <2>. QED BY <1>2, <1>3, <1>4, <2>1, <2>4, <2>6, <2>7
<1>. QED BY <1>5, <1>6

\* run_busy_loop: what waited is admitted.
LEMMA BeginStepNews ==
  ASSUME DPAssumption, SInv, NEW e \in Engines, BeginStep(e)
  PROVE  NInv'
<1>. DEFINE s == eng[e]  t == eng'[e]
<1>1. WInv /\ Typed /\ ViewInv /\ GatherInv
  BY DEF SInv, NInv, WInv
<1>2. /\ SameRequests /\ UNCHANGED <<cin, kin, first, coord, client, paused, call>>
      /\ \A o \in Engines : o # e => eng'[o] = eng[o] /\ kout'[o] = kout[o]
      /\ t.wave = s.wave /\ (s.running => t.running)
      /\ kout'[e] = kout[e] \/ t.running
      /\ PhaseFree /\ eng[e].step = 0 =>
           /\ t.pc \in {"idle", "drain", "forward"}
           /\ t.active # {} => t.pc = "forward"
           /\ t.pc = "forward" => t.running \/ t.active # {}
      /\ PhaseFree => Local(e) /\ t.running = s.running /\ kout'[e] = kout[e]
  BY <1>1, BeginsStep
<1>3. PICK R \in SUBSET s.waiting : t.waiting = s.waiting \ R /\ t.active = s.active \cup R
  BY <1>1, BeginsStep DEF Admits
<1>4. Wave' = Wave
  BY <1>2, Ranks DEF Wave
<1>5. ASSUME NEW o \in Engines, Reports(o)' PROVE eng'[o].running
  <2>1. CASE o # e
    BY <1>1, <1>2, <1>4, <1>5, <2>1 DEF ViewInv, Reports
  <2>2. CASE o = e
    <3>1. kout'[e] = kout[e] => Reports(e)
      BY <1>4, <1>5, <2>2 DEF Reports
    <3>. QED BY <1>1, <1>2, <2>2, <3>1 DEF ViewInv
  <2>. QED BY <2>1, <2>2
<1>6. ViewInv'
  BY <1>1, <1>2, <1>5 DEF ViewInv
<1>7. ~PhaseStopped /\ ~PhaseResuming
  BY <1>1, Halted DEF BeginStep, HasWork
<1>8. /\ PhaseFree' => PhaseFree
      /\ PhaseStopped' => PhaseStopped
      /\ PhaseResuming' => PhaseResuming
  <2>1. \A o \in Engines : eng[o].running => eng'[o].running
    BY <1>2
  <2>2. \A o \in Engines : Clean(cin'[o]) => Clean(cin[o])
    BY <1>2
  <2>. QED BY <1>1, <1>2, <2>1, <2>2, PhaseBack
<1>9. ASSUME PhaseFree, Gathering PROVE Gathering'
  <2>1. s.step = 0
    BY <1>9 DEF Gathering
  <2>2. Holds(e)' <=> Holds(e)
    BY <1>3 DEF Holds
  <2>3. (HasAdd(e)' <=> HasAdd(e)) /\ (HasWaveAdd(e)' <=> HasWaveAdd(e))
    BY <1>2, <1>4 DEF HasAdd, HasWaveAdd
  <2>4. On(e) => On(e)'
    BY <1>2, <2>2, <2>3 DEF On
  <2>5. Live(e)' => Live(e)
    BY <1>2, <1>9, <2>2, <2>3 DEF Live
  <2>6. (Started(e)' <=> Started(e)) /\ (Reports(e)' <=> Reports(e))
    BY <1>2, <1>4, <1>9 DEF Started, Reports
  <2>7. Live(e)' \/ Started(e)' => Wanted
    BY <2>5, <2>6 DEF Wanted
  <2>8. \A o \in Engines : o # e => cin'[o] = cin[o] /\ kin'[o] = kin[o]
    BY <1>2
  <2>. QED BY <1>1, <1>2, <1>9, <2>1, <2>4, <2>6, <2>7, <2>8, LocalGathers
<1>10. PhaseFree' => Gathering' \/ Running'
  BY <1>1, <1>2, <1>8, <1>9, LocalRuns DEF GatherInv
<1>11. GatherInv'
  BY <1>7, <1>8, <1>10 DEF GatherInv
<1>12. ASSUME NEW r \in Requests PROVE PlaceInv(r)'
  <2>1. PlaceInv(r)
    BY DEF SInv, NInv
  <2>2. (Sent(r)' <=> Sent(r)) /\ (Aborts(r)' <=> Aborts(r)) /\ (SentOnce(r)' <=> SentOnce(r))
    BY <1>2 DEF Sent, Aborts, SentOnce, Adds
  <2>3. req'[r] = "new" => req[r] = "new"
    BY <1>2 DEF SameRequests
  <2>4. Waits(r)' => Waits(r)
    BY <1>2, <1>3 DEF Waits
  <2>5. WaitsOnce(r)'
    BY <1>2, <1>3, <2>1 DEF WaitsOnce, PlaceInv
  <2>6. Begun(r)' => Begun(r) \/ r \in R
    BY <1>2, <1>3 DEF Begun
  <2>7. CASE r \in R
    <3>1. Waits(r)
      BY <1>3, <2>7 DEF Waits
    <3>2. ~Waits(r)'
      <4>1. r \notin t.waiting
        BY <1>3, <2>7
      <4>2. \A o \in Engines : o # e => r \notin eng'[o].waiting
        BY <1>2, <1>3, <2>1, <2>7 DEF WaitsOnce, PlaceInv
      <4>. QED BY <4>1, <4>2 DEF Waits
    <3>3. ~Sent(r) /\ ~Aborts(r) /\ req[r] # "new"
      BY <2>1, <3>1 DEF PlaceInv
    <3>. QED BY <2>1, <2>2, <2>3, <2>5, <3>2, <3>3 DEF PlaceInv
  <2>8. CASE r \notin R
    BY <2>1, <2>2, <2>3, <2>4, <2>5, <2>6, <2>8 DEF PlaceInv
  <2>. QED BY <2>7, <2>8
<1>. QED BY <1>6, <1>11, <1>12 DEF NInv
-----------------------------------------------------------------------------
(* Collectives.                                                            *)

\* What a rank does in a forward pass.
LEMMA ForwardDoes ==
  ASSUME DPAssumption, WInv, NEW F \in SUBSET Requests, Forward(F), NEW o \in Engines
  PROVE  LET s == eng[o]  t == eng'[o]
         IN  /\ t.wave = s.wave /\ (s.running => t.running)
             /\ s.step = 0 => t.pc = "sync"
             /\ t.waiting \subseteq s.waiting /\ t.active \subseteq s.active
             /\ kout'[o] = kout[o] \/ t.running
<1>. DEFINE s == eng[o]  d == Drop(s, F)  y == CountStep(o, d)  t == y.eng
<1>1. s \in Engine /\ kout[o] \in Seq(Report)
  BY DEF WInv, Typed
<1>2. /\ d \in Engine /\ d.running = s.running /\ d.wave = s.wave /\ d.step = s.step
      /\ d.waiting = s.waiting \ F /\ d.active = s.active \ F
  BY <1>1, DropFacts
<1>3. eng'[o] = t /\ kout'[o] = kout[o] \o y.toCoord
  BY DEF Forward
<1>. HIDE DEF d
<1>4. t.wave = d.wave /\ (d.running => t.running) /\ t.waiting = d.waiting /\ t.active = d.active
  BY <1>2, CountFacts
<1>5. t.step = NextStep(d.step) /\ (SyncDue(t.step) => t.pc = "sync")
  BY <1>2, CountFacts
<1>6. y.toCoord = <<>> \/ t.running
  BY <1>2, CountFacts
<1>. HIDE DEF y
<1>7. s.step = 0 => t.pc = "sync"
  <2>1. d.step \in 0..(SyncInterval * PrefillInterval + 1)
    BY <1>2 DEF Engine
  <2>2. d.step = 0 => NextStep(d.step) = 1
    BY <2>1, NextStepFacts
  <2>3. SyncDue(1)
    BY DEF SyncDue
  <2>. QED BY <1>2, <1>5, <2>2, <2>3
<1>8. kout[o] \o <<>> = kout[o]
  BY <1>1, ConcatEmptySeq
<1>. QED BY <1>2, <1>3, <1>4, <1>6, <1>7, <1>8

\* The forward pass: after the first of a wave all ranks take part in it.
LEMMA ForwardNews ==
  ASSUME DPAssumption, SInv, NEW F \in SUBSET Requests, Forward(F)
  PROVE  NInv'
<1>1. WInv /\ Typed /\ ViewInv /\ GatherInv
  BY DEF SInv, NInv, WInv
<1>2. /\ End(F) /\ UNCHANGED <<cin, kin, first, coord, client, call, paused>>
      /\ \A o \in Engines : eng[o].pc = "forward"
  BY DEF Forward
<1>3. \A o \in Engines :
        /\ eng'[o].wave = eng[o].wave /\ (eng[o].running => eng'[o].running)
        /\ eng[o].step = 0 => eng'[o].pc = "sync"
        /\ eng'[o].waiting \subseteq eng[o].waiting /\ eng'[o].active \subseteq eng[o].active
        /\ kout'[o] = kout[o] \/ eng'[o].running
  BY <1>1, ForwardDoes
<1>4. Wave' = Wave
  BY <1>3, Ranks DEF Wave
<1>5. ASSUME NEW o \in Engines, Reports(o)' PROVE eng'[o].running
  <2>1. kout'[o] = kout[o] => Reports(o)
    BY <1>4, <1>5 DEF Reports
  <2>. QED BY <1>1, <1>3, <2>1 DEF ViewInv
<1>6. ViewInv'
  BY <1>1, <1>2, <1>5 DEF ViewInv
<1>7. /\ PhaseFree' => PhaseFree
      /\ PhaseStopped' => PhaseStopped
      /\ PhaseResuming' => PhaseResuming
  <2>1. \A o \in Engines : Clean(cin'[o]) => Clean(cin[o])
    BY <1>2
  <2>. QED BY <1>1, <1>2, <1>3, <2>1, PhaseBack
<1>8. ~PhaseStopped /\ ~PhaseResuming
  BY <1>1, <1>2, Halted, Ranks
<1>9. Gathering => Running'
  BY <1>3 DEF Gathering, Running
<1>10. Running => Running'
  <2>1. ASSUME Running, NEW o \in Engines PROVE eng'[o].running
    <3>1. eng[o].running
      BY <1>2, <2>1 DEF Running
    <3>. QED BY <1>3, <3>1
  <2>. QED BY <2>1 DEF Running
<1>11. GatherInv'
  BY <1>1, <1>7, <1>8, <1>9, <1>10 DEF GatherInv
<1>12. Shrinks
  BY <1>3 DEF Shrinks
<1>13. SameRequests
  BY <1>2 DEF End, SameRequests
<1>14. \A r \in Requests : PlaceInv(r)'
  BY <1>2, <1>12, <1>13, PlaceStays DEF SInv, NInv
<1>. QED BY <1>6, <1>11, <1>14 DEF NInv

\* What a rank does after the all-reduce: the wave goes on for all, or is over
\* for all.
LEMMA SyncDoes ==
  ASSUME DPAssumption, WInv, Sync, NEW o \in Engines
  PROVE  LET s == eng[o]  t == eng'[o]
         IN  /\ t.waiting = s.waiting /\ t.active = s.active
             /\ HasUnfinished => t.running /\ t.wave = s.wave
             /\ ~HasUnfinished =>
                  /\ ~t.running /\ t.pc = "idle" /\ t.step = 0 /\ t.wave = s.wave + 1
                  /\ \/ kout'[o] = kout[o]
                     \/ kout'[o] = Append(kout[o], WaveComplete(s.wave))
<1>. DEFINE s == eng[o]  a == [s EXCEPT !.ignore = TRUE, !.pending = FALSE]
            u == IF PauseConsensus THEN a ELSE s
            y == AfterSync(o, u, HasUnfinished)
<1>1. s \in Engine /\ kout[o] \in Seq(Report) /\ s.wave \in Nat
  BY DEF WInv, Typed, Engine
<1>2. a \in Engine /\ a.wave = s.wave /\ a.waiting = s.waiting /\ a.active = s.active
  BY <1>1, Consent
<1>3. eng'[o] = y.eng /\ kout'[o] = kout[o] \o y.toCoord
  BY DEF Sync
<1>. HIDE DEF a
<1>4. u \in Engine /\ u.wave = s.wave /\ u.waiting = s.waiting /\ u.active = s.active
  BY <1>1, <1>2
<1>. HIDE DEF u
<1>5. CASE HasUnfinished
  <2>1. y = GoOn(o, u)
    BY <1>5 DEF GoOn, AfterSync
  <2>2. y.eng.running /\ y.eng.wave = u.wave /\ y.eng.waiting = u.waiting /\ y.eng.active = u.active
    BY <1>4, <2>1, GoesOn
  <2>. HIDE DEF y
  <2>. QED BY <1>3, <1>4, <1>5, <2>2
<1>6. CASE ~HasUnfinished
  <2>1. y = GoIdle(o, u)
    BY <1>6 DEF GoIdle, AfterSync
  <2>2. y.eng.wave = u.wave + 1 /\ y.eng.waiting = u.waiting /\ y.eng.active = u.active
    BY <1>4, <2>1, GoesIdle
  <2>3. ~y.eng.running /\ y.eng.pc = "idle" /\ y.eng.step = 0
    BY <1>4, <2>1, GoesIdle
  <2>4. y.toCoord = <<>> \/ y.toCoord = <<WaveComplete(u.wave)>>
    BY <1>4, <2>1, GoesIdle
  <2>. HIDE DEF y
  <2>5. WaveComplete(s.wave) \in Report
    BY <1>1 DEF WaveComplete, Report
  <2>6. /\ kout[o] \o <<>> = kout[o]
        /\ kout[o] \o <<WaveComplete(s.wave)>> = Append(kout[o], WaveComplete(s.wave))
    BY <1>1, <2>5, AppendFacts
  <2>7. kout'[o] = kout[o] \/ kout'[o] = Append(kout[o], WaveComplete(s.wave))
    BY <1>3, <1>4, <2>4, <2>6
  <2>8. /\ eng'[o].wave = s.wave + 1 /\ ~eng'[o].running
        /\ eng'[o].pc = "idle" /\ eng'[o].step = 0
        /\ eng'[o].waiting = s.waiting /\ eng'[o].active = s.active
    BY <1>3, <1>4, <2>2, <2>3
  <2>. QED BY <1>6, <2>7, <2>8
<1>. QED BY <1>5, <1>6

\* The all-reduce: when it ends a wave nobody counts on the next one yet.
LEMMA SyncNews ==
  ASSUME DPAssumption, SInv, Sync
  PROVE  NInv'
<1>1. WInv /\ Typed /\ ViewInv /\ GatherInv
  BY DEF SInv, NInv, WInv
<1>2. /\ UNCHANGED <<cin, kin, first, coord, client, req, call, paused>>
      /\ \A o \in Engines : eng[o].pc = "sync"
  BY DEF Sync, frontend
<1>3. \A o \in Engines :
        /\ eng'[o].waiting = eng[o].waiting /\ eng'[o].active = eng[o].active
        /\ HasUnfinished => eng'[o].running /\ eng'[o].wave = eng[o].wave
        /\ ~HasUnfinished =>
             /\ ~eng'[o].running /\ eng'[o].pc = "idle" /\ eng'[o].step = 0
             /\ eng'[o].wave = eng[o].wave + 1
             /\ \/ kout'[o] = kout[o]
                \/ kout'[o] = Append(kout[o], WaveComplete(eng[o].wave))
  BY <1>1, SyncDoes
<1>4. Shrinks /\ SameRequests
  BY <1>2, <1>3 DEF Shrinks, SameRequests
<1>5. \A r \in Requests : PlaceInv(r)'
  BY <1>2, <1>4, PlaceStays DEF SInv, NInv
<1>6. /\ Wave \in Nat /\ coord.wave \in Nat /\ client.wave \in Nat
      /\ coord.wave <= Wave /\ client.wave <= Wave
      /\ \A o \in Engines : eng[o].wave = Wave
  <2>1. Wave \in Nat /\ coord.wave \in Nat /\ client.wave \in Nat
    BY <1>1, Ranks DEF Typed, Engine, View, Wave
  <2>. QED BY <1>1, <2>1, Ranks DEF WInv, WaveInv, Wave
<1>7. PhaseFree' => PhaseFree
  BY <1>1, <1>2, PhaseKinds DEF PhaseFree, WInv
<1>8. ~PhaseResuming'
  <2>1. ~PhaseResuming
    BY <1>1, <1>2, Halted, Ranks
  <2>. QED BY <1>1, <1>2, <2>1, PhaseKinds DEF PhaseResuming, WInv
<1>9. CASE HasUnfinished
  <2>1. ViewInv'
    BY <1>1, <1>2, <1>3, <1>9 DEF ViewInv
  <2>2. ~PhaseStopped'
    BY <1>3, <1>9, Ranks DEF PhaseStopped, Stopped
  <2>3. Running'
    BY <1>3, <1>9 DEF Running
  <2>. QED BY <1>5, <1>8, <2>1, <2>2, <2>3 DEF NInv, GatherInv
<1>10. CASE ~HasUnfinished
  <2>1. Wave' = Wave + 1
    BY <1>3, <1>6, <1>10, Ranks DEF Wave
  <2>2. ASSUME NEW o \in Engines PROVE ~Reports(o)'
    <3>1. kout[o] \in Seq(Report) /\ WaveComplete(eng[o].wave) \in Report
      BY <1>1, <1>6 DEF Typed, WaveComplete, Report
    <3>2. \A i \in DOMAIN kout[o] : kout[o][i].wave <= Wave
      BY <1>1, <1>6 DEF WInv, WaveInv
    <3>3. \A i \in DOMAIN kout[o] : kout[o][i].wave \in Nat
      <4>1. \A m \in Report : m.wave \in Nat
        BY DEF Report
      <4>. QED BY <3>1, <4>1
    <3>4. \A i \in DOMAIN kout[o] : kout[o][i].wave # Wave + 1
      BY <1>6, <3>2, <3>3
    <3>5. CASE kout'[o] = kout[o]
      BY <2>1, <3>4, <3>5 DEF Reports
    <3>6. CASE kout'[o] = Append(kout[o], WaveComplete(eng[o].wave))
      <4>. DEFINE m == WaveComplete(eng[o].wave)
      <4>1. m.type # "start" /\ m \in Report
        BY <3>1 DEF WaveComplete
      <4>. HIDE DEF m
      <4>2. \A i \in DOMAIN Append(kout[o], m) :
              (i \in DOMAIN kout[o] /\ Append(kout[o], m)[i] = kout[o][i]) \/ Append(kout[o], m)[i] = m
        BY <3>1, <4>1, AppendFacts
      <4>3. \A i \in DOMAIN Append(kout[o], m) :
              Append(kout[o], m)[i].type # "start" \/ Append(kout[o], m)[i].wave # Wave + 1
        BY <3>4, <4>1, <4>2
      <4>. QED BY <2>1, <3>6, <4>3 DEF Reports, m
    <3>. QED BY <1>3, <1>10, <3>5, <3>6
  <2>3. ViewInv'
    BY <1>1, <1>2, <2>2 DEF ViewInv
  <2>4. ~Runs(coord)' /\ ~Runs(client)'
    BY <1>2, <1>6, <2>1 DEF Runs
  <2>5. HaltInv'
    BY <2>4 DEF HaltInv
  <2>6. ASSUME PhaseFree PROVE Gathering'
    <3>1. \A o \in Engines : eng'[o].waiting = {} /\ eng'[o].active = {}
      <4>1. \A o \in Engines : ~Unfinished(eng[o]) /\ eng[o].pause = "UNPAUSED"
        BY <1>10, <2>6 DEF HasUnfinished, PhaseFree, Free
      <4>. QED BY <1>3, <4>1 DEF Unfinished
    <3>2. ASSUME NEW o \in Engines PROVE ~Live(o)' /\ ~Started(o)'
      <4>1. /\ cin[o] \in Seq(ClientMessage) /\ kin[o] \in Seq(StartMessage)
        BY <1>1 DEF Typed
      <4>2. \A i \in DOMAIN cin[o] : cin[o][i].type = "ADD" => cin[o][i].wave # Wave + 1
        <5>1. \A m \in ClientMessage : m.type = "ADD" => m.wave \in Nat
          BY DEF ClientMessage
        <5>2. \A i \in DOMAIN cin[o] : cin[o][i].type = "ADD" => cin[o][i].wave \in Nat
          BY <4>1, <5>1
        <5>3. \A i \in DOMAIN cin[o] : cin[o][i].type = "ADD" => cin[o][i].wave <= Wave
          BY <1>1, <1>6 DEF WInv, WaveInv
        <5>. QED BY <1>6, <5>2, <5>3
      <4>3. \A i \in DOMAIN kin[o] : kin[o][i].wave # Wave + 1
        <5>1. \A m \in StartMessage : m.wave \in Nat
          BY DEF StartMessage
        <5>2. \A i \in DOMAIN kin[o] : kin[o][i].wave \in Nat
          BY <4>1, <5>1
        <5>3. \A i \in DOMAIN kin[o] : kin[o][i].wave <= Wave
          BY <1>1, <1>6 DEF WInv, WaveInv
        <5>. QED BY <1>6, <5>2, <5>3
      <4>4. ~HasWaveAdd(o)'
        BY <1>2, <2>1, <4>2 DEF HasWaveAdd
      <4>5. ~Started(o)'
        BY <1>2, <2>1, <4>3 DEF Started
      <4>6. ~eng'[o].running /\ ~Holds(o)'
        BY <1>3, <1>10, <3>1 DEF Holds
      <4>. QED BY <4>4, <4>5, <4>6 DEF Live
    <3>3. ~Wanted'
      BY <2>4, <3>2 DEF Wanted
    <3>4. FirstsOn'
      <4>1. ASSUME NEW i \in DOMAIN first PROVE first[i].wave # Wave + 1
        <5>1. first \in Seq([target : Engines, wave : Nat]) /\ i \in 1..Len(first)
          BY <1>1, LenProperties DEF Typed
        <5>2. first[i] \in [target : Engines, wave : Nat]
          BY <5>1, ElementOfSeq
        <5>3. first[i].wave \in Nat /\ first[i].wave <= coord.wave
          BY <1>1, <5>2 DEF ViewInv
        <5>. QED BY <1>6, <5>3
      <4>. QED BY <1>2, <2>1, <4>1 DEF FirstsOn
    <3>5. \A o \in Engines :
            /\ eng'[o].step = 0 /\ eng'[o].pc \in {"idle", "drain", "forward"}
            /\ eng'[o].active # {} => eng'[o].pc = "forward"
            /\ eng'[o].pc = "forward" => eng'[o].running \/ eng'[o].active # {}
      BY <1>3, <1>10, <3>1
    <3>. QED BY <3>3, <3>4, <3>5 DEF Gathering
  <2>. QED BY <1>5, <1>7, <1>8, <2>3, <2>5, <2>6 DEF NInv, GatherInv
<1>. QED BY <1>9, <1>10

\* The barrier of resume_scheduler: the ranks go on together with the requests
\* they have kept; without any, nobody counts on the wave.
LEMMA ResumeBarrierNews ==
  ASSUME DPAssumption, SInv, ResumeBarrier
  PROVE  NInv'
<1>. DEFINE has == \E o \in Engines : Unfinished(eng[o])
            t == [o \in Engines |-> [eng[o] EXCEPT !.pc = "idle", !.running = has]]
<1>1. WInv /\ Typed /\ ViewInv /\ GatherInv
  BY DEF SInv, NInv, WInv
<1>2. /\ eng' = t /\ call' = [call EXCEPT !.left = {}]
      /\ UNCHANGED <<cin, kin, kout, first, coord, client, req, paused>>
      /\ \A o \in Engines : eng[o] \in Engine /\ eng[o].pc = "resume"
  BY <1>1 DEF ResumeBarrier, net, Typed
<1>3. has \in BOOLEAN
  OBVIOUS
<1>. HIDE DEF has
<1>4. ASSUME NEW o \in Engines
      PROVE  /\ eng'[o].pc = "idle" /\ eng'[o].running = has /\ eng'[o].step = eng[o].step
             /\ eng'[o].wave = eng[o].wave
             /\ eng'[o].waiting = eng[o].waiting /\ eng'[o].active = eng[o].active
  <2>1. eng'[o] = [eng[o] EXCEPT !.pc = "idle", !.running = has] /\ eng[o] \in Engine
    BY <1>2
  <2>. QED BY <1>3, <2>1 DEF Engine
<1>. HIDE DEF t
<1>5. Shrinks /\ SameRequests
  BY <1>2, <1>4 DEF Shrinks, SameRequests
<1>6. \A r \in Requests : PlaceInv(r)'
  BY <1>2, <1>5, PlaceStays DEF SInv, NInv
<1>7. PhaseResuming
  BY <1>1, <1>2, Ranks DEF WInv, Phased, PhaseFree, Free, PhaseAwake, PhaseRoused, PhaseAgreed,
                           PhaseStopped, Stopped, Unaware, Aware
<1>8. HaltInv /\ SettledInv /\ \A o \in Engines : Clean(cin[o]) /\ Resuming(eng[o])
  BY <1>1, <1>2, <1>7 DEF GatherInv, PhaseResuming, Stopped
<1>9. \A o \in Engines : ~HasAdd(o)
  BY <1>8 DEF HasAdd, SettledInv, AddsAhead, Clean
<1>10. first = <<>> /\ \A o \in Engines : kin[o] = <<>> /\ kout[o] = <<>>
  BY <1>8 DEF SettledInv, Settled
<1>11. Wave' = Wave
  BY <1>4, Ranks DEF Wave
<1>12. \A o \in Engines : ~Reports(o)' /\ ~Started(o)'
  BY <1>2, <1>10 DEF Reports, Started
<1>13. ViewInv'
  BY <1>1, <1>2, <1>12 DEF ViewInv
<1>14. ~PhaseStopped' /\ ~PhaseResuming'
  BY <1>2, <1>4, <1>7, Ranks DEF PhaseStopped, PhaseResuming, Stopped, Resuming, Once, Clean
<1>15. CASE has
  <2>1. Running'
    BY <1>4, <1>15 DEF Running
  <2>. QED BY <1>6, <1>13, <1>14, <2>1 DEF NInv, GatherInv
<1>16. CASE ~has
  <2>1. \A o \in Engines : eng[o].waiting = {} /\ eng[o].active = {}
    <3>1. \A o \in Engines : ~Unfinished(eng[o])
      BY <1>16 DEF has
    <3>. QED BY <1>8, <3>1 DEF Unfinished, Resuming
  <2>2. ~Runs(coord)' /\ ~Runs(client)'
    BY <1>2, <1>8, <1>9, <1>11, <2>1 DEF HaltInv, Runs
  <2>3. \A o \in Engines : ~Live(o)'
    BY <1>2, <1>4, <1>9, <1>16, <2>1 DEF Live, Holds, HasWaveAdd, HasAdd
  <2>4. ~Wanted'
    BY <1>12, <2>2, <2>3 DEF Wanted
  <2>5. FirstsOn'
    BY <1>2, <1>10 DEF FirstsOn
  <2>6. \A o \in Engines : eng'[o].step = 0 /\ eng'[o].pc = "idle" /\ eng'[o].active = {}
    BY <1>4, <1>8, <2>1 DEF Resuming
  <2>7. Gathering'
    BY <2>4, <2>5, <2>6 DEF Gathering
  <2>. QED BY <1>6, <1>13, <1>14, <2>7 DEF NInv, GatherInv
<1>. QED BY <1>15, <1>16
-----------------------------------------------------------------------------
(* The coordinator.                                                        *)

\* A broadcast of the current wave starts every rank but the one it excludes.
LEMMA BroadcastStarts ==
  ASSUME Typed, NEW w \in Nat, NEW x \in Engines \cup {None}, Broadcast(w, x), Wave' = Wave,
         NEW o \in Engines
  PROVE  Started(o)' <=> Started(o) \/ (w = Wave /\ x # o)
<1>. DEFINE m == [type |-> "START", wave |-> w, exclude |-> x]
<1>1. kin'[o] = Append(kin[o], m) /\ kin[o] \in Seq(StartMessage)
  BY DEF Broadcast, Typed
<1>2. m \in StartMessage /\ m.wave = w /\ m.exclude = x
  BY DEF StartMessage
<1>. HIDE DEF m
<1>3. /\ DOMAIN Append(kin[o], m) = DOMAIN kin[o] \cup {Len(kin[o]) + 1}
      /\ \A i \in DOMAIN kin[o] : Append(kin[o], m)[i] = kin[o][i]
      /\ Append(kin[o], m)[Len(kin[o]) + 1] = m
  BY <1>1, <1>2, AppendFacts
<1>4. ASSUME Started(o) \/ (w = Wave /\ x # o) PROVE Started(o)'
  BY <1>1, <1>2, <1>3, <1>4 DEF Started
<1>5. ASSUME Started(o)' PROVE Started(o) \/ (w = Wave /\ x # o)
  <2>1. PICK i \in DOMAIN Append(kin[o], m) : /\ Append(kin[o], m)[i].wave = Wave
                                              /\ Append(kin[o], m)[i].exclude # o
    BY <1>1, <1>5 DEF Started
  <2>2. CASE i \in DOMAIN kin[o]
    BY <1>3, <2>1, <2>2 DEF Started
  <2>3. CASE i = Len(kin[o]) + 1
    BY <1>2, <1>3, <2>1, <2>3
  <2>. QED BY <1>3, <2>1, <2>2, <2>3
<1>. QED BY <1>4, <1>5

\* Steps of the coordinator and the client leave the ranks, and what they have
\* read, alone.
LEMMA RanksStay ==
  ASSUME DPAssumption, WInv, UNCHANGED <<eng, cin, call, paused>>
  PROVE  /\ Wave' = Wave
         /\ PhaseFree' => PhaseFree
         /\ PhaseStopped' => PhaseStopped
         /\ PhaseResuming' => PhaseResuming
         /\ \A o \in Engines : (On(o)' <=> On(o)) /\ (Live(o)' <=> Live(o))
         /\ Running => Running'
<1>1. Wave' = Wave
  BY DEF Wave
<1>2. /\ PhaseFree' => PhaseFree
      /\ PhaseStopped' => PhaseStopped
      /\ PhaseResuming' => PhaseResuming
  BY PhaseBack
<1>3. \A o \in Engines : (On(o)' <=> On(o)) /\ (Live(o)' <=> Live(o))
  BY <1>1 DEF On, Live, Holds, HasAdd, HasWaveAdd
<1>4. Running => Running'
  BY DEF Running
<1>. QED BY <1>1, <1>2, <1>3, <1>4

\* The same for the places of requests.
LEMMA PlacesStay ==
  ASSUME SInv, UNCHANGED <<eng, cin, req>>
  PROVE  \A r \in Requests : PlaceInv(r)'
<1>1. Shrinks /\ SameRequests
  BY DEF Shrinks, SameRequests
<1>. QED BY <1>1, PlaceStays DEF SInv, NInv

\* And for Gathering.
LEMMA GatherStays ==
  ASSUME DPAssumption, WInv, Gathering, UNCHANGED <<eng, cin, call, paused>>, FirstsOn',
         \A o \in Engines : Woken(o) => Woken(o)' \/ On(o)',
         Wanted' => Wanted \/ \A o \in Engines : On(o)' \/ Woken(o)'
  PROVE  Gathering'
<1>1. \A o \in Engines : On(o) => On(o)'
  BY RanksStay
<1>2. \A e \in Engines :
        /\ eng'[e].step = 0 /\ eng'[e].pc \in {"idle", "drain", "forward"}
        /\ eng'[e].active # {} => eng'[e].pc = "forward"
        /\ eng'[e].pc = "forward" => eng'[e].running \/ eng'[e].active # {}
  BY DEF Gathering
<1>. QED BY <1>1, <1>2, GatherFrom

\* While the ranks stand still the coordinator does not take the wave for
\* running.
LEMMA HaltStays ==
  ASSUME HaltInv, UNCHANGED <<eng, cin>>, ~Runs(coord)', Runs(client)' => Runs(client)
  PROVE  HaltInv'
BY DEF HaltInv, HasAdd

\* The coordinator is told of a first request: it wakes the others, who are
\* stepping already if it takes the wave for running.
LEMMA CoordinatorFirstNews ==
  ASSUME DPAssumption, SInv, CoordinatorFirst
  PROVE  NInv'
<1>. DEFINE m == Head(first)  ex == IF m.wave < coord.wave THEN None ELSE m.target
<1>1. WInv /\ Typed /\ ViewInv /\ GatherInv
  BY DEF SInv, NInv, WInv
<1>2. /\ UNCHANGED <<eng, cin, kout, coord, client, req, call, paused>>
      /\ first # <<>> /\ first' = Tail(first)
      /\ IF coord.running THEN kin' = kin ELSE Broadcast(coord.wave, ex)
  BY DEF CoordinatorFirst, frontend
<1>3. /\ m \in [target : Engines, wave : Nat] /\ m = first[1] /\ 1 \in DOMAIN first
      /\ \A i \in DOMAIN Tail(first) : i + 1 \in DOMAIN first /\ Tail(first)[i] = first[i + 1]
      /\ \A i \in DOMAIN first : i # 1 => i - 1 \in DOMAIN Tail(first) /\ Tail(first)[i - 1] = first[i]
  <2>1. first \in Seq([target : Engines, wave : Nat]) /\ first # <<>>
    BY <1>1, <1>2 DEF Typed
  <2>. QED BY <2>1, TailFacts
<1>4. m.target \in Engines /\ m.wave \in Nat
  BY <1>3
<1>5. /\ coord.wave \in Nat /\ Wave \in Nat /\ coord.wave <= Wave /\ m.wave <= coord.wave
      /\ \A i \in DOMAIN first : first[i].wave <= coord.wave
  <2>1. coord.wave \in Nat /\ Wave \in Nat
    BY <1>1, Ranks DEF Typed, View, Engine, Wave
  <2>2. coord.wave <= Wave
    BY <1>1, Ranks DEF WInv, WaveInv, Wave
  <2>. QED BY <1>1, <1>3, <2>1, <2>2 DEF ViewInv
<1>. HIDE DEF m
<1>6. /\ Wave' = Wave
      /\ PhaseFree' => PhaseFree
      /\ PhaseStopped' => PhaseStopped
      /\ PhaseResuming' => PhaseResuming
      /\ \A o \in Engines : (On(o)' <=> On(o)) /\ (Live(o)' <=> Live(o))
      /\ Running => Running'
  BY <1>1, <1>2, RanksStay
<1>7. \A o \in Engines : Reports(o)' <=> Reports(o)
  BY <1>2, <1>6 DEF Reports
<1>8. (Runs(coord)' <=> Runs(coord)) /\ (Runs(client)' <=> Runs(client))
  BY <1>2, <1>6 DEF Runs
<1>9. ViewInv'
  <2>1. \A i \in DOMAIN Tail(first) : Tail(first)[i].wave <= coord.wave
    BY <1>3, <1>5
  <2>2. \A o \in Engines : Reports(o)' => eng'[o].running
    BY <1>1, <1>2, <1>7 DEF ViewInv
  <2>. QED BY <1>1, <1>2, <2>1, <2>2 DEF ViewInv
<1>10. ex \in Engines \cup {None}
  BY <1>4
<1>11. ASSUME PhaseFree, Gathering PROVE Gathering'
  <2>1. FirstsOn'
    <3>1. ASSUME NEW i \in DOMAIN Tail(first), Tail(first)[i].wave = Wave
          PROVE  \E o \in Engines : Tail(first)[i].target = o /\ On(o)'
      <4>1. i + 1 \in DOMAIN first /\ Tail(first)[i] = first[i + 1]
        BY <1>3
      <4>2. first[i + 1] \in [target : Engines, wave : Nat]
        <5>1. first \in Seq([target : Engines, wave : Nat]) /\ i + 1 \in 1..Len(first)
          BY <1>1, <4>1, LenProperties DEF Typed
        <5>. QED BY <5>1, ElementOfSeq
      <4>3. PICK o \in Engines : first[i + 1].target = o
        BY <4>2
      <4>4. On(o)
        BY <1>11, <3>1, <4>1, <4>3 DEF Gathering, FirstsOn
      <4>. QED BY <1>6, <4>1, <4>3, <4>4
    <3>. QED BY <1>2, <1>6, <3>1, FirstsFrom
  <2>2. \A i \in DOMAIN first : i # 1 => i - 1 \in DOMAIN first' /\ first'[i - 1] = first[i]
    BY <1>2, <1>3
  <2>3. CASE coord.running \/ coord.wave # Wave
    <3>1. \A o \in Engines : Started(o)' <=> Started(o)
      <4>1. CASE coord.running
        BY <1>2, <1>6, <4>1 DEF Started
      <4>2. CASE ~coord.running
        BY <1>1, <1>2, <1>5, <1>6, <1>10, <2>3, <4>2, BroadcastStarts
      <4>. QED BY <4>1, <4>2
    <3>2. ~Runs(coord) => \A i \in DOMAIN first : first[i].wave # Wave
      <4>1. ASSUME NEW i \in DOMAIN first PROVE first[i].wave \in Nat
        <5>1. first \in Seq([target : Engines, wave : Nat]) /\ i \in 1..Len(first)
          BY <1>1, LenProperties DEF Typed
        <5>2. first[i] \in [target : Engines, wave : Nat]
          BY <5>1, ElementOfSeq
        <5>. QED BY <5>2
      <4>2. ~Runs(coord) => coord.wave # Wave
        BY <2>3 DEF Runs
      <4>. QED BY <1>5, <4>1, <4>2
    <3>3. \A o \in Engines : Woken(o) => Woken(o)'
      BY <1>7, <1>8, <3>1, <3>2 DEF Woken
    <3>4. Wanted' => Wanted
      BY <1>6, <1>8, <3>1 DEF Wanted
    <3>. QED BY <1>1, <1>2, <1>11, <2>1, <3>3, <3>4, GatherStays
  <2>4. CASE ~coord.running /\ coord.wave = Wave
    <3>1. \A o \in Engines : Started(o)' <=> Started(o) \/ ex # o
      BY <1>1, <1>2, <1>5, <1>6, <1>10, <2>4, BroadcastStarts
    <3>2. \A o \in Engines : Woken(o)' \/ On(o)'
      <4>1. CASE m.wave < coord.wave
        <5>1. \A o \in Engines : ex # o
          BY <4>1 DEF None, Engines, DPAssumption
        <5>. QED BY <3>1, <5>1 DEF Woken
      <4>2. CASE ~(m.wave < coord.wave)
        <5>1. ex = m.target /\ m.wave = Wave
          BY <1>4, <1>5, <2>4, <4>2
        <5>2. PICK f \in Engines : f = m.target
          BY <1>4
        <5>3. On(f)'
          BY <1>3, <1>6, <1>11, <5>1, <5>2 DEF Gathering, FirstsOn
        <5>4. \A o \in Engines : o # f => Woken(o)'
          BY <3>1, <5>1, <5>2 DEF Woken
        <5>. QED BY <5>3, <5>4
      <4>. QED BY <4>1, <4>2
    <3>. QED BY <1>1, <1>2, <1>11, <2>1, <3>2, GatherStays
  <2>. QED BY <2>3, <2>4
<1>12. HaltInv => HaltInv'
  BY <1>2, <1>8, HaltStays DEF HaltInv
<1>13. ~SettledInv
  BY <1>2 DEF SettledInv, Settled
<1>14. GatherInv'
  BY <1>1, <1>6, <1>11, <1>12, <1>13 DEF GatherInv
<1>15. \A r \in Requests : PlaceInv(r)'
  BY <1>2, PlacesStay
<1>. QED BY <1>9, <1>14, <1>15 DEF NInv

\* The coordinator hears of the start or the end of a wave: it passes on the
\* start of the current one, unless it has told the ranks before.
LEMMA CoordinatorReportNews ==
  ASSUME DPAssumption, SInv, NEW e \in Engines, CoordinatorReport(e)
  PROVE  NInv'
<1>. DEFINE m == Head(kout[e])
            starts == m.wave > coord.wave \/ (m.wave = coord.wave /\ ~coord.running)
            ends == m.type = "complete" /\ coord.wave <= m.wave
<1>1. WInv /\ Typed /\ ViewInv /\ GatherInv
  BY DEF SInv, NInv, WInv
<1>2. /\ UNCHANGED <<eng, cin, first, client, req, call, paused>>
      /\ kout[e] # <<>> /\ kout' = [kout EXCEPT ![e] = Tail(kout[e])]
      /\ \/ ends /\ coord' = [coord EXCEPT !.wave = m.wave + 1, !.running = FALSE] /\ kin' = kin
         \/ /\ m.type = "start" /\ starts
            /\ coord' = [coord EXCEPT !.wave = m.wave, !.running = TRUE] /\ Broadcast(m.wave, e)
         \/ ~ends /\ ~(m.type = "start" /\ starts) /\ coord' = coord /\ kin' = kin
  BY DEF CoordinatorReport, frontend
<1>3. /\ m \in Report /\ m = kout[e][1] /\ 1 \in DOMAIN kout[e]
      /\ \A i \in DOMAIN Tail(kout[e]) : i + 1 \in DOMAIN kout[e] /\ Tail(kout[e])[i] = kout[e][i + 1]
      /\ \A i \in DOMAIN kout[e] : i # 1 => i - 1 \in DOMAIN Tail(kout[e])
                                              /\ Tail(kout[e])[i - 1] = kout[e][i]
  <2>1. kout[e] \in Seq(Report) /\ kout[e] # <<>>
    BY <1>1, <1>2 DEF Typed
  <2>. QED BY <2>1, TailFacts
<1>4. m.type \in {"start", "complete"} /\ m.wave \in Nat
  BY <1>3 DEF Report
<1>5. /\ coord.wave \in Nat /\ coord.running \in BOOLEAN /\ Wave \in Nat /\ coord.wave <= Wave
      /\ coord = [wave |-> coord.wave, running |-> coord.running]
      /\ client.wave \in Nat
  <2>1. coord \in View /\ client \in View /\ Wave \in Nat
    BY <1>1, Ranks DEF Typed, Engine, Wave
  <2>2. coord.wave <= Wave
    BY <1>1, Ranks DEF WInv, WaveInv, Wave
  <2>. QED BY <2>1, <2>2 DEF View
<1>6. m.wave <= Wave /\ (m.type = "complete" => m.wave < Wave)
  <2>1. eng[e].wave = Wave
    BY <1>1, Ranks DEF WInv, WaveInv, Wave
  <2>. QED BY <1>1, <1>3, <2>1 DEF WInv, WaveInv
<1>7. /\ Wave' = Wave
      /\ PhaseFree' => PhaseFree
      /\ PhaseStopped' => PhaseStopped
      /\ PhaseResuming' => PhaseResuming
      /\ \A o \in Engines : (On(o)' <=> On(o)) /\ (Live(o)' <=> Live(o))
      /\ Running => Running'
  BY <1>1, <1>2, RanksStay
<1>8. /\ kout'[e] = Tail(kout[e]) /\ \A o \in Engines : o # e => kout'[o] = kout[o]
  BY <1>1, <1>2 DEF Typed
<1>9. m.type = "start" /\ m.wave = Wave => Reports(e)
  BY <1>3 DEF Reports
<1>. HIDE DEF m
<1>10. \A o \in Engines : Reports(o)' => Reports(o)
  <2>1. Reports(e)' => Reports(e)
    BY <1>3, <1>7, <1>8 DEF Reports
  <2>2. \A o \in Engines : o # e => (Reports(o)' <=> Reports(o))
    BY <1>7, <1>8 DEF Reports
  <2>. QED BY <2>1, <2>2
<1>11. ASSUME ~(m.type = "start" /\ m.wave = Wave), NEW o \in Engines, Reports(o) PROVE Reports(o)'
  <2>1. CASE o # e
    BY <1>7, <1>8, <1>11, <2>1 DEF Reports
  <2>2. CASE o = e
    <3>1. PICK i \in DOMAIN kout[e] : kout[e][i].type = "start" /\ kout[e][i].wave = Wave
      BY <1>11, <2>2 DEF Reports
    <3>2. i # 1
      BY <1>3, <1>11, <3>1
    <3>3. i - 1 \in DOMAIN kout'[e] /\ kout'[e][i - 1] = kout[e][i]
      BY <1>3, <1>8, <3>2
    <3>. QED BY <1>7, <2>2, <3>1, <3>3 DEF Reports
  <2>. QED BY <2>1, <2>2
<1>12. (Runs(client)' <=> Runs(client))
  BY <1>2, <1>7 DEF Runs
<1>13. \A o \in Engines : Reports(o)' => eng'[o].running
  BY <1>1, <1>2, <1>10 DEF ViewInv
<1>14. first \in Seq([target : Engines, wave : Nat])
  BY <1>1 DEF Typed
<1>15. \A i \in DOMAIN first : first[i].wave \in Nat
  <2>1. ASSUME NEW i \in DOMAIN first PROVE first[i] \in [target : Engines, wave : Nat]
    <3>1. i \in 1..Len(first)
      BY <1>14, LenProperties
    <3>. QED BY <1>14, <3>1, ElementOfSeq
  <2>. QED BY <2>1
<1>16. coord.wave <= coord'.wave => ViewInv'
  <2>1. CASE coord.wave <= coord'.wave /\ coord'.wave \in Nat
    BY <1>1, <1>2, <1>5, <1>13, <1>15, <2>1 DEF ViewInv
  <2>2. coord'.wave \in Nat
    <3>1. WInv'
      BY <1>1, CoordinatorReportKeeps
    <3>. QED BY <3>1 DEF WInv, Typed, View
  <2>. QED BY <2>1, <2>2
<1>17. \A r \in Requests : PlaceInv(r)'
  BY <1>2, PlacesStay
<1>18. ~SettledInv
  BY <1>2 DEF SettledInv, Settled
<1>19. PhaseFree /\ Gathering => FirstsOn'
  BY <1>1, <1>2, <1>7, FirstsStay DEF Gathering
<1>20. CASE ends /\ coord' = [coord EXCEPT !.wave = m.wave + 1, !.running = FALSE] /\ kin' = kin
  <2>1. coord'.wave = m.wave + 1 /\ coord'.running = FALSE
    BY <1>5, <1>20
  <2>2. coord.wave <= coord'.wave
    BY <1>4, <1>5, <1>20, <2>1
  <2>3. ~Runs(coord)'
    BY <2>1 DEF Runs
  <2>4. HaltInv => HaltInv'
    BY <1>2, <1>12, <2>3, HaltStays
  <2>5. \A o \in Engines : Started(o)' <=> Started(o)
    BY <1>7, <1>20 DEF Started
  <2>6. \A o \in Engines : Reports(o) => Reports(o)'
    BY <1>11, <1>20
  <2>7. \A o \in Engines : Woken(o) => Woken(o)'
    BY <1>2, <1>7, <2>3, <2>5, <2>6 DEF Woken
  <2>8. Wanted' => Wanted
    BY <1>7, <1>12, <2>3, <2>5 DEF Wanted
  <2>9. PhaseFree /\ Gathering => Gathering'
    BY <1>1, <1>2, <1>19, <2>7, <2>8, GatherStays
  <2>10. GatherInv'
    BY <1>1, <1>7, <1>18, <2>4, <2>9 DEF GatherInv
  <2>. QED BY <1>16, <1>17, <2>2, <2>10 DEF NInv
<1>21. CASE /\ m.type = "start" /\ starts
            /\ coord' = [coord EXCEPT !.wave = m.wave, !.running = TRUE] /\ Broadcast(m.wave, e)
  <2>1. coord'.wave = m.wave
    BY <1>5, <1>21
  <2>2. coord.wave <= coord'.wave
    BY <1>4, <1>5, <1>21, <2>1
  <2>3. \A o \in Engines : Started(o)' <=> Started(o) \/ (m.wave = Wave /\ e # o)
    BY <1>1, <1>4, <1>7, <1>21, BroadcastStarts
  <2>4. CASE m.wave = Wave
    <3>1. eng[e].running
      BY <1>1, <1>9, <1>21, <2>4 DEF ViewInv
    <3>2. ~PhaseStopped /\ ~PhaseResuming
      BY <1>1, <3>1, Halted
    <3>3. On(e)'
      BY <1>7, <3>1 DEF On
    <3>4. \A o \in Engines : o # e => Woken(o)'
      BY <2>3, <2>4 DEF Woken
    <3>5. \A o \in Engines : On(o)' \/ Woken(o)'
      BY <3>3, <3>4
    <3>6. PhaseFree /\ Gathering => Gathering'
      BY <1>1, <1>2, <1>19, <3>5, GatherStays
    <3>7. GatherInv'
      BY <1>1, <1>7, <3>2, <3>6 DEF GatherInv
    <3>. QED BY <1>16, <1>17, <2>2, <3>7 DEF NInv
  <2>5. CASE m.wave # Wave
    <3>1. ~Runs(coord)'
      BY <1>7, <2>1, <2>5 DEF Runs
    <3>2. HaltInv => HaltInv'
      BY <1>2, <1>12, <3>1, HaltStays
    <3>3. \A o \in Engines : Started(o)' <=> Started(o)
      BY <2>3, <2>5
    <3>4. \A o \in Engines : Reports(o) => Reports(o)'
      BY <1>11, <2>5
    <3>5. \A o \in Engines : Woken(o) => Woken(o)'
      BY <1>2, <1>7, <3>1, <3>3, <3>4 DEF Woken
    <3>6. Wanted' => Wanted
      BY <1>7, <1>12, <3>1, <3>3 DEF Wanted
    <3>7. PhaseFree /\ Gathering => Gathering'
      BY <1>1, <1>2, <1>19, <3>5, <3>6, GatherStays
    <3>8. GatherInv'
      BY <1>1, <1>7, <1>18, <3>2, <3>7 DEF GatherInv
    <3>. QED BY <1>16, <1>17, <2>2, <3>8 DEF NInv
  <2>. QED BY <2>4, <2>5
<1>22. CASE ~ends /\ ~(m.type = "start" /\ starts) /\ coord' = coord /\ kin' = kin
  <2>1. Runs(coord)' <=> Runs(coord)
    BY <1>7, <1>22 DEF Runs
  <2>2. HaltInv => HaltInv'
    BY <1>2, <1>12, <2>1, HaltStays DEF HaltInv
  <2>3. \A o \in Engines : Started(o)' <=> Started(o)
    BY <1>7, <1>22 DEF Started
  <2>4. ASSUME ~Runs(coord), NEW o \in Engines, Reports(o) PROVE Reports(o)'
    <3>1. ~(m.type = "start" /\ m.wave = Wave)
      BY <1>4, <1>5, <1>22, <2>4 DEF Runs
    <3>. QED BY <1>11, <2>4, <3>1
  <2>5. \A o \in Engines : Woken(o) => Woken(o)'
    BY <1>2, <1>7, <2>1, <2>3, <2>4 DEF Woken
  <2>6. Wanted' => Wanted
    BY <1>7, <1>12, <2>1, <2>3 DEF Wanted
  <2>7. PhaseFree /\ Gathering => Gathering'
    BY <1>1, <1>2, <1>19, <2>5, <2>6, GatherStays
  <2>8. GatherInv'
    BY <1>1, <1>7, <1>18, <2>2, <2>7 DEF GatherInv
  <2>9. coord.wave <= coord'.wave
    BY <1>5, <1>22
  <2>. QED BY <1>16, <1>17, <2>8, <2>9 DEF NInv
<1>. QED BY <1>2, <1>20, <1>21, <1>22

-----------------------------------------------------------------------------
(* The client and the operator.                                            *)

\* The client hears what the coordinator knows.
LEMMA ClientNewsNews ==
  ASSUME DPAssumption, SInv, ClientNews
  PROVE  NInv'
<1>1. WInv /\ Typed /\ ViewInv /\ GatherInv
  BY DEF SInv, NInv, WInv
<1>2. client' = coord /\ UNCHANGED <<eng, cin, kin, kout, first, coord, req, call, paused>>
  BY DEF ClientNews, net
<1>3. /\ Wave' = Wave
      /\ PhaseFree' => PhaseFree
      /\ PhaseStopped' => PhaseStopped
      /\ PhaseResuming' => PhaseResuming
      /\ \A o \in Engines : (On(o)' <=> On(o)) /\ (Live(o)' <=> Live(o))
      /\ Running => Running'
  BY <1>1, <1>2, RanksStay
<1>4. (Runs(coord)' <=> Runs(coord)) /\ (Runs(client)' <=> Runs(coord))
  BY <1>2, <1>3 DEF Runs
<1>5. \A o \in Engines : (Reports(o)' <=> Reports(o)) /\ (Started(o)' <=> Started(o))
  BY <1>2, <1>3 DEF Reports, Started
<1>6. ViewInv'
  <2>1. coord.wave <= coord.wave
    BY <1>1 DEF Typed, View
  <2>. QED BY <1>1, <1>2, <1>5, <2>1 DEF ViewInv
<1>7. \A o \in Engines : Woken(o) => Woken(o)'
  BY <1>2, <1>3, <1>4, <1>5 DEF Woken
<1>8. Wanted' => Wanted
  BY <1>3, <1>4, <1>5 DEF Wanted
<1>9. Gathering => FirstsOn'
  BY <1>1, <1>2, <1>3, FirstsStay DEF Gathering
<1>10. Gathering => Gathering'
  BY <1>1, <1>2, <1>7, <1>8, <1>9, GatherStays
<1>11. HaltInv => HaltInv'
  BY <1>4 DEF HaltInv
<1>12. SettledInv => SettledInv'
  BY <1>2 DEF SettledInv, Settled, AddsAhead
<1>13. GatherInv'
  BY <1>1, <1>3, <1>10, <1>11, <1>12 DEF GatherInv
<1>14. \A r \in Requests : PlaceInv(r)'
  BY <1>2, PlacesStay
<1>. QED BY <1>6, <1>13, <1>14 DEF NInv

\* A message added to a queue is there, and so is what was.
LEMMA SendLeaves ==
  ASSUME Typed, NEW e \in Engines, NEW m \in ClientMessage, cin'[e] = Append(cin[e], m)
  PROVE  /\ HasAdd(e)' <=> HasAdd(e) \/ m.type = "ADD"
         /\ Wave' = Wave => (HasWaveAdd(e)' <=> HasWaveAdd(e) \/ (m.type = "ADD" /\ m.wave = Wave))
         /\ Clean(cin'[e]) => Clean(cin[e])
<1>1. /\ DOMAIN Append(cin[e], m) = DOMAIN cin[e] \cup {Len(cin[e]) + 1}
      /\ \A i \in DOMAIN cin[e] : Append(cin[e], m)[i] = cin[e][i]
      /\ Append(cin[e], m)[Len(cin[e]) + 1] = m
  <2>1. cin[e] \in Seq(ClientMessage)
    BY DEF Typed
  <2>. QED BY <2>1, AppendFacts
<1>2. HasAdd(e)' <=> HasAdd(e) \/ m.type = "ADD"
  BY <1>1 DEF HasAdd
<1>3. Wave' = Wave => (HasWaveAdd(e)' <=> HasWaveAdd(e) \/ (m.type = "ADD" /\ m.wave = Wave))
  BY <1>1 DEF HasWaveAdd
<1>4. Clean(cin'[e]) => Clean(cin[e])
  BY <1>1 DEF Clean
<1>. QED BY <1>2, <1>3, <1>4

\* What a call finds when no request is behind it.
LEMMA SendCallAhead ==
  ASSUME Typed, NEW e \in Engines, NEW m \in ClientMessage, m.type = "UTILITY",
         cin'[e] = Append(cin[e], m)
  PROVE  AddsAhead(e)'
<1>1. /\ DOMAIN Append(cin[e], m) = DOMAIN cin[e] \cup {Len(cin[e]) + 1}
      /\ \A i \in DOMAIN cin[e] : Append(cin[e], m)[i] = cin[e][i]
      /\ Append(cin[e], m)[Len(cin[e]) + 1] = m
      /\ \A i \in DOMAIN cin[e] : i < Len(cin[e]) + 1
  <2>1. cin[e] \in Seq(ClientMessage)
    BY DEF Typed
  <2>2. \A i \in DOMAIN cin[e] : i < Len(cin[e]) + 1
    BY <2>1, LenProperties
  <2>. QED BY <2>1, <2>2, AppendFacts
<1>. QED BY <1>1 DEF AddsAhead

\* add_request_async: the first request of a wave is announced to the
\* coordinator, which wakes the others.
LEMMA ClientAddNews ==
  ASSUME DPAssumption, SInv, NEW r \in Requests, ClientAdd(r)
  PROVE  NInv'
<1>1. WInv /\ Typed /\ ViewInv /\ GatherInv /\ "settled" \in Discipline
  BY DEF SInv, NInv, WInv, Disciplined
<1>2. PICK e \in Engines :
         /\ req' = [req EXCEPT ![r] = "sent"]
         /\ cin' = [cin EXCEPT ![e] = Append(@, [type |-> "ADD", req |-> r, wave |-> client.wave])]
         /\ first' = IF client.running THEN first
                     ELSE Append(first, [target |-> e, wave |-> client.wave])
         /\ client' = [client EXCEPT !.running = TRUE]
  BY DEF ClientAdd
<1>3. /\ req[r] = "new" /\ UNCHANGED <<eng, kin, kout, coord, call, paused>>
      /\ call.op \in {"resume", "wake"} => call.left = {}
  BY <1>1 DEF ClientAdd
<1>. DEFINE m == [type |-> "ADD", req |-> r, wave |-> client.wave]
            n == [target |-> e, wave |-> client.wave]
<1>4. /\ client.wave \in Nat /\ client.running \in BOOLEAN /\ coord.wave \in Nat /\ Wave \in Nat
      /\ client'.wave = client.wave /\ client'.running = TRUE
  <2>1. client \in View /\ coord \in View /\ Wave \in Nat
    BY <1>1, Ranks DEF Typed, Engine, Wave
  <2>. QED BY <1>2, <2>1 DEF View
<1>5. /\ m \in ClientMessage /\ m.type = "ADD" /\ m.req = r /\ m.wave = client.wave
      /\ n \in [target : Engines, wave : Nat] /\ n.target = e /\ n.wave = client.wave
  BY <1>4 DEF ClientMessage
<1>6. /\ cin'[e] = Append(cin[e], m) /\ \A o \in Engines : o # e => cin'[o] = cin[o]
  BY <1>1, <1>2 DEF Typed
<1>7. first' = IF client.running THEN first ELSE Append(first, n)
  BY <1>2
<1>. HIDE DEF m, n
<1>8. /\ first \in Seq([target : Engines, wave : Nat])
      /\ DOMAIN Append(first, n) = DOMAIN first \cup {Len(first) + 1}
      /\ \A i \in DOMAIN first : Append(first, n)[i] = first[i]
      /\ Append(first, n)[Len(first) + 1] = n
  <2>1. first \in Seq([target : Engines, wave : Nat])
    BY <1>1 DEF Typed
  <2>. QED BY <1>5, <2>1, AppendFacts
<1>9. Wave' = Wave
  BY <1>3 DEF Wave
<1>10. /\ PhaseFree' => PhaseFree
       /\ PhaseStopped' => PhaseStopped
       /\ ~PhaseResuming'
  <2>1. \A o \in Engines : Clean(cin'[o]) => Clean(cin[o])
    BY <1>1, <1>5, <1>6, SendLeaves
  <2>2. ~PhaseResuming'
    BY <1>3, Ranks DEF PhaseResuming
  <2>. QED BY <1>1, <1>3, <2>1, <2>2, PhaseBack
<1>11. \A o \in Engines : (Reports(o)' <=> Reports(o)) /\ (Started(o)' <=> Started(o))
  BY <1>3, <1>9 DEF Reports, Started
<1>12. Runs(coord)' <=> Runs(coord)
  BY <1>3, <1>9 DEF Runs
<1>13. HasAdd(e)' /\ (HasWaveAdd(e)' <=> HasWaveAdd(e) \/ client.wave = Wave)
  BY <1>1, <1>5, <1>6, <1>9, SendLeaves
<1>14. \A o \in Engines : o # e => (On(o)' <=> On(o)) /\ (Live(o)' <=> Live(o))
  BY <1>3, <1>6, <1>9 DEF On, Live, Holds, HasAdd, HasWaveAdd
<1>15. On(e)' /\ (Live(e)' => Live(e) \/ client.wave = Wave)
  BY <1>3, <1>13 DEF On, Live, Holds
<1>16. ViewInv'
  <2>1. client.wave <= coord.wave
    BY <1>1 DEF ViewInv
  <2>2. \A i \in DOMAIN first' : first'[i].wave <= coord.wave
    <3>1. CASE client.running
      BY <1>1, <1>7, <3>1 DEF ViewInv
    <3>2. CASE ~client.running
      BY <1>1, <1>5, <1>7, <1>8, <2>1, <3>2 DEF ViewInv
    <3>. QED BY <1>4, <3>1, <3>2
  <2>. QED BY <1>1, <1>3, <1>4, <1>11, <2>1, <2>2 DEF ViewInv
<1>17. ASSUME Gathering PROVE Gathering'
  <2>1. \A o \in Engines : On(o) => On(o)'
    BY <1>14, <1>15
  <2>2. FirstsOn'
    <3>1. ASSUME NEW i \in DOMAIN first', first'[i].wave = Wave
          PROVE  \E o \in Engines : first'[i].target = o /\ On(o)'
      <4>1. CASE i \in DOMAIN first /\ first'[i] = first[i]
        <5>1. first[i] \in [target : Engines, wave : Nat]
          <6>1. i \in 1..Len(first)
            BY <1>8, <4>1, LenProperties
          <6>. QED BY <1>8, <6>1, ElementOfSeq
        <5>2. PICK o \in Engines : first[i].target = o
          BY <5>1
        <5>3. On(o)
          BY <1>17, <3>1, <4>1, <5>2 DEF Gathering, FirstsOn
        <5>. QED BY <2>1, <4>1, <5>2, <5>3
      <4>2. CASE first'[i] = n
        BY <1>5, <1>15, <4>2
      <4>3. (i \in DOMAIN first /\ first'[i] = first[i]) \/ first'[i] = n
        BY <1>7, <1>8
      <4>. QED BY <4>1, <4>2, <4>3
    <3>. QED BY <1>9, <3>1, FirstsFrom
  <2>3. \A i \in DOMAIN first : i \in DOMAIN first' /\ first'[i] = first[i]
    BY <1>7, <1>8
  <2>4. \A o \in Engines : Woken(o) => Woken(o)'
    BY <1>9, <1>11, <1>12, <2>3 DEF Woken
  <2>5. CASE client.wave # Wave
    <3>1. ~Runs(client)'
      BY <1>4, <1>9, <2>5 DEF Runs
    <3>2. \A o \in Engines : Live(o)' => Live(o)
      BY <1>14, <1>15, <2>5
    <3>3. Wanted' => Wanted
      BY <1>11, <1>12, <3>1, <3>2 DEF Wanted
    <3>. QED BY <1>3, <1>17, <2>1, <2>2, <2>4, <3>3, GatherFrom DEF Gathering
  <2>6. CASE client.wave = Wave /\ client.running
    <3>1. Wanted
      BY <2>6 DEF Wanted, Runs
    <3>. QED BY <1>3, <1>17, <2>1, <2>2, <2>4, <3>1, GatherFrom DEF Gathering
  <2>7. CASE client.wave = Wave /\ ~client.running
    <3>1. ASSUME ~Wanted, NEW o \in Engines PROVE On(o)' \/ Woken(o)'
      <4>1. ~Runs(coord)'
        BY <1>12, <3>1 DEF Wanted
      <4>2. Len(first) + 1 \in DOMAIN first' /\ first'[Len(first) + 1] = n
        BY <1>7, <1>8, <2>7
      <4>3. CASE o = e
        BY <1>15, <4>3
      <4>4. CASE o # e
        <5>1. first'[Len(first) + 1].wave = Wave' /\ first'[Len(first) + 1].target # o
          BY <1>5, <1>9, <2>7, <4>2, <4>4
        <5>. QED BY <4>1, <4>2, <5>1 DEF Woken
      <4>. QED BY <4>3, <4>4
    <3>. QED BY <1>3, <1>17, <2>1, <2>2, <2>4, <3>1, GatherFrom DEF Gathering
  <2>. QED BY <1>4, <2>5, <2>6, <2>7
<1>18. Running => Running'
  BY <1>3 DEF Running
<1>19. HaltInv => HaltInv'
  BY <1>12, <1>13 DEF HaltInv
<1>20. GatherInv'
  BY <1>1, <1>10, <1>17, <1>18, <1>19 DEF GatherInv
<1>21. ASSUME NEW q \in Requests PROVE PlaceInv(q)'
  <2>1. PlaceInv(q)
    BY DEF SInv, NInv
  <2>2. \A o \in Engines : cin'[o] = cin[o] \/ cin'[o] = Append(cin[o], m)
    BY <1>6
  <2>3. (Waits(q)' <=> Waits(q)) /\ (Begun(q)' <=> Begun(q)) /\ (WaitsOnce(q)' <=> WaitsOnce(q))
    BY <1>3 DEF Waits, Begun, WaitsOnce
  <2>4. Aborts(q)' => Aborts(q)
    BY <1>1, <1>5, <2>2, SendPlaces
  <2>5. CASE q # r
    <3>1. Sent(q)' => Sent(q)
      BY <1>1, <1>5, <2>2, <2>5, SendPlaces
    <3>2. SentOnce(q)'
      BY <1>1, <1>5, <2>1, <2>2, <2>5, SendPlaces DEF PlaceInv
    <3>3. req'[q] = req[q]
      BY <1>1, <1>2, <2>5 DEF Typed
    <3>. QED BY <2>1, <2>3, <2>4, <3>1, <3>2, <3>3 DEF PlaceInv
  <2>6. CASE q = r
    <3>1. ~Sent(r) /\ ~Waits(r) /\ ~Begun(r) /\ ~Aborts(r)
      BY <1>3, <2>1, <2>6 DEF PlaceInv
    <3>2. req'[r] # "new"
      BY <1>1, <1>2 DEF Typed
    <3>3. \A o \in Engines : o # e => Adds(o, r)' = {}
      BY <1>6, <3>1 DEF Sent, Adds
    <3>4. Adds(e, r)' \subseteq {Len(cin[e]) + 1}
      <4>1. cin[e] \in Seq(ClientMessage)
        BY <1>1 DEF Typed
      <4>2. /\ DOMAIN Append(cin[e], m) = DOMAIN cin[e] \cup {Len(cin[e]) + 1}
            /\ \A i \in DOMAIN cin[e] : Append(cin[e], m)[i] = cin[e][i]
        BY <1>5, <4>1, AppendFacts
      <4>3. Adds(e, r) = {}
        BY <3>1 DEF Sent
      <4>. QED BY <1>6, <4>2, <4>3 DEF Adds
    <3>5. SentOnce(r)'
      BY <3>3, <3>4 DEF SentOnce
    <3>. QED BY <2>1, <2>3, <2>4, <2>6, <3>1, <3>2, <3>5 DEF PlaceInv
  <2>. QED BY <2>5, <2>6
<1>. QED BY <1>16, <1>20, <1>21 DEF NInv

\* abort_requests_async: only what has begun is aborted.
LEMMA ClientAbortNews ==
  ASSUME DPAssumption, SInv, NEW r \in Requests, ClientAbort(r)
  PROVE  NInv'
<1>. DEFINE m == [type |-> "ABORT", req |-> r]
<1>1. WInv /\ Typed /\ ViewInv /\ GatherInv /\ "admitted" \in Discipline
  BY DEF SInv, NInv, WInv, Disciplined
<1>2. /\ req' = [req EXCEPT ![r] = "aborted"]
      /\ cin' = IF flight[r] = None THEN cin
                ELSE [cin EXCEPT ![flight[r]] = Append(cin[flight[r]], m)]
      /\ UNCHANGED <<eng, kin, kout, first, coord, client, call, paused>>
      /\ Begun(r)
  BY <1>1 DEF ClientAbort, Begun
<1>3. m \in ClientMessage /\ m.type = "ABORT" /\ m.req = r
  BY DEF ClientMessage
<1>. HIDE DEF m
<1>4. \A o \in Engines : cin'[o] = cin[o] \/ cin'[o] = Append(cin[o], m)
  BY <1>1, <1>2 DEF Typed
<1>5. Wave' = Wave
  BY <1>2 DEF Wave
<1>6. ASSUME NEW o \in Engines
      PROVE  /\ HasAdd(o)' <=> HasAdd(o)
             /\ HasWaveAdd(o)' <=> HasWaveAdd(o)
             /\ Clean(cin'[o]) => Clean(cin[o])
  <2>1. CASE cin'[o] = cin[o]
    BY <1>5, <2>1 DEF HasAdd, HasWaveAdd
  <2>2. CASE cin'[o] = Append(cin[o], m)
    BY <1>1, <1>3, <1>5, <2>2, SendLeaves
  <2>. QED BY <1>4, <2>1, <2>2
<1>7. /\ PhaseFree' => PhaseFree
      /\ PhaseStopped' => PhaseStopped
      /\ PhaseResuming' => PhaseResuming
  BY <1>1, <1>2, <1>6, PhaseBack
<1>8. \A o \in Engines : (Reports(o)' <=> Reports(o)) /\ (Started(o)' <=> Started(o))
  BY <1>2, <1>5 DEF Reports, Started
<1>9. (Runs(coord)' <=> Runs(coord)) /\ (Runs(client)' <=> Runs(client))
  BY <1>2, <1>5 DEF Runs
<1>10. \A o \in Engines : (On(o)' <=> On(o)) /\ (Live(o)' <=> Live(o))
  BY <1>2, <1>6 DEF On, Live, Holds
<1>11. ViewInv'
  BY <1>1, <1>2, <1>8 DEF ViewInv
<1>12. ASSUME Gathering PROVE Gathering'
  <2>1. \A o \in Engines : Woken(o) => Woken(o)'
    BY <1>2, <1>5, <1>8, <1>9 DEF Woken
  <2>2. Wanted' => Wanted
    BY <1>8, <1>9, <1>10 DEF Wanted
  <2>3. FirstsOn'
    BY <1>1, <1>2, <1>5, <1>10, <1>12, FirstsStay DEF Gathering
  <2>. QED BY <1>2, <1>10, <1>12, <2>1, <2>2, <2>3, GatherFrom DEF Gathering
<1>13. Running => Running'
  BY <1>2 DEF Running
<1>14. HaltInv => HaltInv'
  BY <1>2, <1>6, <1>9 DEF HaltInv
<1>15. ASSUME SettledInv PROVE SettledInv'
  <2>1. Settled'
    BY <1>2, <1>15 DEF SettledInv, Settled
  <2>2. ASSUME NEW o \in Engines PROVE AddsAhead(o)'
    <3>1. AddsAhead(o)
      BY <1>15 DEF SettledInv
    <3>2. CASE cin'[o] = cin[o]
      BY <3>1, <3>2 DEF AddsAhead
    <3>3. CASE cin'[o] = Append(cin[o], m)
      <4>1. cin[o] \in Seq(ClientMessage)
        BY <1>1 DEF Typed
      <4>2. /\ DOMAIN Append(cin[o], m) = DOMAIN cin[o] \cup {Len(cin[o]) + 1}
            /\ \A i \in DOMAIN cin[o] : Append(cin[o], m)[i] = cin[o][i]
            /\ Append(cin[o], m)[Len(cin[o]) + 1] = m
        BY <1>3, <4>1, AppendFacts
      <4>. QED BY <1>3, <3>1, <3>3, <4>2 DEF AddsAhead
    <3>. QED BY <1>4, <3>2, <3>3
  <2>. QED BY <2>1, <2>2 DEF SettledInv
<1>16. GatherInv'
  BY <1>1, <1>7, <1>12, <1>13, <1>14, <1>15 DEF GatherInv
<1>17. ASSUME NEW q \in Requests PROVE PlaceInv(q)'
  <2>1. PlaceInv(q)
    BY DEF SInv, NInv
  <2>2. (Waits(q)' <=> Waits(q)) /\ (Begun(q)' <=> Begun(q)) /\ (WaitsOnce(q)' <=> WaitsOnce(q))
    BY <1>2 DEF Waits, Begun, WaitsOnce
  <2>3. Sent(q)' => Sent(q)
    BY <1>1, <1>3, <1>4, SendPlaces
  <2>4. SentOnce(q)'
    BY <1>1, <1>3, <1>4, <2>1, SendPlaces DEF PlaceInv
  <2>5. CASE q # r
    <3>1. Aborts(q)' => Aborts(q)
      BY <1>1, <1>3, <1>4, <2>5, SendPlaces
    <3>2. req'[q] = req[q]
      BY <1>1, <1>2, <2>5 DEF Typed
    <3>. QED BY <2>1, <2>2, <2>3, <2>4, <3>1, <3>2 DEF PlaceInv
  <2>6. CASE q = r
    <3>1. req'[r] # "new"
      BY <1>1, <1>2 DEF Typed
    <3>2. ~Sent(r) /\ ~Waits(r)
      BY <1>2, <2>1, <2>6 DEF PlaceInv
    <3>. QED BY <2>1, <2>2, <2>3, <2>4, <2>6, <3>1, <3>2 DEF PlaceInv
  <2>. QED BY <2>5, <2>6
<1>. QED BY <1>11, <1>16, <1>17 DEF NInv

\* call_utility_async: a resume finds no news of earlier waves under way.
LEMMA OperatorCallNews ==
  ASSUME DPAssumption, SInv, NEW c \in Calls, OperatorCall(c)
  PROVE  NInv'
<1>. DEFINE m == [type |-> "UTILITY", call |-> c]
<1>1. WInv /\ Typed /\ ViewInv /\ GatherInv /\ "settled" \in Discipline /\ "paused" \in Discipline
  BY DEF SInv, NInv, WInv, Disciplined, Careful
<1>2. /\ call' = [op |-> c.op, left |-> Engines]
      /\ cin' = [o \in Engines |-> Append(cin[o], m)]
      /\ UNCHANGED <<eng, kin, kout, first, coord, client, req>>
      /\ call.left = {}
      /\ c.op = "resume" => paused = "pause"
      /\ c.op = "wake" => paused = "sleep"
      /\ c.op \in {"resume", "wake"} => Settled
  BY <1>1 DEF OperatorCall
<1>3. m \in ClientMessage /\ m.type = "UTILITY"
  BY DEF ClientMessage
<1>. HIDE DEF m
<1>4. \A o \in Engines : cin'[o] = Append(cin[o], m)
  BY <1>2
<1>5. Wave' = Wave
  BY <1>2 DEF Wave
<1>6. \A o \in Engines : Reports(o)' <=> Reports(o)
  BY <1>2, <1>5 DEF Reports
<1>7. ViewInv'
  BY <1>1, <1>2, <1>6 DEF ViewInv
<1>8. ~PhaseFree'
  BY <1>2, Ranks DEF PhaseFree
<1>9. \A o \in Engines : ~Clean(cin'[o])
  <2>1. ASSUME NEW o \in Engines PROVE ~Clean(cin'[o])
    <3>1. cin[o] \in Seq(ClientMessage)
      BY <1>1 DEF Typed
    <3>2. /\ DOMAIN Append(cin[o], m) = DOMAIN cin[o] \cup {Len(cin[o]) + 1}
          /\ Append(cin[o], m)[Len(cin[o]) + 1] = m
      BY <1>3, <3>1, AppendFacts
    <3>. QED BY <1>3, <1>4, <3>2 DEF Clean
  <2>. QED BY <2>1
<1>10. ~PhaseStopped'
  BY <1>9, Ranks DEF PhaseStopped
<1>11. ASSUME PhaseResuming' PROVE HaltInv' /\ SettledInv'
  <2>1. c.op \in {"resume", "wake"}
    BY <1>2, <1>11 DEF PhaseResuming
  <2>2. paused # "no" /\ Settled
    BY <1>2, <2>1
  <2>3. PhaseStopped
    BY <1>1, <1>2, <2>2, Ranks DEF WInv, Phased, PhaseFree, PhaseAwake, PhaseRoused, PhaseAgreed,
                                   PhaseResuming, Pausing
  <2>4. HaltInv
    BY <1>1, <2>3 DEF GatherInv
  <2>5. (Runs(coord)' <=> Runs(coord)) /\ (Runs(client)' <=> Runs(client))
    BY <1>2, <1>5 DEF Runs
  <2>6. \A o \in Engines : HasAdd(o) => HasAdd(o)'
    BY <1>1, <1>3, <1>4, SendLeaves
  <2>7. HaltInv'
    BY <1>2, <2>4, <2>5, <2>6 DEF HaltInv
  <2>8. Settled'
    BY <1>2, <2>2 DEF Settled
  <2>9. \A o \in Engines : AddsAhead(o)'
    BY <1>1, <1>3, <1>4, SendCallAhead
  <2>. QED BY <2>7, <2>8, <2>9 DEF SettledInv
<1>12. GatherInv'
  BY <1>8, <1>10, <1>11 DEF GatherInv
<1>13. Shrinks /\ SameRequests
  BY <1>2 DEF Shrinks, SameRequests
<1>14. ASSUME NEW r \in Requests PROVE PlaceInv(r)'
  <2>1. PlaceInv(r)
    BY DEF SInv, NInv
  <2>2. (Sent(r)' => Sent(r)) /\ (Aborts(r)' => Aborts(r)) /\ (SentOnce(r) => SentOnce(r)')
    BY <1>1, <1>3, <1>4, SendPlaces
  <2>. QED BY <1>13, <2>1, <2>2, PlaceShrinks
<1>. QED BY <1>7, <1>12, <1>14 DEF NInv
-----------------------------------------------------------------------------
(* The theorems.                                                           *)

\* At first nobody counts on a wave, and no request is anywhere.
LEMMA InitSInv ==
  ASSUME DPAssumption, Disciplined, Init
  PROVE  SInv
<1>1. WInv
  BY InitWInv DEF Disciplined
<1>2. /\ \A o \in Engines : /\ eng[o].pc = "idle" /\ eng[o].step = 0 /\ eng[o].wave = 0
                            /\ eng[o].running = FALSE /\ eng[o].pause = "UNPAUSED"
                            /\ eng[o].waiting = {} /\ eng[o].active = {}
                            /\ cin[o] = <<>> /\ kin[o] = <<>> /\ kout[o] = <<>>
      /\ first = <<>> /\ paused = "no" /\ call.left = {} /\ call.op = "none"
      /\ coord.wave = 0 /\ client.wave = 0 /\ coord.running = FALSE /\ client.running = FALSE
  BY DEF Init
<1>3. \A o \in Engines : ~Reports(o) /\ ~Started(o) /\ ~HasAdd(o) /\ ~HasWaveAdd(o)
  BY <1>2 DEF Reports, Started, HasAdd, HasWaveAdd
<1>4. ViewInv
  BY <1>2, <1>3 DEF ViewInv
<1>5. ~Wanted
  BY <1>2, <1>3 DEF Wanted, Live, Holds, Runs
<1>6. Gathering
  BY <1>2, <1>5 DEF Gathering, FirstsOn
<1>7. ~PhaseStopped /\ ~PhaseResuming
  BY <1>2, Ranks DEF PhaseStopped, PhaseResuming
<1>8. \A r \in Requests : PlaceInv(r)
  BY <1>2 DEF PlaceInv, Sent, Waits, Begun, Aborts, Adds, SentOnce, WaitsOnce
<1>. QED BY <1>1, <1>4, <1>6, <1>7, <1>8 DEF SInv, NInv, GatherInv

\* Every step of the ranks, the coordinator, the client and the operator keeps it.
LEMMA NextSInv ==
  ASSUME DPAssumption, SInv, [Next]_vars
  PROVE  SInv'
<1>1. ASSUME NEW e \in Engines, EngineLoop(e) PROVE NInv'
  BY <1>1, ReceiveClientNews, ReceiveCoordinatorNews, IdleCallbackNews, BeginStepNews DEF EngineLoop
<1>2. CASE Collective
  <2>1. NInv'
    BY <1>2, ForwardNews, SyncNews, ResumeBarrierNews DEF Collective
  <2>. QED BY <2>1, NextWInv DEF SInv, Disciplined
<1>3. CASE Coordinator
  <2>1. NInv'
    BY <1>3, CoordinatorFirstNews, CoordinatorReportNews DEF Coordinator
  <2>. QED BY <2>1, NextWInv DEF SInv, Disciplined
<1>4. CASE ClientNews
  <2>1. NInv'
    BY <1>4, ClientNewsNews
  <2>. QED BY <2>1, NextWInv DEF SInv, Disciplined
<1>5. ASSUME NEW r \in Requests, ClientAdd(r) \/ ClientAbort(r) PROVE NInv'
  BY <1>5, ClientAddNews, ClientAbortNews
<1>6. ASSUME NEW c \in Calls, OperatorCall(c) PROVE NInv'
  BY <1>6, OperatorCallNews
<1>7. CASE UNCHANGED vars
  <2>1. WInv
    BY DEF SInv
  <2>2. UNCHANGED <<eng, cin, kin, kout, first, coord, client, req, call, paused>>
    BY <1>7 DEF vars
  <2>3. \A r \in Requests : PlaceInv(r)'
    BY <2>2, PlacesStay
  <2>4. Wave' = Wave
    BY <2>2 DEF Wave
  <2>5. \A o \in Engines : /\ (On(o)' <=> On(o)) /\ (Live(o)' <=> Live(o))
                           /\ (Reports(o)' <=> Reports(o)) /\ (Started(o)' <=> Started(o))
    BY <2>2, <2>4 DEF On, Live, Holds, HasAdd, HasWaveAdd, Reports, Started
  <2>6. (Runs(coord)' <=> Runs(coord)) /\ (Runs(client)' <=> Runs(client))
    BY <2>2, <2>4 DEF Runs
  <2>7. \A o \in Engines : Woken(o) => Woken(o)'
    BY <2>2, <2>4, <2>5, <2>6 DEF Woken
  <2>8. Wanted' => Wanted
    BY <2>5, <2>6 DEF Wanted
  <2>9. Gathering => FirstsOn'
    BY <2>1, <2>2, <2>4, <2>5, FirstsStay DEF Gathering, WInv
  <2>10. Gathering => Gathering'
    BY <2>1, <2>2, <2>7, <2>8, <2>9, GatherStays
  <2>11. HaltInv => HaltInv'
    BY <2>2, <2>6, HaltStays DEF HaltInv
  <2>12. SettledInv => SettledInv'
    BY <2>2 DEF SettledInv, Settled, AddsAhead
  <2>13. /\ PhaseFree' => PhaseFree
         /\ PhaseStopped' => PhaseStopped
         /\ PhaseResuming' => PhaseResuming
         /\ Running => Running'
    BY <2>1, <2>2, RanksStay
  <2>14. GatherInv'
    BY <2>10, <2>11, <2>12, <2>13 DEF GatherInv, SInv, NInv
  <2>15. ViewInv'
    BY <2>2, <2>5 DEF ViewInv, SInv, NInv
  <2>. QED BY <2>3, <2>14, <2>15, NextWInv DEF SInv, NInv, Disciplined
<1>8. WInv' /\ Disciplined'
  BY NextWInv DEF SInv, Disciplined, Careful
<1>. QED BY <1>1, <1>2, <1>3, <1>4, <1>5, <1>6, <1>7, <1>8 DEF Next, Quiet, SInv

\* A rank in a forward pass is one the wave counts on: the others step too, or
\* will be woken.
LEMMA NoneStranded ==
  ASSUME DPAssumption, SInv
  PROVE  NeverStranded
<1>1. WInv /\ GatherInv
  BY DEF SInv, NInv
<1>2. SUFFICES ASSUME NEW e \in Engines, NEW f \in Engines,
                      eng[e].pc = "forward", eng[f].pc = "idle", ~HasWork(eng[f])
               PROVE  \/ cin[f] # <<>> \/ kin[f] # <<>> \/ first # <<>>
                      \/ \E g \in Engines : kout[g] # <<>>
  BY DEF NeverStranded
<1>3. ~eng[f].running /\ ~Unfinished(eng[f])
  BY <1>2 DEF HasWork
<1>4. ~PhaseStopped /\ ~PhaseResuming
  BY <1>1, <1>2, Halted
<1>5. ~PhaseAgreed
  BY <1>3 DEF PhaseAgreed
<1>6. CASE PhaseAwake \/ PhaseRoused
  <2>1. Unaware(f)
    BY <1>3, <1>6 DEF PhaseAwake, PhaseRoused, Aware
  <2>. QED BY <2>1 DEF Unaware, Once
<1>7. CASE PhaseFree
  <2>1. ~Running
    BY <1>2, <1>3 DEF Running
  <2>2. Gathering
    BY <1>1, <1>7, <2>1 DEF GatherInv
  <2>3. Wanted
    BY <1>2, <2>2 DEF Gathering, Wanted, Live, Holds
  <2>4. On(f) \/ Woken(f)
    BY <2>2, <2>3 DEF Gathering
  <2>5. ~Holds(f)
    BY <1>3, <1>7 DEF PhaseFree, Free, Unfinished, Holds
  <2>6. On(f) => cin[f] # <<>>
    BY <1>3, <2>5 DEF On, HasAdd
  <2>7. Woken(f) => \/ kin[f] # <<>> \/ first # <<>>
                    \/ \E g \in Engines : kout[g] # <<>>
    BY DEF Woken, Started, Reports
  <2>. QED BY <2>4, <2>6, <2>7
<1>. QED BY <1>1, <1>4, <1>5, <1>6, <1>7 DEF WInv, Phased

\* The inductive invariant holds always, for any number of ranks, requests and
\* calls and any intervals, when callers respect all of Discipline.
THEOREM SInvAlways == Disciplined /\ Spec => []SInv
<1>1. Disciplined /\ Init => SInv
  BY InitSInv, DPAssumption
<1>2. SInv /\ [Next]_vars => SInv'
  BY NextSInv, DPAssumption
<1>. QED BY <1>1, <1>2, PTL DEF Spec

\* No wake-up is lost: DPEngineCoreProc, the client and the coordinator never
\* leave a rank in a forward pass waiting for an idle one that no message, on
\* its way to it or to the coordinator, will wake.
THEOREM AlwaysNeverStranded == Disciplined /\ Spec => []NeverStranded
<1>1. SInv => NeverStranded
  BY NoneStranded, DPAssumption
<1>. QED BY <1>1, SInvAlways, PTL

=============================================================================
