-------------------------- MODULE DiskSleepProofs --------------------------
(***************************************************************************)
(* Proofs about DiskSleep for every set of ranks and allocations and every *)
(* number of faults: type correctness, that no interleaving of saves,      *)
(* suspends, rollbacks and resumes loses the weights, and, when no batch   *)
(* is in flight as the sleep begins, that requests are only served from    *)
(* intact weights and that no rank unmaps before all have saved.           *)
(***************************************************************************)
EXTENDS DiskSleep, SequenceTheorems, TLAPS

\* DiskSleep keeps its variables well typed.
THEOREM TypeCorrect == Spec => []TypeOK
<1>. USE DiskAssumption DEF TypeOK, Tags
<1>1. Init => TypeOK
  <2>. SUFFICES ASSUME Init PROVE TypeOK
    OBVIOUS
  <2>1. queue \in [Ranks -> Seq(Calls)] /\ reply \in [Ranks -> {"none", "ok", "err"}]
    BY DEF Init
  <2>2. snap \in [Ranks -> BOOLEAN] /\ pend \in BOOLEAN
    BY DEF Init
  <2>. QED BY <2>1, <2>2 DEF Init
<1>2. TypeOK /\ [Next]_vars => TypeOK'
  <2>. SUFFICES ASSUME TypeOK, [Next]_vars PROVE TypeOK'
    OBVIOUS
  <2>. USE DEF control, disk, device, rank
  <2>0. ASSUME NEW c \in Calls, Broadcast(c)
        PROVE  /\ queue' \in [Ranks -> Seq(Calls)]
               /\ reply' \in [Ranks -> {"none", "ok", "err"}]
    BY <2>0 DEF Broadcast
  <2>1. ASSUME NEW r \in Ranks, NEW x \in {"ok", "err"}, queue[r] # <<>>, Finish(r, x)
        PROVE  /\ queue' \in [Ranks -> Seq(Calls)]
               /\ reply' \in [Ranks -> {"none", "ok", "err"}]
    BY <2>1 DEF Finish
  <2>2. /\ Call("prepare") \in Calls /\ Call("cancel") \in Calls /\ Call("suspend") \in Calls
        /\ \A tags \in SUBSET Tags : Resume(tags) \in Calls
    BY DEF Call, Resume, Calls
  <2>3. CASE BeginSleep BY <2>0, <2>2, <2>3 DEF BeginSleep
  <2>4. CASE Prepared BY <2>0, <2>2, <2>4 DEF Prepared
  <2>5. CASE Cancelled BY <2>5 DEF Cancelled
  <2>6. CASE Suspended BY <2>6 DEF Suspended
  <2>7. CASE SuspendFailed BY <2>0, <2>2, <2>7 DEF SuspendFailed
  <2>8. CASE RolledBack BY <2>8 DEF RolledBack
  <2>9. CASE DeferredSleep BY <2>0, <2>2, <2>9 DEF DeferredSleep
  <2>10. CASE DeferredSleepFails BY <2>10 DEF DeferredSleepFails
  <2>11. CASE WakePaused BY <2>11 DEF WakePaused
  <2>12. CASE BeginWake BY <2>0, <2>2, <2>12 DEF BeginWake
  <2>13. ASSUME NEW tags \in SUBSET Tags, BeginManualWake(tags) PROVE TypeOK'
    BY <2>0, <2>2, <2>13 DEF BeginManualWake
  <2>14. CASE Woken BY <2>14 DEF Woken
  <2>15. CASE WakeFails BY <2>15 DEF WakeFails
  <2>20. ASSUME NEW r \in Ranks, Worker(r) PROVE TypeOK'
    <3>1. CASE SaveRegion(r) BY <3>1 DEF SaveRegion, Regions
    <3>2. CASE SaveCommit(r) BY <2>1, <3>2 DEF SaveCommit, Saving, Doing
    <3>3. CASE SaveFails(r) BY <2>1, <3>3 DEF SaveFails, Saving, Doing, Fault, NoSnapshot
    <3>4. CASE PrepareAgain(r) BY <2>1, <3>4 DEF PrepareAgain, Doing
    <3>5. CASE CancelPreparation(r)
      <4>1. queue[r] # <<>> /\ (Finish(r, "ok") \/ Finish(r, "err"))
        BY <3>5 DEF CancelPreparation, Doing
      <4>2. /\ queue' \in [Ranks -> Seq(Calls)]
            /\ reply' \in [Ranks -> {"none", "ok", "err"}]
        BY <2>1, <4>1
      <4>3. UNCHANGED disk \/ NoSnapshot(r)
        BY <3>5 DEF CancelPreparation
      <4>4. faults' \in 0..MaxFaults /\ UNCHANGED <<control, bstate, device, rot>>
        BY <3>5 DEF CancelPreparation, Fault
      <4>. QED BY <4>2, <4>3, <4>4 DEF NoSnapshot
    <3>6. CASE Unmap(r) BY <3>6 DEF Unmap
    <3>7. CASE SuspendDone(r) BY <2>1, <3>7 DEF SuspendDone, Return, Doing, Fault
    <3>8. CASE UnmapFails(r) BY <2>1, <3>8 DEF UnmapFails, Suspending, Doing, Fault
    <3>9. CASE ResumeNothing(r) BY <2>1, <3>9 DEF ResumeNothing, Return, Doing, Fault
    <3>10. CASE ResumeStart(r) BY <3>10 DEF ResumeStart
    <3>11. CASE Restore(r) BY <3>11 DEF Restore
    <3>12. CASE RestoreFails(r) BY <2>1, <3>12 DEF RestoreFails, Resuming, Doing, Fault
    <3>13. CASE ResumeDone(r)
      <4>1. queue[r] # <<>> /\ (Finish(r, "ok") \/ Finish(r, "err")) /\ faults' \in 0..MaxFaults
        BY <3>13 DEF ResumeDone, Resuming, Doing, Return, Fault
      <4>2. /\ queue' \in [Ranks -> Seq(Calls)]
            /\ reply' \in [Ranks -> {"none", "ok", "err"}]
        BY <2>1, <4>1
      <4>3. (UNCHANGED disk \/ NoSnapshot(r)) /\ bstate' \in [Ranks -> {"RUNNING", "SUSPENDED", "RESUMING"}]
            /\ UNCHANGED <<control, device, rot>>
        BY <3>13 DEF ResumeDone
      <4>. QED BY <4>1, <4>2, <4>3 DEF NoSnapshot
    <3>14. CASE BufferFails(r) BY <2>1, <3>14 DEF BufferFails, Doing, Fault
    <3>. QED
      BY <2>20, <3>1, <3>2, <3>3, <3>4, <3>5, <3>6, <3>7, <3>8, <3>9, <3>10, <3>11,
         <3>12, <3>13, <3>14 DEF Worker
  <2>21. ASSUME NEW r \in Ranks, Rot(r) PROVE TypeOK'
    BY <2>21 DEF Rot
  <2>22. CASE UNCHANGED vars BY <2>22 DEF vars
  <2>. QED
    BY <2>3, <2>4, <2>5, <2>6, <2>7, <2>8, <2>9, <2>10, <2>11, <2>12, <2>13, <2>14,
       <2>15, <2>20, <2>21, <2>22 DEF Next, Engine, Returns, Gone
<1>. QED BY <1>1, <1>2, PTL DEF Spec


-----------------------------------------------------------------------------
(* No weights are lost.                                                    *)

\* What each rank maintains on its own, whatever the engine asks of it.
\* Without a snapshot everything is mapped and intact; with one, all weights
\* are in it and the mapped ones are intact.  Only a suspend under way leaves
\* a rank that calls itself RUNNING with something unmapped, so cancelling a
\* preparation never drops the last copy.
RankInv(r) ==
  /\ copy[r] = saved[r]
  /\ ~ snap[r] => asleep[r] = {} /\ good[r] = Weights
  /\ snap[r] => saved[r] = Weights /\ Weights \ asleep[r] \subseteq good[r]
  /\ bstate[r] = "RUNNING" /\ asleep[r] # {} => Doing(r, "suspend")

SnapshotInv == \A r \in Ranks : RankInv(r)

\* A step that leaves a rank's own state alone, and at most adds to its
\* queue, preserves what the rank maintains.
LEMMA RankUntouched ==
  ASSUME TypeOK, NEW r \in Ranks, RankInv(r),
         bstate'[r] = bstate[r], snap'[r] = snap[r], saved'[r] = saved[r],
         copy'[r] = copy[r], asleep'[r] = asleep[r], good'[r] = good[r],
         queue'[r] = queue[r] \/ \E c \in Calls : queue'[r] = Append(queue[r], c)
  PROVE  RankInv(r)'
<1>1. Doing(r, "suspend") => Doing(r, "suspend")'
  <2>. HAVE Doing(r, "suspend")
  <2>1. CASE queue'[r] = queue[r] BY <2>1 DEF Doing
  <2>2. ASSUME NEW c \in Calls, queue'[r] = Append(queue[r], c)
        PROVE  Doing(r, "suspend")'
    <3>1. queue[r] \in Seq(Calls) /\ queue[r] # <<>> BY DEF TypeOK, Doing
    <3>2. Append(queue[r], c) # <<>> /\ Head(Append(queue[r], c)) = Head(queue[r])
      BY <3>1
    <3>. QED BY <2>2, <3>2 DEF Doing
  <2>. QED BY <2>1, <2>2
<1>. QED BY <1>1 DEF RankInv

\* A step of one rank, or a file of its that rots, leaves the other ranks alone.
LEMMA OtherRanks ==
  ASSUME TypeOK, NEW q \in Ranks, Worker(q) \/ Rot(q), NEW r \in Ranks, q # r
  PROVE  /\ bstate'[r] = bstate[r] /\ snap'[r] = snap[r] /\ saved'[r] = saved[r]
         /\ copy'[r] = copy[r] /\ asleep'[r] = asleep[r] /\ good'[r] = good[r]
         /\ queue'[r] = queue[r] /\ reply'[r] = reply[r]
<1>. USE DEF TypeOK, disk, device
<1>0. ASSUME Finish(q, "ok") \/ Finish(q, "err")
      PROVE  queue'[r] = queue[r] /\ reply'[r] = reply[r]
  BY <1>0 DEF Finish
<1>1. CASE SaveRegion(q) BY <1>1 DEF SaveRegion
<1>2. CASE SaveCommit(q) BY <1>0, <1>2 DEF SaveCommit
<1>3. CASE SaveFails(q) BY <1>0, <1>3 DEF SaveFails, NoSnapshot
<1>4. CASE PrepareAgain(q) BY <1>0, <1>4 DEF PrepareAgain
<1>5. CASE CancelPreparation(q) BY <1>0, <1>5 DEF CancelPreparation, NoSnapshot
<1>6. CASE Unmap(q) BY <1>6 DEF Unmap
<1>7. CASE SuspendDone(q) BY <1>0, <1>7 DEF SuspendDone, Return
<1>8. CASE UnmapFails(q) BY <1>0, <1>8 DEF UnmapFails
<1>9. CASE ResumeNothing(q) BY <1>0, <1>9 DEF ResumeNothing, Return
<1>10. CASE ResumeStart(q) BY <1>10 DEF ResumeStart
<1>11. CASE Restore(q) BY <1>11 DEF Restore
<1>12. CASE RestoreFails(q) BY <1>0, <1>12 DEF RestoreFails
<1>13. CASE ResumeDone(q) BY <1>0, <1>13 DEF ResumeDone, Return, NoSnapshot
<1>14. CASE Rot(q) BY <1>14 DEF Rot
<1>15. CASE BufferFails(q) BY <1>0, <1>15 DEF BufferFails
<1>. QED
  BY <1>1, <1>2, <1>3, <1>4, <1>5, <1>6, <1>7, <1>8, <1>9, <1>10, <1>11, <1>12, <1>13, <1>14,
     <1>15
  DEF Worker

\* The invariant of the ranks is inductive.
LEMMA SnapshotInvStep == TypeOK /\ SnapshotInv /\ [Next]_vars => SnapshotInv'
<1>. SUFFICES ASSUME TypeOK, SnapshotInv, [Next]_vars, NEW r \in Ranks
              PROVE  RankInv(r)'
  BY DEF SnapshotInv
<1>0. RankInv(r) BY DEF SnapshotInv
<1>. DEFINE Untouched ==
       /\ bstate'[r] = bstate[r] /\ snap'[r] = snap[r] /\ saved'[r] = saved[r]
       /\ copy'[r] = copy[r] /\ asleep'[r] = asleep[r] /\ good'[r] = good[r]
       /\ queue'[r] = queue[r] \/ \E c \in Calls : queue'[r] = Append(queue[r], c)
<1>1. CASE Engine
  <2>. USE DEF rank, disk, device
  <2>1. ASSUME NEW c \in Calls, Broadcast(c)
        PROVE  queue'[r] = Append(queue[r], c)
    BY <2>1 DEF Broadcast
  <2>2. /\ Call("prepare") \in Calls /\ Call("cancel") \in Calls /\ Call("suspend") \in Calls
        /\ \A tags \in SUBSET Tags : Resume(tags) \in Calls
    BY DEF Call, Resume, Calls
  <2>3. UNCHANGED rank
    BY <1>1 DEF Engine, Returns, BeginSleep, Prepared, Cancelled, Suspended,
       SuspendFailed, RolledBack, DeferredSleep, DeferredSleepFails, WakePaused,
       BeginWake, BeginManualWake, Woken, WakeFails
  <2>4. queue' = queue \/ \E c \in Calls : Broadcast(c)
    BY <1>1, <2>2 DEF Engine, Returns, BeginSleep, Prepared, Cancelled, Suspended,
       SuspendFailed, RolledBack, DeferredSleep, DeferredSleepFails, WakePaused,
       BeginWake, BeginManualWake, Woken, WakeFails
  <2>5. Untouched BY <2>1, <2>3, <2>4
  <2>. QED BY <1>0, <2>5, RankUntouched
<1>2. ASSUME NEW q \in Ranks, Worker(q) \/ Rot(q), q # r PROVE RankInv(r)'
  <2>1. Untouched BY <1>2, OtherRanks
  <2>. QED BY <1>0, <2>1, RankUntouched
<1>3. CASE Worker(r)
  <2>. USE <1>0 DEF TypeOK, RankInv, disk, device
  <2>1. CASE SaveRegion(r) BY <2>1 DEF SaveRegion, Saving, Doing, Regions
  <2>2. CASE SaveCommit(r) BY <2>2 DEF SaveCommit, Saving, Regions
  <2>3. CASE SaveFails(r) BY <2>3 DEF SaveFails, Saving, NoSnapshot
  <2>4. CASE PrepareAgain(r) BY <2>4 DEF PrepareAgain, Doing
  <2>5. CASE CancelPreparation(r) BY <2>5, ZenonT(60) DEF CancelPreparation, NoSnapshot, Doing
  <2>6. CASE Unmap(r) BY <2>6 DEF Unmap, Suspending, Doing
  <2>7. CASE SuspendDone(r) BY <2>7 DEF SuspendDone
  <2>14. CASE BufferFails(r) BY <2>14 DEF BufferFails
  <2>8. CASE UnmapFails(r) BY <2>8 DEF UnmapFails
  <2>9. CASE ResumeNothing(r) BY <2>9 DEF ResumeNothing
  <2>10. CASE ResumeStart(r) BY <2>10 DEF ResumeStart
  <2>11. CASE Restore(r) BY <2>11 DEF Restore, Resuming
  <2>12. CASE RestoreFails(r) BY <2>12 DEF RestoreFails
  <2>13. CASE ResumeDone(r) BY <2>13, ZenonT(60) DEF ResumeDone, Resuming, NoSnapshot
  <2>. QED
    BY <1>3, <2>1, <2>2, <2>3, <2>4, <2>5, <2>6, <2>7, <2>8, <2>9, <2>10, <2>11, <2>12,
       <2>13, <2>14 DEF Worker
<1>4. CASE Rot(r)
  <2>1. Untouched BY <1>4 DEF Rot, device
  <2>. QED BY <1>0, <2>1, RankUntouched
<1>5. CASE UNCHANGED vars
  <2>1. Untouched BY <1>5 DEF vars
  <2>. QED BY <1>0, <2>1, RankUntouched
<1>. QED BY <1>1, <1>2, <1>3, <1>4, <1>5 DEF Next, Gone

\* At every moment each weight allocation is mapped and intact or in its rank's
\* committed snapshot, for any number of ranks, allocations and faults.
THEOREM NoWeightsLost == Spec => []NothingLost
<1>1. Init => SnapshotInv
  BY DEF Init, SnapshotInv, RankInv
<1>2. TypeOK /\ SnapshotInv => NothingLost
  BY DEF TypeOK, SnapshotInv, RankInv, NothingLost
<1>. QED BY <1>1, <1>2, SnapshotInvStep, TypeCorrect, PTL DEF Spec


-----------------------------------------------------------------------------
(* DiskSleep implements WeightStore.                                       *)

\* With the rank's invariant, a weight is on the device unless it is asleep,
\* and on disk exactly when there is a snapshot.
LEMMA PlaceOf ==
  ASSUME TypeOK, NEW r \in Ranks, RankInv(r), NEW a \in Weights
  PROVE  Place(r, a) = (IF a \in asleep[r] THEN {} ELSE {"device"})
                         \cup (IF snap[r] THEN {"disk"} ELSE {})
<1>1. a \in good[r] \ asleep[r] <=> a \notin asleep[r] BY DEF RankInv
<1>2. snap[r] /\ a \in copy[r] <=> snap[r] BY DEF RankInv
<1>. QED BY <1>1, <1>2 DEF Place

\* A step that leaves a rank's snapshot and mapped weights alone moves nothing.
LEMMA PlaceUntouched ==
  ASSUME TypeOK, TypeOK', NEW r \in Ranks, RankInv(r), RankInv(r)',
         snap'[r] = snap[r], asleep'[r] \cap Weights = asleep[r] \cap Weights,
         NEW a \in Weights
  PROVE  Place(r, a)' = Place(r, a)
<1>1. Place(r, a) = (IF a \in asleep[r] THEN {} ELSE {"device"})
                      \cup (IF snap[r] THEN {"disk"} ELSE {})
  BY PlaceOf
<1>2. Place(r, a)' = (IF a \in asleep'[r] THEN {} ELSE {"device"})
                       \cup (IF snap'[r] THEN {"disk"} ELSE {})
  <2>1. a \in good'[r] \ asleep'[r] <=> a \notin asleep'[r] BY DEF RankInv
  <2>2. snap'[r] /\ a \in copy'[r] <=> snap'[r] BY DEF RankInv
  <2>. QED BY <2>1, <2>2 DEF Place
<1>3. a \in asleep'[r] <=> a \in asleep[r] OBVIOUS
<1>. QED BY <1>1, <1>2, <1>3

\* What a rank's step does to its snapshot and its mapped weights: nothing, or
\* one of the four moves of WeightStore.
Stays(r) == snap'[r] = snap[r] /\ asleep'[r] \cap Weights = asleep[r] \cap Weights
Saves(r) == ~ snap[r] /\ snap'[r] /\ asleep'[r] = asleep[r]
Discards(r) == snap[r] /\ ~ snap'[r] /\ asleep[r] = {}
Unloads(r, a) == snap[r] /\ snap'[r] /\ asleep'[r] = asleep[r] \cup {a}
Loads(r, a) == snap[r] /\ snap'[r] /\ asleep'[r] = asleep[r] \ {a}

\* A step of a worker, or a file that rots, is one of these moves on its rank.
LEMMA WorkerMoves ==
  ASSUME TypeOK, NEW r \in Ranks, RankInv(r), Worker(r) \/ Rot(r)
  PROVE  \/ Stays(r) \/ Saves(r) \/ Discards(r)
         \/ \E a \in Weights : Unloads(r, a) \/ Loads(r, a)
<1>. USE DEF TypeOK, disk, device
<1>1. CASE SaveRegion(r) BY <1>1 DEF SaveRegion, Stays
<1>2. CASE SaveCommit(r) BY <1>2 DEF SaveCommit, Saving, Saves
<1>3. CASE SaveFails(r) BY <1>3 DEF SaveFails, Saving, NoSnapshot, Stays
<1>4. CASE PrepareAgain(r) BY <1>4 DEF PrepareAgain, Stays
<1>5. CASE CancelPreparation(r)
  <2>1. asleep'[r] = asleep[r] BY <1>5 DEF CancelPreparation
  <2>2. CASE bstate[r] # "RUNNING"
    BY <1>5, <2>1, <2>2 DEF CancelPreparation, Stays
  <2>3. CASE bstate[r] = "RUNNING"
    <3>1. snap'[r] = FALSE BY <1>5, <2>3 DEF CancelPreparation, NoSnapshot
    <3>2. asleep[r] = {} BY <1>5, <2>3 DEF CancelPreparation, RankInv, Doing
    <3>3. CASE snap[r] = TRUE BY <3>1, <3>2, <3>3 DEF Discards
    <3>4. CASE snap[r] = FALSE BY <2>1, <3>1, <3>4 DEF Stays
    <3>. QED BY <3>3, <3>4
  <2>. QED BY <2>2, <2>3
<1>6. CASE Unmap(r)
  <2>1. PICK a \in Allocs \ asleep[r] :
          asleep'[r] = asleep[r] \cup {a} /\ snap[r] /\ snap'[r] = snap[r]
    BY <1>6 DEF Unmap, Suspending
  <2>. QED BY <2>1 DEF Unloads, Stays
<1>7. CASE SuspendDone(r) BY <1>7 DEF SuspendDone, Stays
<1>8. CASE UnmapFails(r) BY <1>8 DEF UnmapFails, Stays
<1>9. CASE ResumeNothing(r) BY <1>9 DEF ResumeNothing, Stays
<1>10. CASE ResumeStart(r) BY <1>10 DEF ResumeStart, Stays
<1>11. CASE Restore(r)
  <2>1. PICK a \in asleep[r] :
          asleep'[r] = asleep[r] \ {a} /\ snap[r] /\ snap'[r] = snap[r]
    BY <1>11 DEF Restore, Resuming, ToRestore
  <2>. QED BY <2>1 DEF Loads, Stays
<1>12. CASE RestoreFails(r) BY <1>12 DEF RestoreFails, Stays
<1>13. CASE ResumeDone(r)
  <2>1. snap[r] /\ asleep'[r] = asleep[r] BY <1>13 DEF ResumeDone, Resuming
  <2>2. CASE asleep[r] # {} BY <1>13, <2>1, <2>2 DEF ResumeDone, Stays
  <2>3. CASE asleep[r] = {}
    <3>1. ~ snap'[r] BY <1>13, <2>3 DEF ResumeDone, NoSnapshot
    <3>. QED BY <2>1, <2>3, <3>1 DEF Discards
  <2>. QED BY <2>2, <2>3
<1>14. CASE Rot(r) BY <1>14 DEF Rot, Stays
<1>15. CASE BufferFails(r) BY <1>15 DEF BufferFails, Stays
<1>. QED
  BY <1>1, <1>2, <1>3, <1>4, <1>5, <1>6, <1>7, <1>8, <1>9, <1>10, <1>11, <1>12, <1>13, <1>14,
     <1>15
  DEF Worker

\* Every step of DiskSleep moves the weights of at most one rank, and by a step
\* of WeightStore.
LEMMA StoreStep ==
  ASSUME TypeOK, TypeOK', SnapshotInv, SnapshotInv', [Next]_vars
  PROVE  [Store!Next]_[r \in Ranks |-> [a \in Weights |-> Place(r, a)]]
<1>. DEFINE P == [r \in Ranks |-> [a \in Weights |-> Place(r, a)]]
<1>1. \A r \in Ranks : RankInv(r) /\ RankInv(r)' BY DEF SnapshotInv
<1>2. ASSUME NEW r \in Ranks, Stays(r), NEW a \in Weights
      PROVE  Place(r, a)' = Place(r, a)
  BY <1>1, <1>2, PlaceUntouched DEF Stays
<1>3. ASSUME \A r \in Ranks : Stays(r) PROVE P' = P
  BY <1>2, <1>3
<1>4. CASE Engine
  <2>1. UNCHANGED rank
    BY <1>4 DEF Engine, Returns, BeginSleep, Prepared, Cancelled, Suspended,
       SuspendFailed, RolledBack, DeferredSleep, DeferredSleepFails, WakePaused,
       BeginWake, BeginManualWake, Woken, WakeFails
  <2>. QED BY <1>3, <2>1 DEF rank, disk, device, Stays
<1>5. CASE UNCHANGED vars BY <1>3, <1>5 DEF vars, Stays
<1>6. ASSUME NEW q \in Ranks, Worker(q) \/ Rot(q)
      PROVE  Store!Next \/ P' = P
  <2>1. \A r \in Ranks \ {q} : Stays(r)
    BY <1>6, OtherRanks DEF Stays
  <2>2. \A r \in Ranks \ {q} : \A a \in Weights : Place(r, a)' = Place(r, a)
    BY <1>2, <2>1
  <2>3. \A a \in Weights :
          /\ Place(q, a) = (IF a \in asleep[q] THEN {} ELSE {"device"})
                             \cup (IF snap[q] THEN {"disk"} ELSE {})
          /\ Place(q, a)' = (IF a \in asleep'[q] THEN {} ELSE {"device"})
                              \cup (IF snap'[q] THEN {"disk"} ELSE {})
    <3>. SUFFICES ASSUME NEW a \in Weights
                  PROVE  /\ Place(q, a) = (IF a \in asleep[q] THEN {} ELSE {"device"})
                             \cup (IF snap[q] THEN {"disk"} ELSE {})
                         /\ Place(q, a)' = (IF a \in asleep'[q] THEN {} ELSE {"device"})
                              \cup (IF snap'[q] THEN {"disk"} ELSE {})
      OBVIOUS
    <3>1. a \in good'[q] \ asleep'[q] <=> a \notin asleep'[q] BY <1>1 DEF RankInv
    <3>2. snap'[q] /\ a \in copy'[q] <=> snap'[q] BY <1>1 DEF RankInv
    <3>. QED BY <1>1, <3>1, <3>2, PlaceOf DEF Place
  <2>4. CASE Stays(q) BY <1>3, <2>1, <2>4
  <2>5. CASE Saves(q)
    <3>1. asleep[q] = {} BY <1>1, <2>5 DEF Saves, RankInv
    <3>2. \A a \in Weights : "device" \in P[q][a] /\ Place(q, a)' = {"device", "disk"}
      BY <2>3, <2>5, <3>1 DEF Saves
    <3>3. P' = [P EXCEPT ![q] = [a \in Weights |-> {"device", "disk"}]]
      BY <2>2, <3>2
    <3>. QED BY <3>2, <3>3 DEF Store!Next, Store!Save, Store!OnDevice
  <2>6. CASE Discards(q)
    <3>1. asleep'[q] = {} BY <1>1, <2>6 DEF Discards, RankInv
    <3>2. \A a \in Weights : "device" \in P[q][a] /\ Place(q, a)' = {"device"}
      BY <2>3, <2>6, <3>1 DEF Discards
    <3>3. P' = [P EXCEPT ![q] = [a \in Weights |-> {"device"}]]
      BY <2>2, <3>2
    <3>. QED BY <3>2, <3>3 DEF Store!Next, Store!Discard, Store!OnDevice
  <2>7. ASSUME NEW b \in Weights, Unloads(q, b) PROVE Store!Next
    <3>1. "disk" \in P[q][b] /\ Place(q, b)' = {"disk"}
      BY <2>3, <2>7 DEF Unloads
    <3>2. \A a \in Weights \ {b} : Place(q, a)' = Place(q, a)
      BY <2>3, <2>7 DEF Unloads
    <3>3. P' = [P EXCEPT ![q][b] = {"disk"}]
      BY <2>2, <3>1, <3>2
    <3>. QED BY <3>1, <3>3 DEF Store!Next, Store!Unload
  <2>8. ASSUME NEW b \in Weights, Loads(q, b) PROVE Store!Next
    <3>1. "disk" \in P[q][b] /\ Place(q, b)' = {"device", "disk"}
      BY <2>3, <2>8 DEF Loads
    <3>2. \A a \in Weights \ {b} : Place(q, a)' = Place(q, a)
      BY <2>3, <2>8 DEF Loads
    <3>3. P' = [P EXCEPT ![q][b] = {"device", "disk"}]
      BY <2>2, <3>1, <3>2
    <3>. QED BY <3>1, <3>3 DEF Store!Next, Store!Load
  <2>. QED BY <1>1, <1>6, <2>4, <2>5, <2>6, <2>7, <2>8, WorkerMoves
<1>. QED BY <1>3, <1>4, <1>5, <1>6 DEF Next, Gone

\* DiskSleep implements WeightStore, for every set of ranks and allocations and
\* every number of faults: the snapshots of disk_sleep.py are all or nothing, and
\* the weights are never anywhere but on the device, on disk or on both.
THEOREM ImplementsStore == Spec => KeepsStore
<1>1. Init => SnapshotInv
  BY DEF Init, SnapshotInv, RankInv
<1>2. Init => Store!Init
  BY DEF Init, Store!Init, Place
<1>3. TypeOK /\ TypeOK' /\ SnapshotInv /\ SnapshotInv' /\ [Next]_vars
        => [Store!Next]_[r \in Ranks |-> [a \in Weights |-> Place(r, a)]]
  BY StoreStep
<1>. QED BY <1>1, <1>2, <1>3, SnapshotInvStep, TypeCorrect, PTL DEF Spec, KeepsStore, Store!Spec


-----------------------------------------------------------------------------
(* Serving intact, and the two phases, when no batch is ever in flight.    *)

\* The calls a rank may still have to finish in each phase of the engine, and
\* what the replies so far say about the rank.
Asked(r) ==
  /\ reply[r] # "none" => queue[r] = <<>>
  /\ phase = "serving" => queue[r] = <<>> /\ asleep[r] = {}
  /\ phase = "prepare" =>
       /\ queue[r] \in {<<>>, <<Call("prepare")>>} /\ asleep[r] = {}
       /\ reply[r] = "ok" => snap[r]
  /\ phase = "cancel" => queue[r] \in {<<>>, <<Call("cancel")>>} /\ asleep[r] = {}
  /\ phase = "suspend" => queue[r] \in {<<>>, <<Call("suspend")>>} /\ snap[r]
  /\ phase = "rollback" =>
       /\ queue[r] \in {<<>>, <<Resume(Tags)>>, <<Call("suspend"), Resume(Tags)>>}
       /\ reply[r] = "ok" => asleep[r] = {}
  /\ phase \in {"sleeping", "wake", "manual"} =>
       /\ \A i \in 1..Len(queue[r]) : queue[r][i].call = "resume"
       /\ asleep[r] \cap Tagged(Tags \ execTags) = {}
  /\ phase \in {"wake", "manual"} =>
       /\ queue[r] # <<>> => queue[r][Len(queue[r])] = Resume(waking)
       /\ reply[r] = "ok" => asleep[r] \cap Tagged(waking) = {}

ControlInv ==
  /\ phase \notin {"deferred", "late", "paused"} /\ ~ pend
  /\ \A r \in Ranks : Asked(r)


\* Removing the call at the head of a queue of resumes.
LEMMA TailOfResumes ==
  ASSUME NEW q \in Seq(Calls), q # <<>>,
         \A i \in 1..Len(q) : q[i].call = "resume"
  PROVE  /\ Tail(q) \in Seq(Calls) /\ Head(q) = q[1]
         /\ \A i \in 1..Len(Tail(q)) : Tail(q)[i].call = "resume"
         /\ Len(q) = 1 <=> Tail(q) = <<>>
         /\ Tail(q) # <<>> => Tail(q)[Len(Tail(q))] = q[Len(q)]
<1>1. /\ Tail(q) \in Seq(Calls) /\ Head(q) = q[1] /\ Len(q) \in Nat \ {0}
      /\ Len(Tail(q)) = Len(q) - 1
      /\ \A i \in 1..Len(Tail(q)) : Tail(q)[i] = q[i + 1]
  OBVIOUS
<1>2. \A i \in 1..Len(Tail(q)) : i + 1 \in 1..Len(q) BY <1>1
<1>3. Tail(q) = <<>> <=> Len(Tail(q)) = 0 BY <1>1, EmptySeq
<1>4. Tail(q) # <<>> => Len(Tail(q)) \in 1..Len(Tail(q)) BY <1>1, <1>3
<1>. QED BY <1>1, <1>2, <1>3, <1>4

\* Adding a call at the end of one.
LEMMA AppendResume ==
  ASSUME NEW q \in Seq(Calls), NEW c \in Calls, c.call = "resume",
         \A i \in 1..Len(q) : q[i].call = "resume"
  PROVE  /\ Append(q, c) # <<>>
         /\ \A i \in 1..Len(Append(q, c)) : Append(q, c)[i].call = "resume"
         /\ Append(q, c)[Len(Append(q, c))] = c
  OBVIOUS

\* What a rank is doing tells the phase of the engine.
LEMMA PhaseOfCall ==
  ASSUME TypeOK, ControlInv, phase # "dead", NEW r \in Ranks
  PROVE  /\ Doing(r, "prepare") => phase = "prepare" /\ queue[r] = <<Call("prepare")>>
         /\ Doing(r, "cancel") => phase = "cancel" /\ queue[r] = <<Call("cancel")>>
         /\ Doing(r, "suspend") =>
              \/ phase = "suspend" /\ queue[r] = <<Call("suspend")>>
              \/ phase = "rollback" /\ queue[r] = <<Call("suspend"), Resume(Tags)>>
         /\ Doing(r, "resume") =>
              \/ phase = "rollback" /\ queue[r] = <<Resume(Tags)>>
              \/ phase \in {"sleeping", "wake", "manual"}
<1>1. Asked(r) /\ phase \notin {"deferred", "late", "paused"} BY DEF ControlInv
<1>2. queue[r] \in Seq(Calls) BY DEF TypeOK
<1>3. phase \in {"sleeping", "wake", "manual"} /\ queue[r] # <<>>
        => Head(queue[r]).call = "resume"
  BY <1>1, <1>2 DEF Asked
<1>. QED BY <1>1, <1>2, <1>3 DEF Asked, Doing, TypeOK, Call, Resume

\* Allocations of both tags are all there are.
LEMMA TaggedFacts ==
  /\ Tagged(Tags) = Allocs
  /\ \A S, T \in SUBSET Tags : Tagged(S \cup T) = Tagged(S) \cup Tagged(T)
BY DEF Tagged, Tags, Allocs


\* Queues of one and of two calls.
LEMMA TwoCalls ==
  ASSUME NEW c \in Calls, NEW d \in Calls
  PROVE  Append(<<>>, c) = <<c>> /\ Append(<<c>>, d) = <<c, d>>
<1>1. Append(<<>>, c) = <<c>> OBVIOUS
<1>2. <<c>> \in Seq(Calls) /\ <<c, d>> \in Seq(Calls) /\ Append(<<c>>, d) \in Seq(Calls)
  OBVIOUS
<1>3. Len(Append(<<c>>, d)) = 2 /\ Len(<<c, d>>) = 2 OBVIOUS
<1>4. Append(<<c>>, d)[1] = c /\ Append(<<c>>, d)[2] = d OBVIOUS
<1>5. <<c, d>>[1] = c /\ <<c, d>>[2] = d OBVIOUS
<1>6. \A i \in 1..2 : i = 1 \/ i = 2 OBVIOUS
<1>. QED BY <1>1, <1>2, <1>3, <1>4, <1>5, <1>6, SeqEqual, Zenon

\* A rank is only concerned by its own steps and by the engine's.
LEMMA AskedUntouched ==
  ASSUME NEW r \in Ranks, Asked(r), UNCHANGED control,
         queue'[r] = queue[r], reply'[r] = reply[r],
         snap'[r] = snap[r], asleep'[r] = asleep[r]
  PROVE  Asked(r)'
BY DEF Asked, control

\* The engine's steps: a collective call finds the ranks in the state its
\* phase promises.
LEMMA EngineControl ==
  ASSUME ~ inFlight, TypeOK, SnapshotInv, ControlInv, Engine
  PROVE  ControlInv'
<1>. USE DEF TypeOK, rank, disk, device
<1>1. \A r \in Ranks : Asked(r) BY DEF ControlInv
<1>2. phase \notin {"deferred", "late", "paused"} /\ ~ pend BY DEF ControlInv
<1>3. \A r \in Ranks : RankInv(r) BY DEF SnapshotInv
<1>4. ASSUME NEW c, Broadcast(c), NEW r \in Ranks
      PROVE  queue'[r] = Append(queue[r], c) /\ reply'[r] = "none"
  BY <1>4 DEF Broadcast
<1>5. /\ Append(<<>>, Call("prepare")) = <<Call("prepare")>>
      /\ Append(<<>>, Call("cancel")) = <<Call("cancel")>>
      /\ Append(<<>>, Call("suspend")) = <<Call("suspend")>>
      /\ Append(<<>>, Resume(Tags)) = <<Resume(Tags)>>
      /\ Append(<<Call("suspend")>>, Resume(Tags)) = <<Call("suspend"), Resume(Tags)>>
  <2>1. /\ Call("prepare") \in Calls /\ Call("cancel") \in Calls
        /\ Call("suspend") \in Calls /\ Resume(Tags) \in Calls
    BY DEF Call, Resume, Calls
  <2>. QED BY <2>1, TwoCalls
<1>6. CASE BeginSleep
  <2>. SUFFICES ASSUME NEW r \in Ranks PROVE Asked(r)'
    BY <1>2, <1>6 DEF BeginSleep, ControlInv
  <2>1. queue[r] = <<>> /\ asleep[r] = {}
    BY <1>1, <1>6 DEF BeginSleep, Asked
  <2>2. reply'[r] = "none" /\ queue'[r] = Append(queue[r], Call("prepare"))
    BY <1>4, <1>6 DEF BeginSleep
  <2>3. phase' = "prepare" /\ snap'[r] = snap[r] /\ asleep'[r] = asleep[r]
    BY <1>6 DEF BeginSleep
  <2>. QED BY <1>5, <2>1, <2>2, <2>3 DEF Asked
<1>7. CASE Prepared
  <2>. SUFFICES ASSUME NEW r \in Ranks PROVE Asked(r)'
    BY <1>2, <1>7 DEF Prepared, ControlInv
  <2>1. queue[r] = <<>> /\ asleep[r] = {} /\ (AllOk => snap[r])
    BY <1>1, <1>7 DEF Prepared, AllReplied, AllOk, Asked
  <2>2. snap'[r] = snap[r] /\ asleep'[r] = asleep[r]
    BY <1>7 DEF Prepared
  <2>3. CASE AllOk /\ Broadcast(Call("suspend")) /\ phase' = "suspend" /\ UNCHANGED pend
    <3>1. reply'[r] = "none" /\ queue'[r] = <<Call("suspend")>>
      BY <1>4, <1>5, <2>1, <2>3
    <3>. QED BY <1>2, <2>1, <2>2, <2>3, <3>1 DEF Asked
  <2>4. CASE Broadcast(Call("cancel")) /\ phase' = "cancel" /\ UNCHANGED pend
    <3>1. reply'[r] = "none" /\ queue'[r] = <<Call("cancel")>>
      BY <1>4, <1>5, <2>1, <2>4
    <3>. QED BY <1>2, <2>1, <2>2, <2>4, <3>1 DEF Asked
  <2>. QED BY <1>7, <2>3, <2>4 DEF Prepared
<1>8. CASE Cancelled
  BY <1>1, <1>2, <1>8 DEF Cancelled, ControlInv, Asked, AllReplied
<1>9. CASE Suspended
  <2>. SUFFICES ASSUME NEW r \in Ranks PROVE Asked(r)'
    BY <1>2, <1>9 DEF Suspended, ControlInv
  <2>1. queue[r] = <<>> BY <1>1, <1>9 DEF Suspended, AllOk, Asked
  <2>2. phase' = "sleeping" /\ execTags' = Tags /\ queue' = queue /\ asleep' = asleep
    BY <1>9 DEF Suspended
  <2>3. asleep[r] \cap Tagged(Tags \ Tags) = {} BY DEF Tagged
  <2>4. \A i \in 1..Len(queue[r]) : queue[r][i].call = "resume" BY <2>1
  <2>. QED BY <2>1, <2>2, <2>3, <2>4 DEF Asked
<1>10. CASE SuspendFailed
  <2>. SUFFICES ASSUME NEW r \in Ranks PROVE Asked(r)'
    BY <1>2, <1>10 DEF SuspendFailed, ControlInv
  <2>1. queue[r] \in {<<>>, <<Call("suspend")>>}
    BY <1>1, <1>10 DEF SuspendFailed, Asked
  <2>2. reply'[r] = "none" /\ queue'[r] = Append(queue[r], Resume(Tags))
    BY <1>4, <1>10 DEF SuspendFailed
  <2>3. phase' = "rollback" /\ snap'[r] = snap[r] /\ asleep'[r] = asleep[r]
    BY <1>10 DEF SuspendFailed
  <2>. QED BY <1>5, <2>1, <2>2, <2>3 DEF Asked
<1>11. CASE RolledBack
  BY <1>1, <1>2, <1>11 DEF RolledBack, ControlInv, Asked, AllOk
<1>12. CASE BeginWake
  <2>. SUFFICES ASSUME NEW r \in Ranks PROVE Asked(r)'
    BY <1>2, <1>12 DEF BeginWake, ControlInv
  <2>1. Resume(Tags) \in Calls /\ Resume(Tags).call = "resume" BY DEF Resume, Calls
  <2>2. queue[r] \in Seq(Calls) /\ \A i \in 1..Len(queue[r]) : queue[r][i].call = "resume"
    BY <1>1, <1>12 DEF BeginWake, Asked
  <2>3. queue'[r] = Append(queue[r], Resume(Tags)) /\ reply'[r] = "none"
    BY <1>4, <1>12 DEF BeginWake
  <2>4. /\ queue'[r] # <<>>
        /\ \A i \in 1..Len(queue'[r]) : queue'[r][i].call = "resume"
        /\ queue'[r][Len(queue'[r])] = Resume(Tags)
    <3>. DEFINE q == queue[r]
    <3>. HIDE DEF q
    <3>1. q \in Seq(Calls) /\ \A i \in 1..Len(q) : q[i].call = "resume" BY <2>2 DEF q
    <3>2. /\ Append(q, Resume(Tags)) # <<>>
          /\ \A i \in 1..Len(Append(q, Resume(Tags))) : Append(q, Resume(Tags))[i].call = "resume"
          /\ Append(q, Resume(Tags))[Len(Append(q, Resume(Tags)))] = Resume(Tags)
      BY ONLY <2>1, <3>1, AppendResume
    <3>. QED BY <2>3, <3>2, Zenon DEF q
  <2>. QED BY <1>1, <1>12, <2>3, <2>4 DEF BeginWake, Asked
<1>13. ASSUME NEW tags \in SUBSET Tags, BeginManualWake(tags) PROVE ControlInv'
  <2>. SUFFICES ASSUME NEW r \in Ranks PROVE Asked(r)'
    BY <1>2, <1>13 DEF BeginManualWake, ControlInv
  <2>1. Resume(tags) \in Calls /\ Resume(tags).call = "resume" BY DEF Resume, Calls
  <2>2. queue[r] \in Seq(Calls) /\ \A i \in 1..Len(queue[r]) : queue[r][i].call = "resume"
    BY <1>1, <1>13 DEF BeginManualWake, Asked
  <2>3. queue'[r] = Append(queue[r], Resume(tags)) /\ reply'[r] = "none"
    BY <1>4, <1>13 DEF BeginManualWake
  <2>4. /\ queue'[r] # <<>>
        /\ \A i \in 1..Len(queue'[r]) : queue'[r][i].call = "resume"
        /\ queue'[r][Len(queue'[r])] = Resume(tags)
    BY <2>1, <2>2, <2>3, AppendResume
  <2>. QED BY <1>1, <1>13, <2>3, <2>4 DEF BeginManualWake, Asked
<1>14. CASE Woken
  <2>. SUFFICES ASSUME NEW r \in Ranks PROVE Asked(r)'
    BY <1>2, <1>14 DEF Woken, ControlInv
  <2>1. queue[r] = <<>> /\ reply[r] = "ok"
    BY <1>1, <1>14 DEF Woken, AllOk, Asked
  <2>2. asleep[r] \cap Tagged(Tags \ execTags) = {} /\ asleep[r] \cap Tagged(waking) = {}
    BY <1>1, <1>14, <2>1 DEF Woken, Asked
  <2>3. Tags \ execTags' = (Tags \ execTags) \cup waking
    BY <1>14 DEF Woken
  <2>4. Tagged(Tags \ execTags') = Tagged(Tags \ execTags) \cup Tagged(waking)
    BY <2>3, TaggedFacts
  <2>5. asleep[r] \cap Tagged(Tags \ execTags') = {}
    BY <2>2, <2>4
  <2>6. execTags' = {} => asleep[r] = {}
    <3>. HAVE execTags' = {}
    <3>1. Tags \ execTags' = Tags OBVIOUS
    <3>2. asleep[r] \cap Allocs = {} BY <2>5, <3>1, TaggedFacts
    <3>. QED BY <3>2
  <2>7. /\ phase' = IF execTags' = {} THEN "serving" ELSE "sleeping"
        /\ queue' = queue /\ reply' = reply /\ asleep' = asleep
    BY <1>14 DEF Woken
  <2>8. \A i \in 1..Len(queue[r]) : queue[r][i].call = "resume" BY <2>1
  <2>. QED BY <2>1, <2>5, <2>6, <2>7, <2>8 DEF Asked
<1>15. CASE WakeFails
  <2>. SUFFICES ASSUME NEW r \in Ranks PROVE Asked(r)'
    BY <1>2, <1>15 DEF WakeFails, ControlInv
  <2>1. /\ phase' \in {"dead", "sleeping"} /\ execTags' = execTags
        /\ queue' = queue /\ reply' = reply /\ asleep' = asleep
    BY <1>15 DEF WakeFails
  <2>2. /\ reply[r] # "none" => queue[r] = <<>>
        /\ \A i \in 1..Len(queue[r]) : queue[r][i].call = "resume"
        /\ asleep[r] \cap Tagged(Tags \ execTags) = {}
    BY <1>1, <1>15 DEF WakeFails, Asked
  <2>. QED BY <2>1, <2>2 DEF Asked
<1>. QED
  BY <1>2, <1>6, <1>7, <1>8, <1>9, <1>10, <1>11, <1>12, <1>13, <1>14, <1>15
     DEF Engine, Returns, DeferredSleep, DeferredSleepFails, WakePaused


\* A rank finishes a call: the preconditions are what its reply stands for.
LEMMA PopControl ==
  ASSUME TypeOK, ControlInv, phase # "dead", UNCHANGED control,
         NEW r \in Ranks, NEW x \in {"ok", "err"}, queue[r] # <<>>, Finish(r, x),
         asleep'[r] = asleep[r],
         phase = "prepare" /\ x = "ok" => snap'[r],
         phase = "suspend" => snap'[r],
         x = "ok" /\ Doing(r, "resume") =>
           asleep[r] \cap Tagged(Head(queue[r]).tags) = {}
  PROVE  Asked(r)'
<1>1. Asked(r) /\ phase \notin {"deferred", "late", "paused"} BY DEF ControlInv
<1>2. queue[r] \in Seq(Calls) BY DEF TypeOK
<1>3. reply[r] = "none" BY <1>1 DEF Asked, TypeOK
<1>4. /\ phase' = phase /\ execTags' = execTags /\ waking' = waking
      /\ queue'[r] = Tail(queue[r])
      /\ reply'[r] = IF Len(queue[r]) = 1 THEN x ELSE "none"
  BY <1>3 DEF Finish, TypeOK, control
<1>5. \A c : Tail(<<c>>) = <<>> /\ Len(<<c>>) = 1 /\ Head(<<c>>) = c
  OBVIOUS
<1>6. Tail(queue[r]) = <<>> <=> Len(queue[r]) = 1
  <2>1. /\ Len(queue[r]) \in Nat \ {0} /\ Tail(queue[r]) \in Seq(Calls)
        /\ Len(Tail(queue[r])) = Len(queue[r]) - 1
    BY <1>2
  <2>2. Tail(queue[r]) = <<>> <=> Len(Tail(queue[r])) = 0 BY <2>1, EmptySeq
  <2>. QED BY <2>1, <2>2
<1>7. CASE phase \in {"prepare", "cancel", "suspend"}
  <2>1. queue[r] \in {<<Call("prepare")>>, <<Call("cancel")>>, <<Call("suspend")>>}
    BY <1>1, <1>7 DEF Asked
  <2>2. queue'[r] = <<>> /\ reply'[r] = x
    BY <1>4, <1>5, <2>1
  <2>. QED BY <1>1, <1>4, <1>7, <2>2 DEF Asked
<1>8. CASE phase = "rollback"
  <2>1. CASE queue[r] = <<Resume(Tags)>>
    <3>1. queue'[r] = <<>> /\ reply'[r] = x BY <1>4, <1>5, <2>1
    <3>2. Head(queue[r]) = Resume(Tags) BY <1>5, <2>1
    <3>3. x = "ok" => asleep[r] \cap Allocs = {}
      BY <3>2, TaggedFacts DEF Doing, Resume
    <3>4. x = "ok" => asleep[r] = {} BY <3>3 DEF TypeOK
    <3>. QED BY <1>4, <1>8, <3>1, <3>4 DEF Asked
  <2>2. CASE queue[r] = <<Call("suspend"), Resume(Tags)>>
    <3>1. Tail(<<Call("suspend"), Resume(Tags)>>) = <<Resume(Tags)>>
          /\ Len(<<Call("suspend"), Resume(Tags)>>) = 2
      OBVIOUS
    <3>2. queue'[r] = <<Resume(Tags)>> /\ reply'[r] = "none" BY <1>4, <2>2, <3>1
    <3>. QED BY <1>4, <1>8, <3>2 DEF Asked
  <2>. QED BY <1>1, <1>8, <2>1, <2>2 DEF Asked
<1>9. CASE phase \in {"sleeping", "wake", "manual"}
  <2>1. /\ \A i \in 1..Len(queue[r]) : queue[r][i].call = "resume"
        /\ asleep[r] \cap Tagged(Tags \ execTags) = {}
    BY <1>1, <1>9 DEF Asked
  <2>2. /\ Head(queue[r]) = queue[r][1]
        /\ \A i \in 1..Len(Tail(queue[r])) : Tail(queue[r])[i].call = "resume"
        /\ Tail(queue[r]) # <<>> => Tail(queue[r])[Len(Tail(queue[r]))] = queue[r][Len(queue[r])]
    BY <1>2, <2>1, TailOfResumes
  <2>3. Doing(r, "resume")
    <3>1. 1 \in 1..Len(queue[r]) BY <1>2, EmptySeq
    <3>. QED BY <2>1, <2>2, <3>1 DEF Doing
  <2>4. reply'[r] # "none" => queue'[r] = <<>>
    BY <1>4, <1>6
  <2>5. phase \in {"wake", "manual"} /\ reply'[r] = "ok"
          => asleep[r] \cap Tagged(waking) = {}
    <3>. HAVE phase \in {"wake", "manual"} /\ reply'[r] = "ok"
    <3>1. Len(queue[r]) = 1 /\ x = "ok" BY <1>4
    <3>2. Head(queue[r]) = Resume(waking) BY <1>1, <2>2, <3>1 DEF Asked
    <3>. QED BY <2>3, <3>1, <3>2 DEF Resume
  <2>6. phase \in {"wake", "manual"} /\ queue'[r] # <<>>
          => queue'[r][Len(queue'[r])] = Resume(waking)
    BY <1>1, <1>4, <2>2 DEF Asked
  <2>. QED BY <1>4, <1>9, <2>1, <2>2, <2>4, <2>5, <2>6 DEF Asked
<1>10. phase # "serving" BY <1>1 DEF Asked
<1>. QED BY <1>1, <1>7, <1>8, <1>9, <1>10 DEF TypeOK


\* The steps of a rank, which the engine's phase allows it.
LEMMA WorkerControl ==
  ASSUME TypeOK, SnapshotInv, ControlInv, phase # "dead",
         NEW r \in Ranks, Worker(r)
  PROVE  Asked(r)'
<1>1. RankInv(r) /\ Asked(r) BY DEF SnapshotInv, ControlInv
<1>2. UNCHANGED control
  BY DEF Worker, SaveRegion, SaveCommit, SaveFails, PrepareAgain, CancelPreparation,
     Unmap, SuspendDone, UnmapFails, ResumeNothing, ResumeStart, Restore, BufferFails,
     RestoreFails, ResumeDone
<1>3. Doing(r, "suspend") => phase \in {"suspend", "rollback"} BY PhaseOfCall
<1>4. Doing(r, "prepare") => phase = "prepare" BY PhaseOfCall
<1>5. Doing(r, "cancel") => phase = "cancel" BY PhaseOfCall
<1>6. Doing(r, "resume") => phase \in {"rollback", "sleeping", "wake", "manual"}
  BY PhaseOfCall
<1>7. phase = "suspend" => snap[r] BY <1>1 DEF Asked
<1>8. \A name, other : Doing(r, name) /\ Doing(r, other) => name = other BY DEF Doing
<1>. USE <1>2 DEF disk, device
<1>9. CASE SaveRegion(r)
  BY <1>1, <1>9, AskedUntouched DEF SaveRegion
<1>10. CASE SaveCommit(r)
  <2>1. snap'[r] = TRUE /\ asleep'[r] = asleep[r] BY <1>10 DEF SaveCommit, TypeOK
  <2>2. CASE Doing(r, "prepare")
    <3>1. Finish(r, "ok") /\ queue[r] # <<>> BY <1>10, <2>2 DEF SaveCommit, Doing
    <3>2. ~ Doing(r, "resume") BY <1>8, <2>2
    <3>. QED BY <2>1, <3>1, <3>2, PopControl
  <2>3. CASE ~ Doing(r, "prepare")
    <3>1. phase = "rollback" BY <1>3, <1>7, <1>10, <2>3 DEF SaveCommit, Saving
    <3>2. queue' = queue /\ reply' = reply BY <1>10, <2>3 DEF SaveCommit
    <3>. QED BY <1>1, <2>1, <3>1, <3>2 DEF Asked, control
  <2>. QED BY <2>2, <2>3
<1>11. CASE SaveFails(r)
  <2>1. Finish(r, "err") /\ queue[r] # <<>> /\ asleep'[r] = asleep[r]
    BY <1>11 DEF SaveFails, Saving, Doing
  <2>2. phase # "suspend"
    BY <1>4, <1>7, <1>11 DEF SaveFails, Saving
  <2>. QED BY <2>1, <2>2, PopControl
<1>12. CASE PrepareAgain(r)
  <2>1. Finish(r, "ok") /\ queue[r] # <<>> /\ asleep'[r] = asleep[r] /\ snap'[r] = TRUE
    BY <1>12 DEF PrepareAgain, Doing, TypeOK
  <2>2. ~ Doing(r, "resume") BY <1>8, <1>12 DEF PrepareAgain
  <2>. QED BY <2>1, <2>2, PopControl
<1>13. CASE CancelPreparation(r)
  <2>1. Doing(r, "cancel") /\ queue[r] # <<>> /\ asleep'[r] = asleep[r]
    BY <1>13 DEF CancelPreparation, Doing
  <2>2. phase = "cancel" /\ ~ Doing(r, "resume") BY <1>5, <1>8, <2>1
  <2>3. Finish(r, "ok") \/ Finish(r, "err") BY <1>13 DEF CancelPreparation
  <2>. QED BY <2>1, <2>2, <2>3, PopControl
<1>14. CASE Unmap(r)
  <2>1. phase \in {"suspend", "rollback"} /\ snap[r] /\ queue[r] # <<>>
    BY <1>3, <1>14 DEF Unmap, Suspending, Doing
  <2>2. queue' = queue /\ reply' = reply /\ snap' = snap BY <1>14 DEF Unmap
  <2>. QED BY <1>1, <2>1, <2>2 DEF Asked, control
<1>15. CASE SuspendDone(r)
  <2>1. Doing(r, "suspend") /\ queue[r] # <<>> /\ asleep'[r] = asleep[r] /\ snap'[r] = snap[r]
    BY <1>15 DEF SuspendDone, Doing
  <2>2. phase # "prepare" /\ ~ Doing(r, "resume") BY <1>3, <1>8, <2>1
  <2>3. Finish(r, "ok") \/ Finish(r, "err") BY <1>15 DEF SuspendDone, Return
  <2>. QED BY <1>7, <2>1, <2>2, <2>3, PopControl
<1>16. CASE UnmapFails(r)
  <2>1. /\ Finish(r, "err") /\ queue[r] # <<>>
        /\ asleep'[r] = asleep[r] /\ snap'[r] = snap[r]
    BY <1>16 DEF UnmapFails, Suspending, Doing
  <2>. QED BY <1>7, <2>1, PopControl
<1>17. CASE ResumeNothing(r)
  <2>1. /\ Finish(r, "ok") \/ Finish(r, "err")
        /\ queue[r] # <<>> /\ Doing(r, "resume")
        /\ asleep'[r] = asleep[r] /\ asleep[r] = {}
    BY <1>1, <1>17 DEF ResumeNothing, Return, Doing, RankInv
  <2>. QED BY <1>6, <2>1, PopControl
<1>18. CASE ResumeStart(r)
  BY <1>1, <1>18, AskedUntouched DEF ResumeStart
<1>19. CASE Restore(r)
  <2>1. phase \in {"rollback", "sleeping", "wake", "manual"} /\ queue[r] # <<>>
    BY <1>6, <1>19 DEF Restore, Resuming, Doing
  <2>2. queue' = queue /\ reply' = reply /\ snap' = snap /\ asleep'[r] \subseteq asleep[r]
    BY <1>19 DEF Restore, TypeOK
  <2>3. reply[r] = "none" BY <1>1, <2>1 DEF Asked, TypeOK
  <2>. QED BY <1>1, <2>1, <2>2, <2>3 DEF Asked, control
<1>20. CASE RestoreFails(r)
  <2>1. /\ Finish(r, "err") /\ queue[r] # <<>>
        /\ asleep'[r] = asleep[r] /\ snap'[r] = snap[r]
    BY <1>20 DEF RestoreFails, Resuming, Doing
  <2>. QED BY <1>7, <2>1, PopControl
<1>21. CASE ResumeDone(r)
  <2>1. /\ Finish(r, "ok") \/ Finish(r, "err")
        /\ queue[r] # <<>> /\ Doing(r, "resume")
        /\ asleep'[r] = asleep[r] /\ asleep[r] \cap Tagged(Head(queue[r]).tags) = {}
    BY <1>21 DEF ResumeDone, Return, Resuming, Doing, ToRestore
  <2>. QED BY <1>6, <2>1, PopControl
<1>22. CASE BufferFails(r)
  <2>1. /\ Finish(r, "err") /\ queue[r] # <<>>
        /\ asleep'[r] = asleep[r] /\ snap'[r] = snap[r]
    BY <1>22 DEF BufferFails, Doing
  <2>. QED BY <1>7, <2>1, PopControl
<1>. QED
  BY <1>9, <1>10, <1>11, <1>12, <1>13, <1>14, <1>15, <1>16, <1>17, <1>18, <1>19, <1>20,
     <1>21, <1>22 DEF Worker

\* What the engine and the ranks know of each other is inductive.
LEMMA ControlInvStep ==
  ASSUME ~ inFlight, TypeOK, SnapshotInv, ControlInv, [Next]_vars
  PROVE  ControlInv'
<1>1. CASE Engine BY <1>1, EngineControl
<1>2. ASSUME phase # "dead", NEW q \in Ranks, Worker(q) PROVE ControlInv'
  <2>1. UNCHANGED control
    BY <1>2 DEF Worker, SaveRegion, SaveCommit, SaveFails, PrepareAgain,
       CancelPreparation, Unmap, SuspendDone, UnmapFails, ResumeNothing, ResumeStart,
       Restore, BufferFails, RestoreFails, ResumeDone
  <2>2. ASSUME NEW r \in Ranks, r # q PROVE Asked(r)'
    <3>1. /\ queue'[r] = queue[r] /\ reply'[r] = reply[r]
          /\ snap'[r] = snap[r] /\ asleep'[r] = asleep[r]
      BY <1>2, <2>2, OtherRanks
    <3>. QED BY <2>1, <3>1, AskedUntouched DEF ControlInv
  <2>3. Asked(q)' BY <1>2, WorkerControl
  <2>. QED BY <2>1, <2>2, <2>3 DEF ControlInv, control
<1>3. ASSUME NEW q \in Ranks, Rot(q) PROVE ControlInv'
  <2>1. UNCHANGED <<control, queue, reply, snap, asleep>> BY <1>3 DEF Rot, device
  <2>. QED BY <2>1, AskedUntouched DEF ControlInv, control
<1>4. CASE UNCHANGED vars
  <2>1. UNCHANGED <<control, queue, reply, snap, asleep>> BY <1>4 DEF vars, control
  <2>. QED BY <2>1, AskedUntouched DEF ControlInv, control
<1>. QED BY <1>1, <1>2, <1>3, <1>4 DEF Next, Gone

\* Whether a batch can be in flight is settled from the start.
LEMMA InFlightFixed == TypeOK /\ [Next]_vars => inFlight' = inFlight
<1>. SUFFICES ASSUME TypeOK, [Next]_vars PROVE inFlight' = inFlight
  OBVIOUS
<1>1. CASE Engine
  BY <1>1 DEF Engine, Returns, BeginSleep, Prepared, Cancelled, Suspended, SuspendFailed,
     RolledBack, DeferredSleep, DeferredSleepFails, WakePaused, BeginWake,
     BeginManualWake, Woken, WakeFails, rank
<1>2. ASSUME NEW q \in Ranks, Worker(q) \/ Rot(q) PROVE inFlight' = inFlight
  BY <1>2 DEF Worker, SaveRegion, SaveCommit, SaveFails, PrepareAgain,
     CancelPreparation, Unmap, SuspendDone, UnmapFails, ResumeNothing, ResumeStart,
     Restore, BufferFails, RestoreFails, ResumeDone, Rot, control
<1>3. CASE UNCHANGED vars BY <1>3 DEF vars
<1>. QED BY <1>1, <1>2, <1>3 DEF Next, Gone

\* Both invariants hold in every behaviour in which no batch is in flight when
\* the sleep begins.
LEMMA ControlCorrect == Spec => [](SnapshotInv /\ (~ inFlight => ControlInv))
<1>1. Init => SnapshotInv BY DEF Init, SnapshotInv, RankInv
<1>2. Init => ControlInv BY DEF Init, ControlInv, Asked
<1>3. /\ TypeOK /\ SnapshotInv /\ (~ inFlight => ControlInv) /\ [Next]_vars
      => (~ inFlight => ControlInv)'
  BY ControlInvStep, InFlightFixed
<1>. QED BY <1>1, <1>2, <1>3, SnapshotInvStep, TypeCorrect, PTL DEF Spec


\* While no batch is in flight when a sleep begins, requests are only served with
\* everything mapped and intact, for any number of ranks, allocations and faults.
THEOREM ServedIntact == Spec => []ServesIntact
<1>1. SnapshotInv /\ (~ inFlight => ControlInv) /\ TypeOK => ServesIntact
  <2>. SUFFICES ASSUME SnapshotInv, ControlInv, TypeOK, phase = "serving", NEW r \in Ranks
                PROVE  asleep[r] = {} /\ good[r] = Weights
    BY DEF ServesIntact
  <2>1. asleep[r] = {} BY DEF ControlInv, Asked
  <2>2. RankInv(r) /\ good[r] \subseteq Weights BY DEF SnapshotInv, TypeOK
  <2>. QED BY <2>1, <2>2 DEF RankInv
<1>. QED BY <1>1, ControlCorrect, TypeCorrect, PTL

\* Under the same condition nothing is unmapped before every rank has committed
\* its snapshot.
THEOREM TwoPhases == Spec => AllCommittedBeforeUnmap
<1>. DEFINE Step == ~ inFlight => \A r \in Ranks :
              ~ (asleep'[r] \subseteq asleep[r]) =>
                \A q \in Ranks : \/ snap[q] /\ saved[q] = Weights
                                 \/ phase = "rollback"
<1>1. TypeOK /\ SnapshotInv /\ (~ inFlight => ControlInv) /\ [Next]_vars => Step
  <2>. SUFFICES ASSUME TypeOK, SnapshotInv, ControlInv, [Next]_vars,
                       NEW r \in Ranks, ~ (asleep'[r] \subseteq asleep[r]),
                       NEW q \in Ranks, phase # "rollback"
                PROVE  snap[q] /\ saved[q] = Weights
    OBVIOUS
  <2>1. phase # "dead" /\ \E p \in Ranks : Unmap(p)
    <3>. USE DEF device
    <3>1. ~ Engine
      BY DEF Engine, Returns, BeginSleep, Prepared, Cancelled, Suspended, SuspendFailed,
         RolledBack, DeferredSleep, DeferredSleepFails, WakePaused, BeginWake,
         BeginManualWake, Woken, WakeFails, rank
    <3>2. ASSUME NEW p \in Ranks, Worker(p) PROVE Unmap(p)
      <4>1. ~ Restore(p)
        <5>. SUFFICES ASSUME Restore(p) PROVE FALSE
          OBVIOUS
        <5>1. PICK a : asleep' = [asleep EXCEPT ![p] = asleep[p] \ {a}] BY DEF Restore
        <5>2. asleep'[r] = IF r = p THEN asleep[r] \ {a} ELSE asleep[r]
          BY <5>1 DEF TypeOK
        <5>. QED BY <5>2
      <4>. QED
        BY <3>2, <4>1 DEF Worker, SaveRegion, SaveCommit, SaveFails, PrepareAgain,
           CancelPreparation, SuspendDone, UnmapFails, ResumeNothing, ResumeStart,
           BufferFails, RestoreFails, ResumeDone
    <3>3. \A p \in Ranks : ~ Rot(p) BY DEF Rot
    <3>4. ~ UNCHANGED vars BY DEF vars
    <3>. QED BY <3>1, <3>2, <3>3, <3>4 DEF Next, Gone
  <2>2. PICK p \in Ranks : Unmap(p) BY <2>1
  <2>3. phase = "suspend" BY <2>1, <2>2, PhaseOfCall DEF Unmap, Suspending
  <2>. QED BY <2>3 DEF ControlInv, Asked, SnapshotInv, RankInv
<1>2. Step => (~ inFlight => \A r \in Ranks :
        ~ (asleep[r]' \subseteq asleep[r]) =>
          \A q \in Ranks : \/ snap[q] /\ saved[q] = Weights
                           \/ phase = "rollback")
  OBVIOUS
<1>. QED BY <1>1, <1>2, ControlCorrect, TypeCorrect, PTL DEF Spec, AllCommittedBeforeUnmap

=============================================================================
