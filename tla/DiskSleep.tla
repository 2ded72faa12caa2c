----------------------------- MODULE DiskSleep -----------------------------
(***************************************************************************)
(* Disk-backed sleep across the tensor-parallel ranks: the snapshot of     *)
(* vllm/device_allocator/disk_snapshot.py, the per-worker backend of       *)
(* disk_sleep.py (prepare, cancel_preparation, suspend, resume), and the   *)
(* engine that drives them by collective RPCs (_sleep, its rollback and    *)
(* _wake in auto_sleep.py).                                                *)
(*                                                                         *)
(* A rank executes the calls it receives in order, one allocation at a     *)
(* time, concurrently with the other ranks.  A collective RPC that raises  *)
(* does so at the first failed reply, while other ranks may still be       *)
(* working on the same call; preparation and its cancellation return their *)
(* errors as data and wait for every rank.                                 *)
(***************************************************************************)
EXTENDS Integers, Sequences, FiniteSets

CONSTANTS
  Ranks,      \* tensor-parallel workers
  Weights,    \* allocations of the CuMem pool tagged "weights"
  KVCache,    \* allocations tagged "kv_cache": never saved
  MaxFaults,  \* bound: I/O, mapping and cleanup errors in a behaviour
  MaxRot,     \* bound: snapshot regions damaged on disk
  MaxCalls    \* bound: calls queued at a rank

ASSUME DiskAssumption ==
  /\ Ranks # {}
  /\ Weights \cap KVCache = {}
  /\ MaxFaults \in Nat /\ MaxRot \in Nat /\ MaxCalls \in Nat \ {0}

VARIABLES
  inFlight,  \* batch queue in use: a batch may be in flight when sleep is called
  phase,     \* what the engine's main loop is doing
  execTags,  \* executor.sleeping_tags
  waking,    \* the tags of the wake_up under way
  pend,      \* a sleep waits in the idle callbacks
  queue,     \* per rank, the calls it has yet to finish, current one first
  reply,     \* per rank, its answer to the latest collective call
  bstate,    \* DiskSleepBackend._state
  snap,      \* DiskSleepBackend.snapshot is not None
  saved,     \* regions written: entries of the snapshot, or of a save under way
  copy,      \* ... that hold the bytes the model was loaded with
  rotten,    \* ... whose bytes on disk were damaged afterwards
  asleep,    \* data.is_asleep: unmapped allocations
  good,      \* allocations holding the bytes the model was loaded with
  faults, rot

control == <<phase, execTags, waking, pend, inFlight>>
disk    == <<snap, saved, copy, rotten>>
device  == <<asleep, good>>
vars    == <<inFlight, phase, execTags, waking, pend, queue, reply, bstate, snap, 
             saved, copy, rotten, asleep, good, faults, rot>>

Allocs == Weights \cup KVCache
Tags == {"weights", "kv_cache"}
Tagged(tags) == (IF "weights" \in tags THEN Weights ELSE {})
                  \cup (IF "kv_cache" \in tags THEN KVCache ELSE {})

Call(name) == [call |-> name, tags |-> {}]
Resume(tags) == [call |-> "resume", tags |-> tags]
Calls == [call : {"prepare", "cancel", "suspend"}, tags : {{}}]
           \cup [call : {"resume"}, tags : SUBSET Tags]

\* Type invariant: the memory, the files and the call in progress of every rank.
TypeOK ==
  /\ phase \in {"serving", "prepare", "cancel", "suspend", "rollback",
                "sleeping", "wake", "manual", "deferred", "late", "paused", "dead"}
  /\ execTags \subseteq Tags /\ waking \subseteq Tags
  /\ pend \in BOOLEAN /\ inFlight \in BOOLEAN
  /\ queue \in [Ranks -> Seq(Calls)]
  /\ reply \in [Ranks -> {"none", "ok", "err"}]
  /\ bstate \in [Ranks -> {"RUNNING", "SUSPENDED", "RESUMING"}]
  /\ snap \in [Ranks -> BOOLEAN]
  /\ saved \in [Ranks -> SUBSET Weights]
  /\ copy \in [Ranks -> SUBSET Weights]
  /\ rotten \in [Ranks -> SUBSET Weights]
  /\ asleep \in [Ranks -> SUBSET Allocs]
  /\ good \in [Ranks -> SUBSET Weights]
  /\ faults \in 0..MaxFaults /\ rot \in 0..MaxRot

-----------------------------------------------------------------------------
(* The collective RPC, external: enqueue on every rank, collect replies.   *)

Broadcast(c) ==
  /\ \A r \in Ranks : Len(queue[r]) < MaxCalls
  /\ queue' = [r \in Ranks |-> Append(queue[r], c)]
  /\ reply' = [r \in Ranks |-> "none"]

AllReplied == \A r \in Ranks : reply[r] # "none"
AllOk == \A r \in Ranks : reply[r] = "ok"
SomeErr == \E r \in Ranks : reply[r] = "err"

Doing(r, name) == queue[r] # <<>> /\ Head(queue[r]).call = name

\* The call is done.  Its reply is only awaited when no later call was issued.
Finish(r, result) ==
  /\ queue' = [queue EXCEPT ![r] = Tail(@)]
  /\ reply' = IF Len(queue[r]) = 1 THEN [reply EXCEPT ![r] = result] ELSE reply

\* The snapshot's directory is removed, the handle to it dropped.
NoSnapshot(r) ==
  /\ snap' = [snap EXCEPT ![r] = FALSE]
  /\ saved' = [saved EXCEPT ![r] = {}]
  /\ copy' = [copy EXCEPT ![r] = {}]
  /\ rotten' = [rotten EXCEPT ![r] = {}]

Fault == faults < MaxFaults /\ faults' = faults + 1

-----------------------------------------------------------------------------
(* DiskSleepBackend.prepare and DiskSnapshot.save.                         *)

\* A snapshot is being written: on prepare, or on suspend without one.
Saving(r) ==
  /\ (Doing(r, "prepare") \/ Doing(r, "suspend"))
  /\ bstate[r] # "SUSPENDED"
  /\ ~ snap[r]

\* Mutant: the key-value cache is saved too.
RegionsWithCache(r) == Allocs \ asleep[r]

Regions(r) == Weights \ asleep[r]

\* One region: read it from the device, write it, digest it.
SaveRegion(r) ==
  /\ Saving(r)
  /\ \E a \in Regions(r) \ saved[r] :
       /\ saved' = [saved EXCEPT ![r] = @ \cup {a}]
       /\ copy' = [copy EXCEPT ![r] = @ \cup ({a} \cap good[r])]
  /\ UNCHANGED <<control, queue, reply, bstate, snap, rotten, device, faults, rot>>

\* Mutant: the manifest is written before the last region is.
SaveCommitEarly(r) ==
  /\ Saving(r) /\ saved[r] # {}
  /\ snap' = [snap EXCEPT ![r] = TRUE]
  /\ IF Doing(r, "prepare") THEN Finish(r, "ok") ELSE UNCHANGED <<queue, reply>>
  /\ UNCHANGED <<control, bstate, saved, copy, rotten, device, faults, rot>>

\* Payload, manifest and directory are synced: the snapshot counts.
SaveCommit(r) ==
  /\ Saving(r)
  /\ Regions(r) \subseteq saved[r]
  /\ snap' = [snap EXCEPT ![r] = TRUE]
  /\ IF Doing(r, "prepare") THEN Finish(r, "ok") ELSE UNCHANGED <<queue, reply>>
  /\ UNCHANGED <<control, bstate, saved, copy, rotten, device, faults, rot>>

\* Not a disk, no space, a short write: the directory is removed again.
SaveFails(r) ==
  /\ Saving(r) /\ Fault
  /\ NoSnapshot(r)
  /\ Finish(r, "err")
  /\ UNCHANGED <<control, bstate, device, rot>>

\* prepare() with a snapshot at hand
PrepareAgain(r) ==
  /\ Doing(r, "prepare") /\ snap[r]
  /\ Finish(r, "ok")
  /\ UNCHANGED <<control, bstate, disk, device, faults, rot>>

\* cancel_preparation: the handle is dropped before the directory, so an error
\* in removing it only leaves an orphan behind.
CancelPreparation(r) ==
  /\ Doing(r, "cancel")
  /\ IF bstate[r] # "RUNNING"
     THEN Finish(r, "err") /\ UNCHANGED <<disk, faults>>
     ELSE /\ NoSnapshot(r)
          /\ \/ Finish(r, "ok") /\ UNCHANGED faults
             \/ snap[r] /\ Fault /\ Finish(r, "err")
  /\ UNCHANGED <<control, bstate, device, rot>>

-----------------------------------------------------------------------------
(* DiskSleepBackend.suspend, within Worker.sleep.                          *)

Suspending(r) == Doing(r, "suspend") /\ bstate[r] # "SUSPENDED" /\ snap[r]

Unmap(r) ==
  /\ Suspending(r)
  /\ \E a \in Allocs \ asleep[r] :
       /\ asleep' = [asleep EXCEPT ![r] = @ \cup {a}]
       /\ good' = [good EXCEPT ![r] = @ \ {a}]
  /\ UNCHANGED <<control, queue, reply, bstate, disk, faults, rot>>

\* The backend is done; Worker.sleep and wake_up may still raise behind it.
Return(r) ==
  \/ Finish(r, "ok") /\ UNCHANGED faults
  \/ Finish(r, "err") /\ Fault

\* Also when the worker then fails on its "memory usage increased" assertion.
SuspendDone(r) ==
  /\ Doing(r, "suspend")
  /\ bstate[r] = "SUSPENDED" \/ (Suspending(r) /\ asleep[r] = Allocs)
  /\ bstate' = [bstate EXCEPT ![r] = "SUSPENDED"]
  /\ Return(r)
  /\ UNCHANGED <<control, disk, device, rot>>

\* unmap_and_release raises: the snapshot is kept for the rollback.
UnmapFails(r) ==
  /\ Suspending(r) /\ asleep[r] # Allocs
  /\ Fault
  /\ bstate' = [bstate EXCEPT ![r] = "SUSPENDED"]
  /\ Finish(r, "err")
  /\ UNCHANGED <<control, disk, device, rot>>

-----------------------------------------------------------------------------
(* DiskSleepBackend.resume, within Worker.wake_up.                         *)

\* No snapshot: also the rollback of a rank whose save failed.
ResumeNothing(r) ==
  /\ Doing(r, "resume") /\ ~ snap[r]
  /\ Return(r)
  /\ UNCHANGED <<control, bstate, disk, device, rot>>

ResumeStart(r) ==
  /\ Doing(r, "resume") /\ snap[r] /\ bstate[r] # "RESUMING"
  /\ bstate' = [bstate EXCEPT ![r] = "RESUMING"]
  /\ UNCHANGED <<control, queue, reply, disk, device, faults, rot>>

Resuming(r) == Doing(r, "resume") /\ snap[r] /\ bstate[r] = "RESUMING"

\* The pinned buffer cannot be allocated: nothing is restored, and the state
\* stays RESUMING until the next call.
BufferFails(r) ==
  /\ Doing(r, "resume") /\ snap[r] /\ Fault
  /\ bstate[r] # "RESUMING" \/ asleep[r] = Allocs
  /\ bstate' = [bstate EXCEPT ![r] = "RESUMING"]
  /\ Finish(r, "err")
  /\ UNCHANGED <<control, disk, device, rot>>

ToRestore(r) == asleep[r] \cap Tagged(Head(queue[r]).tags)

\* Mutant: the digest is not compared.
RestoreUnverified(r) ==
  /\ Resuming(r)
  /\ \E a \in ToRestore(r) :
       /\ asleep' = [asleep EXCEPT ![r] = @ \ {a}]
       /\ good' = [good EXCEPT ![r] = @ \cup ({a} \cap (copy[r] \ rotten[r]))]
  /\ UNCHANGED <<control, queue, reply, bstate, disk, faults, rot>>

\* Map an allocation and, if it was saved, read it back and check its digest.
Restore(r) ==
  /\ Resuming(r)
  /\ \E a \in ToRestore(r) :
       /\ a \notin rotten[r]
       /\ asleep' = [asleep EXCEPT ![r] = @ \ {a}]
       /\ good' = [good EXCEPT ![r] = @ \cup ({a} \cap copy[r])]
  /\ UNCHANGED <<control, queue, reply, bstate, disk, faults, rot>>

\* Mutant: a region that cannot be restored is tried again.
RestoreRetried(r) ==
  /\ Resuming(r) /\ ToRestore(r) \cap rotten[r] # {}
  /\ bstate' = [bstate EXCEPT ![r] = "SUSPENDED"]
  /\ UNCHANGED <<control, queue, reply, disk, device, faults, rot>>

\* create_and_map fails, or the region does and is unmapped again, or the
\* synchronisation behind the last region raises.
RestoreFails(r) ==
  /\ Resuming(r)
  /\ \/ Fault
     \/ ToRestore(r) \cap rotten[r] # {} /\ UNCHANGED faults
  /\ bstate' = [bstate EXCEPT ![r] = "SUSPENDED"]
  /\ Finish(r, "err")
  /\ UNCHANGED <<control, disk, device, rot>>

\* All tags asked for are back.  The snapshot goes when nothing is asleep; an
\* error in removing it is ignored.
ResumeDone(r) ==
  /\ Resuming(r) /\ ToRestore(r) = {}
  /\ IF asleep[r] # {}
     THEN bstate' = [bstate EXCEPT ![r] = "SUSPENDED"] /\ UNCHANGED disk
     ELSE /\ NoSnapshot(r)
          /\ bstate' = [bstate EXCEPT ![r] = "RUNNING"]
  /\ Return(r)
  /\ UNCHANGED <<control, device, rot>>

\* The environment damages a saved region.
Rot(r) ==
  /\ rot < MaxRot
  /\ \E a \in saved[r] \ rotten[r] : rotten' = [rotten EXCEPT ![r] = @ \cup {a}]
  /\ rot' = rot + 1
  /\ UNCHANGED <<control, queue, reply, bstate, snap, saved, copy, device, faults>>

-----------------------------------------------------------------------------
(* The engine: AutoSleepController._sleep and _wake, EngineCore.wake_up.   *)

rank == <<bstate, disk, device, faults, rot, inFlight>>

\* _sleep, phase one: every rank saves.
BeginSleep ==
  /\ phase = "serving" /\ ~ pend
  /\ Broadcast(Call("prepare"))
  /\ phase' = "prepare"
  /\ UNCHANGED <<execTags, waking, pend, rank>>

\* Mutant: the ranks that could save go to sleep.
PreparedByAny ==
  /\ phase = "prepare" /\ AllReplied
  /\ Broadcast(Call("suspend")) /\ phase' = "suspend"
  /\ UNCHANGED <<execTags, waking, pend, rank>>

\* Phase two only when all of them have.  The scheduler is paused, and the
\* sleep itself left to an idle callback while a batch is in flight.
Prepared ==
  /\ phase = "prepare" /\ AllReplied
  /\ \/ /\ AllOk /\ Broadcast(Call("suspend"))
        /\ phase' = "suspend" /\ UNCHANGED pend
     \/ /\ AllOk /\ inFlight /\ UNCHANGED <<queue, reply>>
        /\ phase' = "deferred" /\ pend' = TRUE
     \/ /\ ~ AllOk /\ Broadcast(Call("cancel"))
        /\ phase' = "cancel" /\ UNCHANGED pend
  /\ UNCHANGED <<execTags, waking, rank>>

Cancelled ==
  /\ phase = "cancel" /\ AllReplied
  /\ phase' = "serving"
  /\ UNCHANGED <<execTags, waking, pend, queue, reply, rank>>

Suspended ==
  /\ phase \in {"suspend", "late"} /\ AllOk
  /\ phase' = "sleeping"
  /\ execTags' = Tags
  /\ UNCHANGED <<waking, pend, queue, reply, rank>>

\* Mutant: the scheduler is resumed without waking the ranks.
SuspendFailedNoRollback ==
  /\ phase = "suspend" /\ SomeErr
  /\ phase' = "serving"
  /\ UNCHANGED <<execTags, waking, pend, queue, reply, rank>>

\* Executor.sleep raised: wake every rank explicitly.
SuspendFailed ==
  /\ phase = "suspend" /\ SomeErr
  /\ Broadcast(Resume(Tags))
  /\ phase' = "rollback"
  /\ UNCHANGED <<execTags, waking, pend, rank>>

RolledBack ==
  /\ phase = "rollback"
  /\ \/ AllOk /\ phase' = "serving"
     \/ SomeErr /\ phase' = "dead"
  /\ UNCHANGED <<execTags, waking, pend, queue, reply, rank>>

\* The batch is back: the idle callback calls Executor.sleep.  Its failure
\* only fails the future nobody waits for.
DeferredSleep ==
  /\ phase \in {"deferred", "serving"} /\ pend
  /\ Broadcast(Call("suspend"))
  /\ phase' = "late"
  /\ pend' = FALSE
  /\ UNCHANGED <<execTags, waking, rank>>

DeferredSleepFails ==
  /\ phase = "late" /\ SomeErr
  /\ phase' = "paused"
  /\ UNCHANGED <<execTags, waking, pend, queue, reply, rank>>

\* A request arrives while the scheduler is paused and the executor is not
\* asleep: Executor.wake_up returns early, scheduling resumes.
WakePaused ==
  /\ phase \in {"deferred", "paused"}
  /\ phase' = "serving"
  /\ UNCHANGED <<execTags, waking, pend, queue, reply, rank>>

\* A request arrives: _wake; the exception of a failed one ends the engine.
BeginWake ==
  /\ phase = "sleeping"
  /\ Broadcast(Resume(Tags))
  /\ phase' = "wake" /\ waking' = Tags
  /\ UNCHANGED <<execTags, pend, rank>>

\* wake_up(tags) through the development endpoint.
BeginManualWake(tags) ==
  /\ phase = "sleeping"
  /\ tags # {} /\ tags \subseteq execTags
  /\ Broadcast(Resume(tags))
  /\ phase' = "manual" /\ waking' = tags
  /\ UNCHANGED <<execTags, pend, rank>>

Woken ==
  /\ phase \in {"wake", "manual"} /\ AllOk
  /\ execTags' = execTags \ waking
  /\ phase' = IF execTags' = {} THEN "serving" ELSE "sleeping"
  /\ UNCHANGED <<waking, pend, queue, reply, rank>>

\* The failure of a manual call is returned and the engine stays asleep.
WakeFails ==
  /\ phase \in {"wake", "manual"} /\ SomeErr
  /\ phase' = IF phase = "wake" THEN "dead" ELSE "sleeping"
  /\ UNCHANGED <<execTags, waking, pend, queue, reply, rank>>

-----------------------------------------------------------------------------
Init ==
  /\ inFlight \in BOOLEAN
  /\ phase = "serving" /\ execTags = {} /\ waking = {} /\ pend = FALSE
  /\ queue = [r \in Ranks |-> <<>>]
  /\ reply = [r \in Ranks |-> "none"]
  /\ bstate = [r \in Ranks |-> "RUNNING"]
  /\ snap = [r \in Ranks |-> FALSE]
  /\ saved = [r \in Ranks |-> {}]
  /\ copy = [r \in Ranks |-> {}]
  /\ rotten = [r \in Ranks |-> {}]
  /\ asleep = [r \in Ranks |-> {}]
  /\ good = [r \in Ranks |-> Weights]
  /\ faults = 0 /\ rot = 0

Returns ==
  \/ Prepared \/ Cancelled \/ Suspended \/ SuspendFailed \/ RolledBack
  \/ DeferredSleep \/ DeferredSleepFails \/ Woken \/ WakeFails

Engine ==
  \/ Returns
  \/ BeginSleep \/ WakePaused \/ BeginWake
  \/ \E tags \in SUBSET Tags : BeginManualWake(tags)

Worker(r) ==
  \/ SaveRegion(r) \/ SaveCommit(r) \/ SaveFails(r) \/ PrepareAgain(r)
  \/ CancelPreparation(r)
  \/ Unmap(r) \/ SuspendDone(r) \/ UnmapFails(r)
  \/ ResumeNothing(r) \/ ResumeStart(r) \/ BufferFails(r)
  \/ Restore(r) \/ RestoreFails(r) \/ ResumeDone(r)

\* The engine's process is gone, its workers with it.
Gone == phase = "dead" /\ UNCHANGED vars

Next ==
  \/ Engine
  \/ phase # "dead" /\ \E r \in Ranks : Worker(r) \/ Rot(r)
  \/ Gone

Spec == Init /\ [][Next]_vars

\* The main loop goes on once the replies are in or the batch is back, and the
\* ranks execute their calls; requests and operators promise nothing.
FairSpec ==
  /\ Spec
  /\ WF_vars(Returns)
  /\ \A r \in Ranks : WF_vars(phase # "dead" /\ Worker(r))

-----------------------------------------------------------------------------
(* Properties.                                                             *)

\* At every moment of a save, suspend, rollback or resume, on every rank, each
\* model allocation is mapped with its original bytes or has them in the
\* rank's committed snapshot: no partial failure loses weights.
NothingLost ==
  \A r \in Ranks : \A a \in Weights :
    \/ a \notin asleep[r] /\ a \in good[r]
    \/ snap[r] /\ a \in copy[r]

\* Requests are only served with every allocation of every rank mapped and the
\* weights intact, whatever failed, was rolled back, restored in parts or
\* damaged on disk in between.  (A sleep put off by a batch in flight is
\* excepted: nobody rolls it back when it fails.)
ServesIntact ==
  ~ inFlight /\ phase = "serving" => \A r \in Ranks : asleep[r] = {} /\ good[r] = Weights

\* No rank unmaps anything before every rank has committed its snapshot: the
\* only rank without one is a rank that a rollback has already restored.  (The
\* same exception.)
AllCommittedBeforeUnmap ==
  [][ ~ inFlight => \A r \in Ranks :
        ~ (asleep[r]' \subseteq asleep[r]) =>
          \A q \in Ranks : \/ snap[q] /\ saved[q] = Weights
                           \/ phase = "rollback" ]_vars

\* Where a rank has the original bytes of a weight allocation
Place(r, a) ==
  (IF a \in good[r] \ asleep[r] THEN {"device"} ELSE {})
    \cup (IF snap[r] /\ a \in copy[r] THEN {"disk"} ELSE {})

Store == INSTANCE WeightStore WITH place <- [r \in Ranks |-> [a \in Weights |-> Place(r, a)]]

\* Whatever fails, is cancelled or rolled back, the ranks together behave as
\* WeightStore does: a snapshot counts only as a whole, nothing is unmapped or
\* read back without one, and it is removed only when nothing depends on it.
KeepsStore == Store!Spec

\* Every sleep and every wake ends: serving, asleep, paused for the next
\* request, or with the engine gone.
SleepWakeEnds ==
  LET Settled == phase \in {"serving", "sleeping", "paused", "dead"}
  IN  ~ Settled ~> Settled

=============================================================================
