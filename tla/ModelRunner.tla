---------------------------- MODULE ModelRunner ----------------------------
(***************************************************************************)
(* GPUModelRunner (docker/speculative/.../worker/gpu/model_runner.py) with *)
(* the DFlash speculator and the SM75 scheduler's speculation switch: the  *)
(* request slots, the block tables, the number of computed tokens as the   *)
(* CPU and as the GPU know it, and what the KV caches of the target and of *)
(* the draft model hold.                                                   *)
(*                                                                         *)
(* Tokens are abstract.  The token the target model puts at position p of  *)
(* request r is <<r, p>>; a draft token is either that token or a wrong    *)
(* one, and a cache entry computed from a wrong token is Junk.             *)
(*                                                                         *)
(* The asynchronous scheduler is not part of the repository and is modelled*)
(* from how the runner uses its output: it runs ahead of the sampled       *)
(* tokens, so the token counts it sends assume that no draft is rejected.  *)
(***************************************************************************)
EXTENDS Integers, Sequences, FiniteSets, SequencesExt, FiniteSetsExt, Functions

CONSTANTS
  Requests,
  PromptLen,   \* per request
  MaxOutput,   \* max_tokens of a request
  Slots,       \* max_num_reqs
  NumBlocks,   \* KV blocks, the null block 0 aside
  BlockSize,
  MaxLen,      \* max_model_len
  Steps,       \* num_speculative_steps
  Chunk,       \* the most prompt tokens scheduled at once
  MaxAhead,    \* batch_queue_size: steps scheduled and not yet accounted for
  MaxToggles   \* bound: switches of speculation

ASSUME ModelRunnerAssumption ==
  /\ PromptLen \in [Requests -> Nat \ {0}]
  /\ {Slots, NumBlocks, BlockSize, MaxLen, Steps, Chunk, MaxAhead} \subseteq Nat \ {0}
  /\ MaxOutput \in Nat \ {0} /\ MaxToggles \in Nat
  /\ \A r \in Requests : PromptLen[r] + MaxOutput <= MaxLen

VARIABLES
  sch,      \* the scheduler's view of each request
  told,     \* finished and preempted requests the runner is yet to be told of
  work,     \* scheduler outputs the runner has not executed
  slot,     \* req_id_to_index (0: none)
  row,      \* per slot, its block table
  cpu,      \* per slot, num_computed_tokens_np
  gpu,      \* per slot, num_computed_tokens.gpu
  prefill,  \* per slot, prefill_len
  total,    \* per slot, total_len: tokens known on the GPU
  kv,       \* per block, what the target's cache holds
  dkv,      \* per block, what the draft's cache holds
  exec,     \* execute_model_state
  outs,     \* sampled tokens on their way back
  specOn,   \* _spec_decode_enabled
  nToggles

vars == <<sch, told, work, slot, row, cpu, gpu, prefill, total, kv, dkv, exec, outs,
          specOn, nToggles>>
runner == <<slot, row, cpu, gpu, prefill, total, kv, dkv, exec>>

Blocks == 1..NumBlocks
Width == (MaxLen + BlockSize - 1) \div BlockSize
Junk == <<>>
Entry == {Junk} \cup (Requests \X (0..MaxLen))
Cache == [Blocks -> [0..(BlockSize - 1) -> Entry]]
NoBatch == <<>>
MaxTokens == IF Chunk > Steps THEN Chunk ELSE Steps + 1
MinOf(a, b) == IF a < b THEN a ELSE b
Rank(seq, e) == CHOOSE k \in DOMAIN seq : seq[k] = e

\* Type invariant: slots, block tables, counts and both caches.
TypeOK ==
  /\ \A r \in Requests :
       /\ sch[r].status \in {"waiting", "running", "finished"}
       /\ sch[r].computed \in 0..MaxLen /\ sch[r].known \in 0..(PromptLen[r] + MaxOutput)
       /\ sch[r].ahead \in 0..MaxAhead /\ Range(sch[r].blocks) \subseteq Blocks
  /\ slot \in [Requests -> 0..Slots]
  /\ cpu \in [1..Slots -> 0..MaxLen] /\ gpu \in [1..Slots -> 0..MaxLen]
  /\ prefill \in [1..Slots -> 0..MaxLen] /\ total \in [1..Slots -> 0..(MaxLen + Steps)]
  /\ kv \in Cache /\ dkv \in Cache
  /\ specOn \in BOOLEAN

-----------------------------------------------------------------------------
(* The scheduler.                                                          *)

Used == UNION {Range(sch[r].blocks) : r \in Requests}
Running == {r \in Requests : sch[r].status = "running"}

\* SM75Scheduler.num_spec_tokens: every read of it, the lookahead included, is
\* gated by the switch.
NumSpecTokens == IF specOn THEN Steps ELSE 0

\* The tokens a request may be scheduled with: a piece of its prefill, or the
\* last sampled token and the drafts that fit.
Decoding(r) == sch[r].computed >= sch[r].prefill
TokenChoices(r) ==
  IF Decoding(r)
  THEN IF sch[r].computed < MaxLen THEN {1 + MinOf(NumSpecTokens, MaxLen - 1 - sch[r].computed)}
       ELSE {}
  ELSE 1..MinOf(Chunk, sch[r].prefill - sch[r].computed)

BlocksFor(n) == MinOf(Width, (n + BlockSize - 1) \div BlockSize)
NewBlocks(r, n) ==
  LET need == BlocksFor(sch[r].computed + n + NumSpecTokens) - Len(sch[r].blocks)
  IN  IF need > 0 THEN need ELSE 0

CanSchedule(r) ==
  \/ sch[r].status = "running" /\ sch[r].ahead < MaxAhead
  \/ sch[r].status = "waiting" /\ r \notin told.preempted

Batch(toks) == {r \in Requests : toks[r] > 0}

\* schedule: a batch, its new blocks taken in turn from the free ones, and the
\* requests that have ended since the last one.
Schedule(toks) ==
  LET B == Batch(toks)
      order == SetToSeq(B)
      before(r) == {q \in B : Rank(order, q) < Rank(order, r)}
      need == [r \in Requests |-> IF r \in B THEN NewBlocks(r, toks[r]) ELSE 0]
      start(r) == FoldFunctionOnSet(+, 0, need, before(r))
      free == SetToSortSeq(Blocks \ Used, LAMBDA a, b : a < b)
      blocks == [r \in Requests |-> IF r \in B THEN SubSeq(free, start(r) + 1, start(r) + need[r])
                                   ELSE <<>>]
  IN  /\ Len(work) + Len(exec) + Len(outs) < MaxAhead
      /\ B # {} \/ told.finished \cup told.preempted # {}
      /\ \A r \in B : CanSchedule(r) /\ toks[r] \in TokenChoices(r)
      /\ Cardinality(Running \cup B) <= Slots
      /\ FoldFunctionOnSet(+, 0, need, B) <= Len(free)
      /\ work' = Append(work,
           [toks |-> toks,
            drafts |-> [r \in Requests |-> IF r \in B /\ Decoding(r) THEN toks[r] - 1 ELSE 0],
            new |-> {r \in B : sch[r].status = "waiting"},
            computed |-> [r \in Requests |-> sch[r].computed],
            prefill |-> [r \in Requests |-> sch[r].prefill],
            blocks |-> blocks, gone |-> told.finished \cup told.preempted])
      /\ sch' = [r \in Requests |->
           IF r \notin B THEN sch[r]
           ELSE [sch[r] EXCEPT
                  !.status = "running", !.computed = @ + toks[r], !.blocks = @ \o blocks[r],
                  !.ahead = IF sch[r].computed + toks[r] >= sch[r].prefill THEN @ + 1 ELSE @]]
      /\ told' = [finished |-> {}, preempted |-> {}]
      /\ UNCHANGED <<runner, outs, specOn, nToggles>>

\* Out of blocks: a request with nothing outstanding starts again later.
Preempt(r) ==
  /\ r \in Running /\ sch[r].ahead = 0
  /\ \A k \in DOMAIN work : r \notin Batch(work[k].toks)
  /\ \A k \in DOMAIN exec : r \notin Batch(exec[k].toks)
  /\ sch' = [sch EXCEPT ![r] = [@ EXCEPT !.status = "waiting", !.computed = 0,
                                          !.prefill = sch[r].known, !.blocks = <<>>]]
  /\ told' = [told EXCEPT !.preempted = @ \cup {r}]
  /\ UNCHANGED <<work, runner, outs, specOn, nToggles>>

Ended(r) == [sch[r] EXCEPT !.status = "finished", !.blocks = <<>>, !.computed = 0,
                            !.ahead = 0]

\* abort_requests, with steps of the request possibly still under way
Abort(r) ==
  /\ r \in Running
  /\ sch' = [sch EXCEPT ![r] = Ended(r)]
  /\ told' = [told EXCEPT !.finished = @ \cup {r}]
  /\ UNCHANGED <<work, runner, outs, specOn, nToggles>>

\* num_output_placeholders: a step that went on with a prefill has none
AheadAfter(r, sampled) == IF sampled > 0 THEN sch[r].ahead - 1 ELSE sch[r].ahead

\* update_from_output: counts are corrected by the drafts rejected.
Update ==
  /\ outs # <<>>
  /\ LET o == Head(outs)
         live == {r \in Running : o.toks[r] > 0}
         known == [r \in Requests |-> sch[r].known + o.sampled[r]]
         done == {r \in live : known[r] >= PromptLen[r] + MaxOutput}
     IN  /\ sch' = [r \in Requests |->
              IF r \in done THEN Ended(r)
              ELSE IF r \in live
              THEN [sch[r] EXCEPT !.known = known[r], !.computed = @ - o.rejected[r],
                                  !.ahead = AheadAfter(r, o.sampled[r])]
              ELSE sch[r]]
         /\ told' = [told EXCEPT !.finished = @ \cup done]
  /\ outs' = Tail(outs)
  /\ UNCHANGED <<work, runner, specOn, nToggles>>

\* set_spec_decode_enabled, from the monitor, at any time
SetSpecDecode ==
  /\ nToggles < MaxToggles /\ nToggles' = nToggles + 1
  /\ specOn' = ~ specOn
  /\ UNCHANGED <<sch, told, work, runner, outs>>

-----------------------------------------------------------------------------
(* The runner: execute_model.                                              *)

\* finish_requests, and the removal that add_requests begins with
FinishRequests(m) == [r \in Requests |-> IF r \in m.gone \cup m.new THEN 0 ELSE slot[r]]

\* add_requests takes the free slots in turn.
AddRequests(s, m) ==
  LET free == SetToSortSeq((1..Slots) \ Range(s), LAMBDA a, b : a < b)
      order == SetToSeq(m.new)
  IN  [r \in Requests |-> IF r \in m.new THEN free[Rank(order, r)] ELSE s[r]]

\* append_block_ids: overwritten for a request that is added, else extended
BlockRow(i, r, m) == IF r \in m.new THEN m.blocks[r] ELSE row[i] \o m.blocks[r]

\* Mutant: the count of a running request is not refreshed.
ComputedOnCpuStale(i, r, m) == IF r \in m.new THEN m.computed[r] ELSE cpu[i]

\* update_requests: the scheduler's count, no rejection known
ComputedOnCpu(i, r, m) == m.computed[r]

\* Where a token position is kept.
Place(blocks, p) == <<blocks[p \div BlockSize + 1], p % BlockSize>>
Write(cache, places, Value(_)) ==
  [b \in Blocks |-> [o \in 0..(BlockSize - 1) |->
     IF <<b, o>> \in places THEN Value(<<b, o>>) ELSE cache[b][o]]]

\* prepare_inputs: positions follow the count on the GPU.
Positions(start, n) == start..(start + n - 1)

\* What a batch puts in the cache: at the places compute_slot_mappings gives to
\* its positions, the token at each; after the drafts accepted, wrong ones.
TokensWritten(toks, at, rows, first, right) ==
  UNION {{[place |-> Place(rows[at[r]], p),
           entry |-> IF p < right[r] THEN <<r, p>> ELSE Junk] : p \in Positions(first[r], toks[r])} :
         r \in Batch(toks)}
Filled(cache, ws) ==
  Write(cache, {w.place : w \in ws}, LAMBDA pl : (CHOOSE w \in ws : w.place = pl).entry)

\* execute_model: the request states first, then, with a batch to run, the
\* forward fills the cache.
Execute(accepted) ==
  /\ work # <<>> /\ exec = NoBatch
  /\ LET m == Head(work)
         s == AddRequests(FinishRequests(m), m)
         B == Batch(m.toks)
         at(i) == {r \in B : s[r] = i}
         Upd(f, New(_, _)) == [i \in 1..Slots |->
           IF at(i) = {} THEN f[i] ELSE New(i, CHOOSE r \in at(i) : TRUE)]
         first == [r \in Requests |->
           IF r \in m.new THEN m.computed[r] ELSE IF r \in B THEN gpu[s[r]] ELSE 0]
         right == [r \in Requests |->
           first[r] + (IF m.drafts[r] = 0 THEN m.toks[r] ELSE 1 + accepted[r])]
     IN  /\ \A r \in Requests : accepted[r] <= m.drafts[r]
         /\ slot' = s
         /\ row' = Upd(row, LAMBDA i, r : BlockRow(i, r, m))
         /\ cpu' = Upd(cpu, LAMBDA i, r : ComputedOnCpu(i, r, m))
         /\ gpu' = Upd(gpu, LAMBDA i, r : first[r])
         /\ prefill' = Upd(prefill, LAMBDA i, r : m.prefill[r])
         /\ total' = Upd(total, LAMBDA i, r : IF r \in m.new THEN m.prefill[r] ELSE total[i])
         /\ kv' = Filled(kv, TokensWritten(m.toks, s, row', first, right))
         /\ exec' = IF B = {} THEN NoBatch
                    ELSE <<[toks |-> m.toks, drafts |-> m.drafts, accepted |-> accepted]>>
  /\ work' = Tail(work)
  /\ UNCHANGED <<sch, told, dkv, outs, specOn, nToggles>>

-----------------------------------------------------------------------------
(* The runner: sample_tokens.                                              *)

\* sample: a prefill that goes on yields nothing, the rejection sampler yields
\* the drafts accepted and one more.
NumSampled(b, r) ==
  IF b.toks[r] = 0 \/ gpu[slot[r]] + b.toks[r] < prefill[slot[r]] THEN 0
  ELSE b.accepted[r] + 1
NumRejected(b, r) == b.drafts[r] - b.accepted[r]

\* Mutant: rejected drafts count as computed.
PostUpdateAll(b, r) == gpu[slot[r]] + b.toks[r]

\* postprocess_sampled
PostUpdate(b, r) == gpu[slot[r]] + b.toks[r] - NumRejected(b, r)

\* _prepare_dflash_inputs_kernel: rejected rows are no context.
ValidContext(b, r) == b.toks[r] - NumRejected(b, r)

\* Where the draft's queries are kept: the block number is capped by the width
\* of the table, and past the row's blocks lies the null block, never written.
QueryPlaces(blocks, c) ==
  {<<blocks[MinOf(p \div BlockSize, Width - 1) + 1], p % BlockSize>> :
     p \in {q \in Positions(c, Steps + 1) : MinOf(q \div BlockSize, Width - 1) < Len(blocks)}}

\* prepare_dflash_inputs: the context of each request goes where the target's
\* tokens went.
DraftContext(b) ==
  LET first == [r \in Requests |-> IF b.toks[r] > 0 THEN gpu[slot[r]] ELSE 0]
      valid == [r \in Requests |-> IF b.toks[r] > 0 THEN ValidContext(b, r) ELSE 0]
  IN  TokensWritten(valid, slot, row, first, [r \in Requests |-> first[r] + valid[r]])

\* _generate_draft: the places the forward over the bonus token and the masks fills
DraftQueries(b) ==
  UNION {QueryPlaces(row[slot[r]], gpu[slot[r]] + b.toks[r] - NumRejected(b, r)) : r \in Batch(b.toks)}

\* propose: the context's keys and values first, then the queries', whose entries
\* stand until context replaces them.
Propose(b) == Write(Filled(dkv, DraftContext(b)), DraftQueries(b), LAMBDA pl : Junk)

\* What goes back to the scheduler
Output(b) ==
  [toks |-> b.toks, sampled |-> [r \in Requests |-> NumSampled(b, r)],
   rejected |-> [r \in Requests |-> NumRejected(b, r)]]

\* sample_tokens; the output is on its way back.
SampleTokens ==
  /\ exec # NoBatch
  /\ LET b == exec[1]
         at(i) == {r \in Batch(b.toks) : slot[r] = i}
         Upd(f, New(_)) == [i \in 1..Slots |->
           IF at(i) = {} THEN f[i] ELSE New(CHOOSE r \in at(i) : TRUE)]
     IN  /\ gpu' = Upd(gpu, LAMBDA r : PostUpdate(b, r))
         /\ total' = Upd(total, LAMBDA r : total[slot[r]] + NumSampled(b, r))
         /\ dkv' = Propose(b)
         /\ outs' = Append(outs, Output(b))
  /\ exec' = NoBatch
  /\ UNCHANGED <<sch, told, work, slot, row, cpu, prefill, kv, specOn, nToggles>>

-----------------------------------------------------------------------------
Init ==
  /\ sch = [r \in Requests |->
       [status |-> "waiting", computed |-> 0, known |-> PromptLen[r],
        prefill |-> PromptLen[r], blocks |-> <<>>, ahead |-> 0]]
  /\ told = [finished |-> {}, preempted |-> {}]
  /\ work = <<>> /\ outs = <<>> /\ exec = NoBatch
  /\ slot = [r \in Requests |-> 0]
  /\ row = [i \in 1..Slots |-> <<>>]
  /\ cpu = [i \in 1..Slots |-> 0] /\ gpu = cpu /\ prefill = cpu /\ total = cpu
  /\ kv = [b \in Blocks |-> [o \in 0..(BlockSize - 1) |-> Junk]] /\ dkv = kv
  /\ specOn \in BOOLEAN  \* VLLM_SPEC_DECODE
  /\ nToggles = 0

Next ==
  \/ \E toks \in [Requests -> 0..MaxTokens] : Schedule(toks)
  \/ \E r \in Requests : Preempt(r) \/ Abort(r)
  \/ Update \/ SetSpecDecode
  \/ \E a \in [Requests -> 0..Steps] : Execute(a)
  \/ SampleTokens

Spec == Init /\ [][Next]_vars

-----------------------------------------------------------------------------
(* Properties.                                                             *)

\* Whatever was rejected, preempted, aborted or moved to other blocks and slots
\* before: the target's cache holds, at the places a request's block table
\* gives, its own tokens up to the count the GPU goes on from.
CacheHoldsPrefix ==
  \A r \in Requests : slot[r] # 0 =>
    \A p \in 0..(gpu[slot[r]] - 1) :
      LET pl == Place(row[slot[r]], p) IN kv[pl[1]][pl[2]] = <<r, p>>

\* The same of the draft's cache, also for tokens computed while speculation
\* was off, unless the queries reach the end of the block table.
DraftHoldsPrefix ==
  \A r \in Requests : slot[r] # 0 /\ exec = NoBatch =>
    (gpu[slot[r]] + Steps < Width * BlockSize =>
       \A p \in 0..(gpu[slot[r]] - 1) :
         LET pl == Place(row[slot[r]], p) IN dkv[pl[1]][pl[2]] = <<r, p>>)

\* seq_lens_cpu_upper_bound: attention is planned with the CPU's counts, which
\* may be ahead of the GPU's, never behind.
PlannedLongEnough ==
  exec # NoBatch => \A r \in Batch(exec[1].toks) : gpu[slot[r]] <= cpu[slot[r]]

\* Tokens arrive once: what the scheduler knows and what is on its way back is
\* what the GPU counts, and one token more than is computed.
TokensAgree ==
  \A r \in Running : slot[r] # 0 /\ (\A k \in DOMAIN work : r \notin work[k].new) =>
    LET coming == [k \in DOMAIN outs |-> outs[k].sampled[r]]
    IN  /\ total[slot[r]] = sch[r].known + FoldFunctionOnSet(+, 0, coming, DOMAIN outs)
        /\ exec = NoBatch /\ total[slot[r]] > prefill[slot[r]] =>
             total[slot[r]] = gpu[slot[r]] + 1

\* Both KV caches hold every request's own tokens where its block table says
\* (CacheHoldsPrefix for the target, DraftHoldsPrefix for the drafter):
\* prepare_inputs, postprocess and the drafter's propose.
CachesHoldPrefixes == CacheHoldsPrefix /\ DraftHoldsPrefix

\* The scheduler's, the CPU's and the GPU's counts of one request agree although
\* steps are scheduled before earlier ones return: types (TypeOK), attention never
\* planned too short (PlannedLongEnough), every sampled token counted once
\* (TokensAgree): num_computed_tokens_np, postprocess, update_from_output.
CountsAgree == TypeOK /\ PlannedLongEnough /\ TokensAgree
=============================================================================
