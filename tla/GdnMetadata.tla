---------------------------- MODULE GdnMetadata ----------------------------
(***************************************************************************)
(* The gated delta-net layers: GDNAttentionMetadataBuilder.build with its  *)
(* CUDA-graph buffers, the SM75 fast path in front of it                   *)
(* (sm75_gdn_metadata.py), and what _forward_core does with the metadata.  *)
(*                                                                         *)
(* A recurrent layer keeps one state per request, overwritten at each      *)
(* token, so a state read from or written to the wrong block is lost for   *)
(* good.  The state of request r after n tokens is <<r, n>>; the token at  *)
(* position p of r is <<r, p>> and takes <<r, p>> to <<r, p + 1>>.         *)
(*                                                                         *)
(* The scheduler, the block tables, split_decodes_and_prefills and the     *)
(* kernels are not part of the repository.  mamba_cache_mode is "none": a  *)
(* request has a fixed row of one block per draft and one more.            *)
(***************************************************************************)
EXTENDS Integers, Sequences, FiniteSets, SequencesExt, FiniteSetsExt, Functions

CONSTANTS
  N,            \* requests are 1..N
  PromptLen,    \* per request
  MaxLen,       \* bound: tokens of a request
  Chunk,        \* the most prompt tokens scheduled at once
  Configs,      \* what a server may be started with: spec (num_speculative_tokens),
                \* full (CUDA graphs), capture (max_cudagraph_capture_size), packed
                \* (decode kernel), fast (SM75 metadata), cuda (VLLM_GDN_DECODE_KERNEL
                \* is left at "cuda"), capable (the fused kernel takes model and GPU);
                \* slots (max_num_seqs); bounds: reqs (how many requests), len (tokens of each)
  FastSpecs,    \* the draft counts the SM75 fast path is meant for
  MaxFused      \* MAX_FUSED_GDN_MTP_TOKENS

ASSUME GdnAssumption ==
  /\ PromptLen \in [1..N -> 1..MaxLen]
  /\ {N, MaxLen, Chunk, MaxFused} \subseteq Nat \ {0}
  /\ Configs \subseteq [spec : Nat, full : BOOLEAN, capture : Nat, packed : BOOLEAN, fast : BOOLEAN,
                        cuda : BOOLEAN, capable : BOOLEAN, reqs : 1..N, slots : 1..N, len : 1..MaxLen]

VARIABLES
  conf,      \* what the server was started with
  slot,      \* per request, its row of state blocks (0: not admitted)
  done,      \* per request, tokens computed
  accepted,  \* per request, num_accepted_tokens of its last step
  ssm,       \* per block, the state it holds
  buf,       \* the builder's CUDA-graph buffers
  batch,     \* the rows of the step under way
  meta       \* GDNAttentionMetadata of the step under way

vars == <<conf, slot, done, accepted, ssm, buf, batch, meta>>

Null == <<0, 0>>   \* NULL_BLOCK_ID
Zero == <<0, 0>>   \* the state before the first token
Junk == <<0, 1>>   \* the state, or token, of nothing in particular
None == <<>>
Sum(s) == FoldLeft(LAMBDA a, b : a + b, 0, s)
MinOf(a, b) == IF a < b THEN a ELSE b
Width == conf.spec + 1   \* decode_query_len
MaxBs == MinOf(conf.slots * Width, conf.capture)   \* decode_cudagraph_max_bs

\* A row of the batch; a padded row has no request.
PadRow == [req |-> 0, q |-> 0, drafts |-> -1]
Table(b) == [i \in DOMAIN b |-> [j \in 1..Width |->
  IF b[i].req = 0 THEN Null ELSE <<slot[b[i].req], j>>]]
Tokens(b) == FoldLeft(LAMBDA ts, w : ts \o [k \in 1..w.q |-> <<w.req, done[w.req] + k - 1>>], <<>>, b)

\* query_start_loc of the given query lengths
StartLoc(lens) == [i \in 1..(Len(lens) + 1) |-> Sum(SubSeq(lens, 1, i - 1))]
Lens(b) == [i \in DOMAIN b |-> b[i].q]
Rows(b, P(_)) == SetToSortSeq({i \in DOMAIN b : P(i)}, LAMBDA x, y : x < y)
IndexIn(s, x) == CHOOSE i \in DOMAIN s : s[i] = x
At(f, idx) == [k \in DOMAIN idx |-> f[idx[k]]]

-----------------------------------------------------------------------------
(* The builder.                                                            *)

\* spec_sequence_masks: none if there is no draft in the whole batch
SpecRows(b) ==
  IF conf.spec = 0 \/ Sum([i \in DOMAIN b |-> IF b[i].drafts >= 0 THEN b[i].drafts ELSE 0]) = 0
  THEN <<>>
  ELSE Rows(b, LAMBDA i : b[i].drafts >= 0)

\* split_decodes_and_prefills with a threshold of one token: the rows before the
\* first longer one.
Decodes(lens) ==
  IF \E i \in DOMAIN lens : lens[i] > 1
  THEN Min({i \in DOMAIN lens : lens[i] > 1}) - 1
  ELSE Len(lens)

\* The counts, with the decodes among spec rows turned into prefills.
Counts(b, spec, non) ==
  LET lens == At(Lens(b), non)
      zeros == Cardinality({k \in DOMAIN lens : lens[k] = 0})
  IN  IF spec = <<>>
      THEN [decodes |-> Decodes(lens), prefills |-> Len(b) - Decodes(lens), specs |-> 0]
      ELSE [decodes |-> 0, prefills |-> Len(lens) - zeros, specs |-> Len(spec)]

\* The chunk kernel's part: without the decodes that lead a batch with no drafts.
PrefillPart(b, non, c) ==
  LET rows == SubSeq(non, c.decodes + 1, Len(non))
  IN  [state |-> At([i \in DOMAIN b |-> Table(b)[i][1]], rows),
       loc |-> StartLoc(At(Lens(b), rows)),
       initial |-> [k \in DOMAIN rows |-> b[rows[k]].req # 0 /\ done[b[rows[k]].req] > 0]]

\* build, before the buffers: the token indices of each part, its states and starts
Parts(b) ==
  LET spec == SpecRows(b)
      non == Rows(b, LAMBDA i : i \notin Range(spec))
      c == Counts(b, spec, non)
      owner == FoldLeft(LAMBDA ts, i : ts \o [k \in 1..b[i].q |-> i], <<>>, [i \in DOMAIN b |-> i])
      toks(rows) == SetToSortSeq({k \in DOMAIN owner : owner[k] \in Range(rows)}, LAMBDA x, y : x < y)
  IN  [counts |-> c, tokens |-> IF b[1].graph THEN Len(b) * Width ELSE Len(owner),
       specTok |-> toks(spec), specState |-> At(Table(b), spec),
       specLoc |-> StartLoc(At(Lens(b), spec)),
       acc |-> [k \in DOMAIN spec |-> accepted[b[spec[k]].req]],
       nonTok |-> toks(non), nonState |-> At([i \in DOMAIN b |-> Table(b)[i][1]], non),
       nonLoc |-> StartLoc(At(Lens(b), non)),
       prefill |-> IF c.prefills > 0 THEN PrefillPart(b, non, c) ELSE None]

\* x copied to the front of a buffer, v filled in up to n, the rest as it was; what
\* does not fit, which the copy refuses, makes the buffer longer than it is.
Staged(old, x, n, v) ==
  [i \in 1..Max({Len(old), Len(x), n}) |-> IF i <= Len(x) THEN x[i] ELSE IF i <= n THEN v ELSE old[i]]

\* The graph buffers for a batch of verifications only, n rows with padding
StagedSpec(p, n) ==
  [buf EXCEPT !.specState = Staged(@, p.specState, n, [j \in 1..Width |-> Null]),
              !.specLoc = Staged(@, p.specLoc, n + 1, Last(p.specLoc)),
              !.acc = Staged(@, p.acc, n, 1)]

\* The same for decodes only
StagedDecode(p, n) ==
  [buf EXCEPT !.nonState = Staged(@, p.nonState, n, Null),
              !.nonLoc = Staged(@, p.nonLoc, n + 1, Last(p.nonLoc))]

\* Is the batch staged in the buffers?
StagesSpec(p) ==
  /\ conf.full /\ p.counts.prefills = 0 /\ p.counts.decodes = 0
  /\ p.counts.specs <= MaxBs /\ Len(p.specTok) <= MaxBs
StagesDecode(p) ==
  /\ conf.full /\ p.counts.prefills = 0 /\ p.counts.specs = 0
  /\ p.counts.decodes <= MaxBs

\* build: the metadata's tensors are views of the buffers where these are used.
Build(b) ==
  LET p == Parts(b)
      n == Len(b)
      sb == StagedSpec(p, n)
      db == StagedDecode(p, n)
  IN  IF StagesSpec(p)
      THEN <<sb, [p EXCEPT !.specState = SubSeq(sb.specState, 1, n),
                           !.specLoc = SubSeq(sb.specLoc, 1, n + 1),
                           !.acc = SubSeq(sb.acc, 1, n)]>>
      ELSE IF StagesDecode(p)
      THEN <<db, [p EXCEPT !.nonState = SubSeq(db.nonState, 1, n),
                           !.nonLoc = SubSeq(db.nonLoc, 1, n + 1)]>>
      ELSE <<buf, p>>

\* Mutant: the number of drafts scheduled is not looked at.
EligibleAnyDrafts(b) ==
  conf.full /\ conf.spec \in FastSpecs /\ Len(b) = 1 /\ MaxBs >= Width /\ b[1].req # 0

\* eligible: one request, verified with every draft
Eligible(b) ==
  /\ conf.full /\ conf.spec \in FastSpecs /\ MaxBs >= Width
  /\ Len(b) = 1 /\ b[1].q = Width /\ b[1].drafts = conf.spec

\* build_fast
BuildFast(b) ==
  LET fb == [buf EXCEPT !.specState[1] = Table(b)[1],
                        !.specLoc = Staged(@, <<0, Width>>, 2, 0),
                        !.acc[1] = accepted[b[1].req]]
  IN  <<fb, [counts |-> [decodes |-> 0, prefills |-> 0, specs |-> 1], tokens |-> Width,
             specTok |-> [k \in 1..Width |-> k], specState |-> <<fb.specState[1]>>,
             specLoc |-> SubSeq(fb.specLoc, 1, 2), acc |-> <<fb.acc[1]>>,
             nonTok |-> <<>>, nonState |-> <<>>, nonLoc |-> <<0>>, prefill |-> None]>>

BuildMetadata(b) == IF conf.fast /\ Eligible(b) THEN BuildFast(b) ELSE Build(b)

-----------------------------------------------------------------------------
(* The forward pass.  A kernel works on pieces: some tokens of the batch   *)
(* (by index), the blocks their states go to and the one to start from.    *)

Pieces(tok, state, loc, n, start, initial) ==
  [k \in 1..n |-> [tok |-> SubSeq(tok, loc[k] + 1, loc[k + 1]), blocks |-> state[k],
                   from |-> start[k], initial |-> initial[k]]]
Every(n, value) == [k \in 1..n |-> value]
OneBlock(state) == [k \in DOMAIN state |-> <<state[k]>>]

\* The multi-query kernel stores the state after each token in a block of its
\* own and starts from the one of the last token accepted.
SpecPieces(m, n) ==
  Pieces(m.specTok, m.specState, m.specLoc, n, m.acc, Every(n, TRUE))
DecodePieces(m, n) ==
  Pieces(m.nonTok, OneBlock(m.nonState), m.nonLoc, n, Every(n, 1), Every(n, TRUE))
PrefillPieces(m) ==
  LET tok == SubSeq(m.nonTok, m.counts.decodes + 1, Len(m.nonTok))
      n == Len(m.prefill.state)
  IN  Pieces(tok, OneBlock(m.prefill.state), m.prefill.loc, n, Every(n, 1), m.prefill.initial)

\* _forward_core_decode_non_spec: a token per row, no starts looked at
PackedPieces(m) ==
  [k \in 1..m.tokens |-> [tok |-> <<k>>, blocks |-> <<m.nonState[k]>>, from |-> 1, initial |-> TRUE]]

\* Mutant: the outputs of the peeled-off decodes are put last.
ForwardCoreStitchedLast(m) ==
  [spec |-> SpecPieces(m, m.counts.specs),
   non |-> (IF m.counts.prefills > 0 THEN PrefillPieces(m) ELSE <<>>)
           \o (IF m.counts.decodes > 0 THEN DecodePieces(m, m.counts.decodes) ELSE <<>>)]

\* _forward_core: the pieces of the verifications and the others
ForwardCore(m) ==
  IF conf.packed /\ m.counts.specs = 0 /\ m.counts.prefills = 0 /\ m.counts.decodes > 0
  THEN [spec |-> <<>>, non |-> PackedPieces(m)]
  ELSE [spec |-> SpecPieces(m, m.counts.specs),
        non |-> (IF m.counts.decodes > 0 THEN DecodePieces(m, m.counts.decodes) ELSE <<>>)
                \o (IF m.counts.prefills > 0 THEN PrefillPieces(m) ELSE <<>>)]

\* The layer was built for the fused kernel; where it is not supported, on SM75
\* for one, the layer falls back to the other path.
Fused == conf.cuda /\ conf.capable

\* _can_use_fused_gdn_mtp_decode, and no prefill beside the verifications
TakesFusedMtp(m) ==
  Fused /\ m.counts.specs > 0 /\ m.counts.decodes = 0 /\ m.counts.prefills = 0 /\ Width <= MaxFused

\* _forward_core_decode_spec_fused_norm takes the tokens as they come.
FusedPieces(m, n) ==
  Pieces([k \in 1..m.tokens |-> k], m.specState, m.specLoc, n, m.acc, Every(n, TRUE))

\* _forward_core_fused_norm
ForwardCoreFusedNorm(m) ==
  IF TakesFusedMtp(m) THEN [spec |-> FusedPieces(m, m.counts.specs), non |-> <<>>] ELSE ForwardCore(m)

\* A replayed graph reads the buffers, with the rows it was captured with.
Replay(m, n) ==
  IF m.counts.specs > 0
  THEN LET v == [m EXCEPT !.specState = buf.specState, !.specLoc = buf.specLoc, !.acc = buf.acc]
       IN  [spec |-> IF TakesFusedMtp(m) THEN FusedPieces(v, n) ELSE SpecPieces(v, n), non |-> <<>>]
  ELSE LET v == [m EXCEPT !.nonState = buf.nonState, !.nonLoc = buf.nonLoc]
       IN  [spec |-> <<>>, non |-> IF conf.packed THEN PackedPieces(v) ELSE DecodePieces(v, n)]

\* forward_cuda picks the custom op the layer was built for.
Core ==
  IF Head(batch).graph THEN Replay(meta, Len(batch)) ELSE
  IF Fused THEN ForwardCoreFusedNorm(meta) ELSE ForwardCore(meta)
PiecesRun == Core.spec \o Core.non

\* core_attn_out: the outputs of the two parts, each in the order its kernels took
\* the tokens, back in the order of the batch
Merged(m, spec, non) ==
  IF spec = <<>> THEN non ELSE IF non = <<>> THEN spec ELSE
  [i \in 1..m.tokens |-> IF i \in Range(m.specTok) THEN spec[IndexIn(m.specTok, i)]
                          ELSE non[IndexIn(m.nonTok, i)]]

Outputs ==
  LET of(ps) == FoldLeft(LAMBDA out, piece : out \o piece.tok, <<>>, ps)
  IN  Merged(meta, of(Core.spec), of(Core.non))

StateAfter(start, toks, t) ==
  LET f == toks[1]
  IN  IF /\ f # Junk /\ (start = f \/ (start = Zero /\ f[2] = 0))
         /\ \A k \in 1..t : toks[k] = <<f[1], f[2] + k - 1>>
      THEN <<f[1], f[2] + t>>
      ELSE Junk

\* A kernel on one piece: a null block is neither read nor written.
Kernel(states, piece, toks) ==
  LET ts == At(toks, piece.tok)
      from == piece.blocks[piece.from]
      start == IF ~ piece.initial \/ from = Null THEN Zero ELSE states[from]
      multi == Len(piece.blocks) > 1
      last(b) == IF multi THEN {t \in DOMAIN ts : piece.blocks[t] = b}
                 ELSE IF piece.blocks[1] = b THEN {Len(ts)} ELSE {}
  IN  [b \in DOMAIN states |->
         IF ts = <<>> \/ b = Null \/ last(b) = {} THEN states[b]
         ELSE StateAfter(start, ts, Max(last(b)))]

-----------------------------------------------------------------------------
(* Steps.                                                                  *)

\* The scheduler's rows.  A step without drafts starts from the first block, so
\* the last one of each request must have kept its state there.
CanRun(b) ==
  /\ \A r \in 1..N : IF b[r].q = 0 THEN b[r].drafts = -1 ELSE
       r <= conf.reqs /\ IF done[r] < PromptLen[r]
       THEN b[r].q <= MinOf(Chunk, PromptLen[r] - done[r]) /\ b[r].drafts = -1
       ELSE b[r].q = b[r].drafts + 1 /\ done[r] + b[r].q <= conf.len
  /\ (\A r \in 1..N : b[r].q > 0 => b[r].drafts <= 0) =>
       \A r \in 1..N : b[r].q > 0 => accepted[r] = 1

\* Mutant: new blocks keep what the last request left in them.
ZeroNewKept(new, states) == states

\* new_block_ids_to_zero: the blocks of requests that are admitted are cleared
ZeroNew(new, states) == [b \in DOMAIN states |-> IF b[1] \in new THEN Zero ELSE states[b]]

\* sort_batch_req_ids
Before(u, v) ==
  LET key(w) == <<IF w.drafts > 0 THEN 0 ELSE 1, IF w.q = Width THEN 0 ELSE 1, w.q, w.req>>
      differ == {k \in 1..4 : key(u)[k] # key(v)[k]}
  IN  differ # {} /\ key(u)[Min(differ)] < key(v)[Min(differ)]

\* A batch is sorted; a uniform one that a captured graph can hold is padded to
\* the rows of the graph and replays it.
Uniform(b) == \A k \in DOMAIN b : b[k].q = Width /\ b[k].drafts = conf.spec
Padded(b, n) ==
  [k \in 1..n |-> (IF k <= Len(b) THEN b[k] ELSE PadRow) @@ [graph |-> TRUE]]
GraphRows(b) ==
  IF conf.full /\ Uniform(b) THEN {n \in Len(b)..conf.slots : n * Width <= conf.capture} ELSE {}

\* execute_model up to the forward pass
Prepare(rows) ==
  /\ batch = None /\ CanRun(rows)
  /\ LET B == {r \in 1..N : rows[r].q > 0}
         new == {r \in B : slot[r] = 0}
         sorted == SetToSortSeq({rows[r] @@ [req |-> r] : r \in B}, Before)
     IN  /\ B # {}
         /\ \E place \in Injection(new, (1..conf.slots) \ Range(slot)) :
              /\ slot' = place @@ slot
              /\ ssm' = ZeroNew(Range(place), ssm)
         /\ \/ /\ GraphRows(sorted) = {}
               /\ batch' = [k \in DOMAIN sorted |-> sorted[k] @@ [graph |-> FALSE]]
            \/ \E n \in GraphRows(sorted) : batch' = Padded(sorted, n)
  /\ meta' = None
  /\ UNCHANGED <<conf, done, accepted, buf>>

BuildStep ==
  /\ batch # None /\ meta = None
  /\ LET r == BuildMetadata(batch) IN buf' = r[1] /\ meta' = r[2]
  /\ UNCHANGED <<conf, slot, done, accepted, ssm, batch>>

\* The forward pass and what follows it: the drafts up to kept are right.
Forward(kept) ==
  /\ meta # None
  /\ LET B == {batch[k].req : k \in DOMAIN batch} \ {0}
         row(r) == batch[CHOOSE k \in DOMAIN batch : batch[k].req = r]
         right(r) == IF row(r).drafts > 0 THEN kept[r] + 1 ELSE row(r).q
         all == Tokens(batch)
         pad == IF Head(batch).graph THEN Len(batch) * Width - Len(all) ELSE 0
         toks == [k \in 1..(Len(all) + pad) |->
                    IF k > Len(all) \/ all[k][2] >= done[all[k][1]] + right(all[k][1]) THEN Junk
                    ELSE all[k]]
     IN  /\ \A r \in 1..N : kept[r] <= (IF r \in B /\ row(r).drafts > 0 THEN row(r).drafts ELSE 0)
         /\ ssm' = FoldLeft(LAMBDA s, piece : Kernel(s, piece, toks), ssm, PiecesRun)
         /\ done' = [r \in 1..N |-> IF r \in B THEN done[r] + right(r) ELSE done[r]]
         /\ accepted' = [r \in 1..N |-> IF r \in B THEN kept[r] + 1 ELSE accepted[r]]
  /\ batch' = None /\ meta' = None
  /\ UNCHANGED <<conf, slot, buf>>

\* finish_requests; the same number comes back as a new request.
Finish(r) ==
  /\ batch = None /\ slot[r] # 0
  /\ slot' = [slot EXCEPT ![r] = 0]
  /\ done' = [done EXCEPT ![r] = 0] /\ accepted' = [accepted EXCEPT ![r] = 1]
  /\ UNCHANGED <<conf, ssm, buf, batch, meta>>

Init ==
  /\ conf \in Configs
  /\ slot = [r \in 1..N |-> 0] /\ done = slot /\ accepted = [r \in 1..N |-> 1]
  /\ ssm = [b \in (1..conf.slots) \X (1..Width) |-> Junk]
  /\ buf = [specState |-> [i \in 1..MaxBs |-> [j \in 1..Width |-> <<1, j>>]],
            specLoc |-> [i \in 1..(MaxBs + 1) |-> 0], acc |-> [i \in 1..MaxBs |-> 1],
            nonState |-> [i \in 1..MaxBs |-> <<1, 1>>], nonLoc |-> [i \in 1..(MaxBs + 1) |-> 0]]
  /\ batch = None /\ meta = None

Next ==
  \/ \E rows \in [1..N -> [q : 0..(IF Chunk > Width THEN Chunk ELSE Width), drafts : -1..conf.spec]] :
       Prepare(rows)
  \/ BuildStep
  \/ \E kept \in [1..N -> 0..conf.spec] : Forward(kept)
  \/ \E r \in 1..N : Finish(r)

Spec == Init /\ [][Next]_vars

-----------------------------------------------------------------------------
(* Properties.                                                             *)

\* Types; what is staged fits the buffers, sized by the largest graph.
TypeOK ==
  /\ slot \in [1..N -> 0..conf.slots] /\ done \in [1..N -> 0..MaxLen]
  /\ accepted \in [1..N -> 1..Width]
  /\ ssm \in [(1..conf.slots) \X (1..Width) -> (0..N) \X (0..MaxLen)]
  /\ Len(buf.specState) = MaxBs /\ Len(buf.nonState) = MaxBs /\ Len(buf.acc) = MaxBs
  /\ Len(buf.specLoc) = MaxBs + 1 /\ Len(buf.nonLoc) = MaxBs + 1

\* The state a request goes on from is its own, after exactly the tokens it has
\* computed, whatever the batches it was in, the kernels that ran and the blocks
\* it took over; where it lies is what num_accepted_tokens says.
StateKept ==
  \A r \in 1..N : slot[r] # 0 /\ done[r] > 0 =>
    ssm[<<slot[r], accepted[r]>>] = <<r, done[r]>>

\* A step computes every token of its batch, in one kernel only; a padded row of
\* a replayed graph computes none of them.
EveryTokenOnce ==
  meta # None =>
    \A i \in 1..Sum(Lens(batch)) :
      Cardinality({<<k, j>> \in (DOMAIN PiecesRun) \X (1..MaxLen) :
                     j <= Len(PiecesRun[k].tok) /\ PiecesRun[k].tok[j] = i}) = 1

\* Whichever kernels computed a step, verifications and prompts mixed or decodes
\* peeled off, each of its tokens finds its own output at its place in
\* core_attn_out: _forward_core, "Merge core attention output".
OutputsInPlace ==
  meta # None => \A i \in 1..Sum(Lens(batch)) : Outputs[i] = i

\* Kernels run in parallel: no two pieces with tokens write one block.
StatesApart ==
  meta # None =>
    \A k, l \in DOMAIN PiecesRun : k # l /\ PiecesRun[k].tok # <<>> /\ PiecesRun[l].tok # <<>> =>
      Range(PiecesRun[k].blocks) \cap Range(PiecesRun[l].blocks) \subseteq {Null}

\* A step treats every token of its batch once and in its place: types and buffer
\* sizes (TypeOK), one kernel per token (EveryTokenOnce), no block written by two
\* kernels (StatesApart), outputs merged where they belong (OutputsInPlace):
\* GDNAttentionMetadataBuilder.build and _forward_core.
TokensInPlace == TypeOK /\ EveryTokenOnce /\ StatesApart /\ OutputsInPlace

\* "Only replaces metadata preparation" (sm75_gdn_metadata.py): where the fast
\* path is taken it leaves the buffers and the metadata that build leaves.
FastAgrees ==
  batch # None /\ conf.fast /\ Eligible(batch) => BuildFast(batch) = Build(batch)
=============================================================================
