-------------------------- MODULE FlashInferMeta --------------------------
(***************************************************************************)
(* The FlashInfer attention backend: the choice of kernels, the builder's  *)
(* page buffers and wrappers, CUDA graphs over them, and the SM75 adapter  *)
(* that lets a verification of one request be captured                     *)
(* (sm75_fa2_graph.py).                                                    *)
(*                                                                         *)
(* A captured graph goes on using the wrapper it was captured with: the    *)
(* attention a replay computes is right only if this step's build planned  *)
(* that very wrapper.  What a token attends to is a list of pages and a    *)
(* number of positions in them; page k of request r is <<r, k>>.           *)
(*                                                                         *)
(* Decode context parallelism, cascade attention (use_cascade_attention is *)
(* always false), sinks, NVFP4 caches and the trtllm-gen prefill kernel,   *)
(* which reads the block table like the decode kernels, are left out.  The *)
(* scheduler, split_decodes_and_prefills, the graph manager and the        *)
(* kernels are not part of the repository.                                 *)
(***************************************************************************)
EXTENDS Integers, Sequences, FiniteSets, SequencesExt, FiniteSetsExt, Functions

CONSTANTS
  MaxReqs,   \* max_num_seqs
  MaxLen,    \* max_model_len
  PageSize,
  MaxSteps,  \* bound: steps after the capture
  Configs    \* what a server may be started with

\* A configuration: the GPU (arch), the head size, VLLM_BATCH_INVARIANT,
\* SM75_FA2_SMALLQ_GRAPH (adapter), num_speculative_tokens (spec), whether the
\* draft model is the non-causal one of DFlash, whether decode graphs are FULL,
\* cudagraph_capture_sizes and the largest of them (capture).
ASSUME FlashInferAssumption ==
  /\ {MaxReqs, MaxLen, PageSize, MaxSteps} \subseteq Nat \ {0}
  /\ \A c \in Configs : c.spec \in Nat /\ c.sizes \subseteq 1..c.capture /\ c.capture \in Nat
  /\ \A c \in Configs : c.arch \in {"sm75", "sm90", "sm100"}

VARIABLES
  conf,
  buf,     \* paged_kv_indptr, paged_kv_indices, paged_kv_last_page_len
  wraps,   \* what each wrapper made so far was last planned with
  graphs,  \* per captured shape, the wrappers its kernels use
  batch,   \* the batch of the step under way
  meta,    \* FlashInferMetadata of the step under way
  steps    \* steps taken

vars == <<conf, buf, wraps, graphs, batch, meta, steps>>

None == <<>>
Sum(s) == FoldLeft(LAMBDA a, b : a + b, 0, s)
Cdiv(a, b) == (a + b - 1) \div b
Width == conf.spec + 1
StartLoc(lens) == [i \in 1..(Len(lens) + 1) |-> Sum(SubSeq(lens, 1, i - 1))]

\* A batch has rows, a direction, and may replay the graph of its shape; a
\* padded row has no request, no query and no length.
PadRow == [req |-> 0, q |-> 0, len |-> 0]
Lens(b) == [i \in DOMAIN b.rows |-> b.rows[i].q]
PagesOf(row) == [k \in 1..Cdiv(row.len, PageSize) |-> <<row.req, k>>]
NumTokens(b) == IF b.graph THEN Len(b.rows) * Width ELSE Sum(Lens(b))   \* num_actual_tokens

-----------------------------------------------------------------------------
(* FlashInferMetadataBuilder.__init__: the kernels.                        *)

XqaArch == conf.arch = "sm90"
CanUseTrtllm == conf.arch \in {"sm90", "sm100"}   \* can_use_trtllm_attention
XqaHead == conf.head <= 256                      \* _is_xqa_head_dim_supported

\* flashinfer_trtllm_api_decode_kernel
DecodeKernel ==
  IF ~ CanUseTrtllm \/ (XqaArch /\ ~ XqaHead) THEN "native"
  ELSE IF XqaArch THEN "xqa" ELSE "gen"

\* reorder_batch_threshold
Threshold == IF DecodeKernel = "native" THEN 1 ELSE Width

\* captured_query_rows: the shapes of verification batches the graphs are for
CapturedRows ==
  {Cdiv(s, Width) * Width :
     s \in {x \in conf.sizes : x > 0 /\ Cdiv(x, Width) * Width <= conf.capture /\ Cdiv(x, Width) <= 8}}

\* supports, in the adapter's graph_support
AdapterSupports ==
  /\ conf.adapter /\ conf.arch = "sm75" /\ ~ conf.invariant
  /\ conf.spec \in 1..7 /\ CapturedRows = {Width} /\ conf.head \in {128, 256}

\* get_cudagraph_support
UniformBatch ==
  \/ AdapterSupports
  \/ (CanUseTrtllm /\ ~ (XqaArch /\ ~ XqaHead) /\ (~ conf.draft \/ XqaArch))

-----------------------------------------------------------------------------
(* The builder.                                                            *)

\* split_decodes_and_prefills: the number of rows in front that are decodes
UniformPadded(q) == \A i \in DOMAIN q : q[i] = q[1] \/ q[i] = 0
Decodes(b) ==
  LET q == Lens(b)
      uniform == DecodeKernel # "xqa"
      prefill == {i \in DOMAIN q : IF uniform THEN q[i] # q[1] ELSE q[i] > Threshold}
  IN  IF ~ b.causal /\ DecodeKernel # "xqa" THEN 0
      ELSE IF Max(Range(q)) <= Threshold /\ (~ uniform \/ Threshold = 1) THEN Len(q)
      ELSE IF q[1] > Threshold THEN 0
      ELSE IF prefill = {} \/ (uniform /\ UniformPadded(q)) THEN Len(q)
      ELSE Min(prefill) - 1

\* num_decode_tokens
DecodeTokens(b) ==
  IF Decodes(b) = Len(b.rows) THEN NumTokens(b) ELSE Sum(SubSeq(Lens(b), 1, Decodes(b)))

\* A plan of a native wrapper: query starts, page starts, pages, last page lengths
Plan(qo, ptr, pages, last, causal) ==
  [qo |-> qo, ptr |-> ptr, pages |-> pages, last |-> last, causal |-> causal]

\* _compute_flashinfer_kv_metadata: the buffers are written in place.
LastPage(len) == IF len % PageSize = 0 /\ len # 0 THEN PageSize ELSE len % PageSize
WriteFront(old, x) == [i \in 1..Max({Len(old), Len(x)}) |-> IF i <= Len(x) THEN x[i] ELSE old[i]]

PageBuffers(b) ==
  LET rows == b.rows
      pages == FoldLeft(LAMBDA p, w : p \o PagesOf(w), <<>>, rows)
  IN  [ptr |-> WriteFront(buf.ptr, StartLoc([i \in DOMAIN rows |-> Len(PagesOf(rows[i]))])),
       pages |-> WriteFront(buf.pages, pages),
       last |-> WriteFront(buf.last, [i \in DOMAIN rows |-> LastPage(rows[i].len)])]

\* Mutant: the adapter is used for batches of any uniform size.
SmallqKeyAnyBatch(b) ==
  /\ conf.adapter /\ conf.arch = "sm75" /\ conf.full /\ ~ conf.invariant /\ conf.head \in {128, 256}
  /\ Max(Range(Lens(b))) = Width /\ CapturedRows = {Width}

\* The adapter's build: is this a batch the small-query graph is for?
SmallqKey(b) ==
  /\ conf.adapter /\ conf.arch = "sm75" /\ conf.full /\ ~ conf.invariant /\ conf.head \in {128, 256}
  /\ Len(b.rows) = 1 /\ Max(Range(Lens(b))) = Width /\ Width \in 2..8
  /\ NumTokens(b) = Width /\ CapturedRows = {Width}

\* The adapter's wrapper, with fixed buffers for one request
SmallqWrapper(b) == <<"small", 1, b.causal>>

\* _get_prefill_wrapper, wrapped by the adapter
PrefillWrapper(b) ==
  IF SmallqKey(b) THEN SmallqWrapper(b)
  ELSE <<IF b.causal THEN "prefill" ELSE "noncausal", 0, b.causal>>

\* _get_decode_wrapper: with graphs, one per batch size; only for pure decodes
DecodeWrapper(b) ==
  IF conf.full /\ Decodes(b) = Len(b.rows) /\ NumTokens(b) <= conf.capture
  THEN <<"decodeGraph", NumTokens(b), TRUE>>
  ELSE <<"decode", 0, TRUE>>

\* Mutant: the page starts of the prefills are counted from their own first page.
PrefillPlanRebased(b, pb) ==
  LET n == Len(b.rows)
      d == Decodes(b)
      ptr == SubSeq(pb.ptr, d + 1, n + 1)
  IN  Plan(StartLoc(SubSeq(Lens(b), d + 1, n)), [i \in DOMAIN ptr |-> ptr[i] - ptr[1]],
           pb.pages, SubSeq(pb.last, d + 1, n), b.causal)

\* The prefills' part of the buffers; their queries are counted from their first
PrefillPlan(b, pb) ==
  LET n == Len(b.rows)
      d == Decodes(b)
  IN  Plan(StartLoc(SubSeq(Lens(b), d + 1, n)), SubSeq(pb.ptr, d + 1, n + 1), pb.pages,
           SubSeq(pb.last, d + 1, n), b.causal)

\* The decodes' part, a row for each token
DecodePlan(b, pb, n) ==
  Plan([i \in 1..(n + 1) |-> i - 1], SubSeq(pb.ptr, 1, n + 1), pb.pages, SubSeq(pb.last, 1, n), TRUE)

\* _compute_decode_query_lens: one query length for all, or starts
QueryLens(b, d) ==
  LET q == SubSeq(Lens(b), 1, d)
      most == Max(Range(q))
      equal == IF DecodeKernel = "xqa" THEN \A i \in 1..d : q[i] \in {0, most}
               ELSE \A i \in 1..d : q[i] = most
  IN  IF most <= 1 THEN [len |-> 1, starts |-> None]
      ELSE IF equal /\ DecodeTokens(b) = d * most THEN [len |-> most, starts |-> None]
      ELSE [len |-> most, starts |-> StartLoc(q)]

\* build.  Native parts use planned wrappers, the others the block tables.
Uses(b) ==
  LET d == Decodes(b)
      n == Len(b.rows)
  IN  [prefill |-> IF d < n THEN PrefillWrapper(b) ELSE None,
       decode |-> IF d > 0 /\ DecodeKernel = "native" THEN DecodeWrapper(b) ELSE None,
       api |-> IF d > 0 /\ DecodeKernel # "native" THEN QueryLens(b, d) ELSE None]

Planned(b, u, pb) ==
  (IF u.prefill # None THEN (u.prefill :> PrefillPlan(b, pb)) ELSE <<>>)
  @@ (IF u.decode # None
      THEN u.decode :> DecodePlan(b, pb, DecodeTokens(b)) ELSE <<>>)
  @@ wraps

\* FlashInferMetadata
Metadata(b) ==
  [uses |-> Uses(b), decodes |-> Decodes(b), decodeTokens |-> DecodeTokens(b)]

BuildMetadata(b) ==
  LET u == Uses(b)
      pb == IF u.prefill # None \/ u.decode # None THEN PageBuffers(b) ELSE buf
  IN  buf' = pb /\ wraps' = Planned(b, u, pb)

-----------------------------------------------------------------------------
(* FlashInferImpl.forward: what token t of the batch attends to.  Decodes  *)
(* are in front, prefills behind.                                          *)

View(pages, kv) == [pages |-> pages, kv |-> kv]

\* A wrapper's kernel; one for a graph reads the shared page buffers.
Content(w) == IF w[1] = "decodeGraph"
              THEN [wraps[w] EXCEPT !.pages = buf.pages] ELSE wraps[w]
NativeView(plan, t) ==
  LET i == Max({k \in 1..(Len(plan.qo) - 1) : plan.qo[k] < t})
      pages == SubSeq(plan.pages, plan.ptr[i] + 1, plan.ptr[i + 1])
      kv == (Len(pages) - 1) * PageSize + plan.last[i]
  IN  View(pages, IF plan.causal THEN kv - (plan.qo[i + 1] - t) ELSE kv)

\* _get_decode_mask: how far query k of the n of a row sees; the draft's block
\* mask is full, the other is aligned with the row's end.
QueryMask(b, row, n, k) == IF b.causal THEN row.len - (n - k) ELSE row.len

\* XQA and trtllm-gen read the rows of the block table.
ApiView(b, q, t) ==
  LET i == IF q.starts = None THEN ((t - 1) \div q.len) + 1
           ELSE Max({k \in 1..(Len(q.starts) - 1) : q.starts[k] < t})
      n == IF q.starts = None THEN q.len ELSE q.starts[i + 1] - q.starts[i]
      k == IF q.starts = None THEN ((t - 1) % q.len) + 1 ELSE t - q.starts[i]
      row == b.rows[i]
  IN  View(PagesOf(row), QueryMask(b, row, n, k))

\* Eager kernels are those of the metadata; a replay's are the captured ones.
Shape(b) == <<Len(b.rows), b.causal>>
Running == IF batch.graph THEN graphs[Shape(batch)] ELSE meta
Attends(t) ==
  IF t > Running.decodeTokens THEN NativeView(Content(Running.uses.prefill), t - Running.decodeTokens)
  ELSE IF Running.uses.decode # None THEN NativeView(Content(Running.uses.decode), t)
  ELSE ApiView(batch, Running.uses.api, t)

-----------------------------------------------------------------------------
(* Capture and steps.                                                      *)

\* The shapes the graph manager captures, if the backend allows for them
Capturable ==
  IF conf.full /\ (UniformBatch \/ Width = 1)
  THEN {<<n, c>> \in (1..MaxReqs) \X (IF conf.draft THEN BOOLEAN ELSE {TRUE}) :
          \E s \in conf.sizes : n = Cdiv(s, Width) /\ n * Width <= conf.capture}
  ELSE {}

DummyBatch(shape) ==
  [rows |-> [i \in 1..shape[1] |-> [req |-> 0, q |-> Width, len |-> Width]],
   causal |-> shape[2], graph |-> TRUE]

\* build_for_cudagraph_capture and the capture
Capture(shape) ==
  /\ batch = None /\ shape \in Capturable \ DOMAIN graphs
  /\ BuildMetadata(DummyBatch(shape))
  /\ graphs' = (shape :> Metadata(DummyBatch(shape))) @@ graphs
  /\ UNCHANGED <<conf, batch, meta, steps>>

\* A batch in the order of sort_batch_req_ids.  One whose shape was captured is
\* padded and replays, unless a request is still in its prompt (has_prefill): then
\* the target runs it eagerly, and the drafter replays all the same.
Sorted(rows) ==
  \A i, j \in DOMAIN rows : i < j =>
    \/ (rows[i].q = Width /\ rows[j].q # Width)
    \/ ((rows[i].q = Width <=> rows[j].q = Width) /\ rows[i].q <= rows[j].q)
Fits(rows, causal) ==
  {n \in Len(rows)..MaxReqs :
     <<n, causal>> \in Capturable /\ \A i \in DOMAIN rows : rows[i].q = Width}

Prepare(rows, causal) ==
  /\ batch = None /\ steps < MaxSteps /\ Capturable \subseteq DOMAIN graphs
  /\ causal \/ (conf.draft /\ \A i \in DOMAIN rows : rows[i].q = Width)
  /\ Sorted(rows)
  /\ \/ /\ causal \/ Fits(rows, causal) = {}
        /\ batch' = [rows |-> rows, causal |-> causal, graph |-> FALSE]
     \/ /\ Fits(rows, causal) # {}
        /\ LET n == Min(Fits(rows, causal))
           IN  batch' = [rows |-> [i \in 1..n |-> IF i <= Len(rows) THEN rows[i] ELSE PadRow],
                         causal |-> causal, graph |-> TRUE]
  /\ UNCHANGED <<conf, buf, wraps, graphs, meta, steps>>

Build ==
  /\ batch # None /\ meta = None
  /\ BuildMetadata(batch)
  /\ meta' = Metadata(batch)
  /\ UNCHANGED <<conf, graphs, batch, steps>>

Forward ==
  /\ meta # None /\ batch # None
  /\ batch' = None /\ meta' = None /\ steps' = steps + 1
  /\ UNCHANGED <<conf, buf, wraps, graphs>>

\* The buffers are made for the largest batch.
EmptyBuffers ==
  [ptr |-> [i \in 1..(MaxReqs + 1) |-> 0],
   pages |-> [i \in 1..(MaxReqs * Cdiv(MaxLen, PageSize)) |-> <<0, 0>>],
   last |-> [i \in 1..MaxReqs |-> 0]]

Init ==
  /\ conf \in Configs
  /\ buf = EmptyBuffers
  /\ wraps = <<>> /\ graphs = <<>> /\ batch = None /\ meta = None /\ steps = 0

Next ==
  \/ \E shape \in Capturable : Capture(shape)
  \/ \E n \in 1..MaxReqs : \E q \in [1..n -> 1..MaxLen], l \in [1..n -> 1..MaxLen], c \in BOOLEAN :
       /\ \A i \in 1..n : q[i] <= l[i]
       /\ Prepare([i \in 1..n |-> [req |-> i, q |-> q[i], len |-> l[i]]], c)
  \/ Build \/ Forward

Spec == Init /\ [][Next]_vars

-----------------------------------------------------------------------------
(* Properties.                                                             *)

\* Types; the pages of a batch fit the page buffers.
TypeOK ==
  /\ conf \in Configs
  /\ Len(buf.ptr) = MaxReqs + 1 /\ Len(buf.last) = MaxReqs
  /\ Len(buf.pages) = MaxReqs * Cdiv(MaxLen, PageSize)
  /\ DOMAIN graphs \subseteq Capturable

\* Every token attends to the pages of its own request, up to its own position
\* (all of them in a draft's batch), whichever kernel, wrapper or captured graph
\* computes it and whatever was planned before.
AttendsOwn ==
  batch # None /\ meta # None =>
    \A i \in DOMAIN batch.rows : \A k \in 1..batch.rows[i].q :
      LET row == batch.rows[i]
      IN  Attends(Sum(SubSeq(Lens(batch), 1, i - 1)) + k)
            = View(PagesOf(row), IF batch.causal THEN row.len - (row.q - k) ELSE row.len)

\* A wrapper made for a graph has buffers of one size: it is only planned with
\* as many rows as it was made for.
FixedSizePlans ==
  \A w \in DOMAIN wraps :
    w[1] \in {"small", "decodeGraph"} => Len(wraps[w].last) = w[2]

\* The adapter's two gates agree: a shape that graph_support promised a graph
\* for is captured, and replayed, with the adapter's own wrapper.
AdapterGates ==
  AdapterSupports =>
    /\ \A s \in DOMAIN graphs : graphs[s].uses.prefill = <<"small", 1, s[2]>>
    /\ batch # None /\ meta # None /\ batch.graph => meta.uses = graphs[Shape(batch)].uses

\* What graphs replay is what was planned for them: page buffers of their size
\* (TypeOK), wrappers planned with as many rows as they were made for
\* (FixedSizePlans), the adapter's promises kept (AdapterGates): build and
\* sm75_fa2_graph.
GraphsPlanned == TypeOK /\ FixedSizePlans /\ AdapterGates
=============================================================================
