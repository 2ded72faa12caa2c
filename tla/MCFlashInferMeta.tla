-------------------------- MODULE MCFlashInferMeta --------------------------
(* FlashInferMeta on a small instance.                                     *)
EXTENDS FlashInferMeta

Config(arch, head, adapter, spec, draft, full, sizes, capture) ==
  [arch |-> arch, head |-> head, invariant |-> FALSE, adapter |-> adapter, spec |-> spec,
   draft |-> draft, full |-> full, sizes |-> sizes, capture |-> capture]

\* Turing with and without the adapter, drafts and graphs, and with capture
\* sizes the adapter is not for; Hopper with and without a head XQA has;
\* Blackwell
MCConfigs ==
  {Config("sm75", 256, TRUE, 1, TRUE, TRUE, {2}, 2), Config("sm75", 128, TRUE, 1, FALSE, TRUE, {2, 4}, 4),
   Config("sm75", 128, FALSE, 1, TRUE, TRUE, {2}, 2), Config("sm75", 256, TRUE, 0, FALSE, TRUE, {1, 2}, 2),
   Config("sm75", 256, TRUE, 0, FALSE, TRUE, {2}, 2), Config("sm75", 256, TRUE, 1, TRUE, FALSE, {2}, 2),
   Config("sm90", 128, FALSE, 1, TRUE, TRUE, {2, 4}, 4), Config("sm90", 512, FALSE, 1, FALSE, TRUE, {2}, 2),
   Config("sm100", 128, FALSE, 1, FALSE, TRUE, {4}, 4), Config("sm100", 128, FALSE, 1, TRUE, TRUE, {2}, 2)}
=============================================================================
