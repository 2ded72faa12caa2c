--------------------------- MODULE MCGdnMetadata ---------------------------
(* GdnMetadata on a small instance.                                        *)
EXTENDS GdnMetadata

Config(spec, full, capture, packed, fast, capable) ==
  [spec |-> spec, full |-> full, capture |-> capture, packed |-> packed, fast |-> fast,
   cuda |-> TRUE, capable |-> capable, reqs |-> 2, slots |-> 2, len |-> 4]

\* With and without drafts, graphs, the packed decode kernel and the fast path;
\* graphs that hold every batch, and graphs that do not; shorter requests without
\* packing and with the fused kernel; three of them, so that a batch mixes
\* verifications, prompts and decodes
MCConfigs ==
  {Config(1, TRUE, 4, TRUE, TRUE, FALSE),
   [Config(1, TRUE, 4, FALSE, FALSE, FALSE) EXCEPT !.len = 3],
   Config(1, TRUE, 1, TRUE, TRUE, FALSE), Config(1, FALSE, 4, TRUE, FALSE, FALSE),
   Config(0, TRUE, 2, TRUE, FALSE, FALSE), Config(0, TRUE, 2, FALSE, FALSE, FALSE),
   Config(0, TRUE, 1, TRUE, FALSE, FALSE), Config(0, FALSE, 2, TRUE, FALSE, FALSE),
   [Config(1, TRUE, 4, TRUE, FALSE, TRUE) EXCEPT !.len = 3],
   [Config(1, FALSE, 4, FALSE, FALSE, FALSE) EXCEPT !.reqs = 3, !.slots = 3, !.len = 3]}

MCPromptLen == <<3, 1, 1>>
=============================================================================
