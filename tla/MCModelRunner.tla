--------------------------- MODULE MCModelRunner ---------------------------
(* ModelRunner on a small instance: one-token prompts, so that a request is *)
(* prefilled in chunks only when it comes back after a preemption.          *)
EXTENDS ModelRunner

MCPromptLen == [r \in Requests |-> 1]
=============================================================================
