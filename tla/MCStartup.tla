----------------------------- MODULE MCStartup ------------------------------
(* Model-checking instance of Startup.                                     *)
EXTENDS Startup

Config(moe, graphs, eager, estimate, reserved, autofit, dflash, prefill, qla) ==
  [moe |-> moe, graphs |-> graphs, eager |-> eager, estimate |-> estimate,
   reserved |-> reserved, autofit |-> autofit, dflash |-> dflash, prefill |-> prefill, qla |-> qla]

\* A drafter with graphs and a fitted length; coordinated engines, with the
\* estimate of the graphs (one block more or less decides whether a sequence
\* fits) and without; an eager engine with its cache size given, on a device
\* FlashQLA falls back on
MCSetups ==
  {Config(FALSE, TRUE, FALSE, TRUE, 0, TRUE, TRUE, "flashqla_sm75", TRUE),
   Config(TRUE, TRUE, FALSE, TRUE, 0, FALSE, TRUE, "none", FALSE),
   Config(TRUE, TRUE, FALSE, FALSE, 0, FALSE, FALSE, "none", FALSE),
   Config(FALSE, FALSE, TRUE, TRUE, 3, FALSE, FALSE, "flashqla_sm75", FALSE)}
=============================================================================
