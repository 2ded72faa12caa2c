----------------------------- MODULE MCDPClient -----------------------------
(* DPClient on a small instance.                                           *)
EXTENDS DPClient
=============================================================================
