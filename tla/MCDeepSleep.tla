---------------------------- MODULE MCDeepSleep ----------------------------
(* Model-checking instance of DeepSleep.                                   *)
EXTENDS DeepSleep
=============================================================================
