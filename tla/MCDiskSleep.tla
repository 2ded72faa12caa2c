---------------------------- MODULE MCDiskSleep ----------------------------
(* Model-checking instance of DiskSleep.                                   *)
EXTENDS DiskSleep
=============================================================================
