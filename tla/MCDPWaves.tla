------------------------------ MODULE MCDPWaves ------------------------------
(* Model-checking instances of DPWaves: operator calls and symmetry.       *)
EXTENDS DPWaves, TLC

Symmetry == Permutations(Requests)

SomeCalls ==
  {[op |-> "pause", mode |-> "keep"], [op |-> "sleep", mode |-> "wait"],
   [op |-> "resume"], [op |-> "wake"]}

=============================================================================
