---------------------------- MODULE WeightStore -----------------------------
(***************************************************************************)
(* What disk-backed sleep promises about the weights: each rank keeps, for *)
(* every weight allocation, the bytes it was loaded with on the device, on *)
(* disk or on both.  They reach the disk all at once, leave the device one *)
(* by one and only with a copy on disk, come back from that copy, and the  *)
(* copies are given up all at once, when all of them are on the device.    *)
(* DiskSleep implements it with saves, rollbacks and restores that may     *)
(* fail at any point.                                                      *)
(***************************************************************************)
CONSTANTS Ranks, Weights

VARIABLE place   \* per rank and weight, where its bytes are

OnDevice(r) == \A a \in Weights : "device" \in place[r][a]

Init == place = [r \in Ranks |-> [a \in Weights |-> {"device"}]]

Save(r) ==
  /\ OnDevice(r)
  /\ place' = [place EXCEPT ![r] = [a \in Weights |-> {"device", "disk"}]]

Unload(r, a) ==
  /\ "disk" \in place[r][a]
  /\ place' = [place EXCEPT ![r][a] = {"disk"}]

Load(r, a) ==
  /\ "disk" \in place[r][a]
  /\ place' = [place EXCEPT ![r][a] = {"device", "disk"}]

Discard(r) ==
  /\ OnDevice(r)
  /\ place' = [place EXCEPT ![r] = [a \in Weights |-> {"device"}]]

Next ==
  \E r \in Ranks :
    \/ Save(r) \/ Discard(r)
    \/ \E a \in Weights : Unload(r, a) \/ Load(r, a)

Spec == Init /\ [][Next]_place
=============================================================================
