-------------------------------- MODULE MCFleet --------------------------------
(* Small instances of Fleet for TLC.                                        *)
EXTENDS Fleet, TLC

(* Devices, phone numbers, numbers and request workers are interchangeable. *)
Symmetry ==
  Permutations(Devices) \cup Permutations(Numbers) \cup Permutations(Canonicals)
    \cup Permutations(ApiProcs)

===============================================================================
