---------------------------- MODULE MCReservation ----------------------------
(* Small instances of Reservation for TLC.  Numbers are ordered, so they    *)
(* are not interchangeable.                                                 *)
EXTENDS Reservation, TLC

Symmetry == Permutations(Keys) \cup Permutations(Refs) \cup Permutations(EarlyRefusal) \cup Permutations(Procs)

===============================================================================
