--------------------------- MODULE MCOrderLifecycle ---------------------------
(* Instances of OrderLifecycle for TLC: the symmetries of sets whose members *)
(* the specification never tells apart (none is used for liveness).         *)
EXTENDS ReconcileOrders

OrderSymmetry == Permutations(Orders)
RepeatSymmetry == Permutations(ApiProcs) \cup Permutations(Messages)

===============================================================================
