----------------------------- MODULE NumberLease -----------------------------
(* What the order system promises its parties, without transactions, jobs   *)
(* or devices: a number is leased to one order at a time; the order is paid *)
(* exactly when its first OTP arrives; the lease then outlives the payment  *)
(* until the order is closed, and an unpaid order gives it back unpaid.     *)
EXTENDS Naturals

CONSTANTS Orders, Numbers, None

VARIABLES
  phase,   \* where each order stands
  lease,   \* the order each number is leased to
  paid     \* how often the partner was paid for each order

vars == <<phase, lease, paid>>

Phases == {"absent", "waiting", "listening", "closed", "void"}

TypeOK ==
  /\ phase \in [Orders -> Phases]
  /\ lease \in [Numbers -> Orders \cup {None}]
  /\ paid \in [Orders -> Nat]

Init ==
  /\ phase = [o \in Orders |-> "absent"]
  /\ lease = [n \in Numbers |-> None]
  /\ paid = [o \in Orders |-> 0]

Grant(o, n) ==
  /\ phase[o] = "absent" /\ lease[n] = None
  /\ phase' = [phase EXCEPT ![o] = "waiting"]
  /\ lease' = [lease EXCEPT ![n] = o]
  /\ UNCHANGED paid

Pay(o) ==
  /\ phase[o] = "waiting"
  /\ phase' = [phase EXCEPT ![o] = "listening"]
  /\ paid' = [paid EXCEPT ![o] = @ + 1]
  /\ UNCHANGED lease

(* The end of a lease: a waiting order is void, a listening one is closed. *)
EndPhase(ph) == IF ph = "waiting" THEN "void" ELSE "closed"

Return(o, n) ==
  /\ phase[o] \in {"waiting", "listening"} /\ lease[n] = o
  /\ phase' = [phase EXCEPT ![o] = EndPhase(@)]
  /\ lease' = [lease EXCEPT ![n] = None]
  /\ UNCHANGED paid

Next == \E o \in Orders : \/ Pay(o)
                          \/ \E n \in Numbers : Grant(o, n) \/ Return(o, n)

Spec == Init /\ [][Next]_vars

===============================================================================
