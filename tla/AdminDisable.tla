----------------------------- MODULE AdminDisable -----------------------------
(***************************************************************************)
(* The one command that writes a number row without a compare-and-set: the  *)
(* Main admin's disabling of a number.  It reads the status, refuses a      *)
(* number an order holds, and then updates the row by id alone, so it is    *)
(* two steps of OrderLifecycle's world with anything in between.  What      *)
(* OrderLifecycle proves is about the system without it; this module shows  *)
(* what it does to a held number and to the order that holds it.            *)
(***************************************************************************)
EXTENDS OrderLifecycle

VARIABLE adminRead  \* the numbers an admin's transaction has read as idle

adminVars == <<vars, adminRead>>

AdminInit == Init /\ adminRead = {}

AdminReads(n) ==
  /\ n \notin adminRead
  /\ numbers[n].status \in IdleStatus
  /\ adminRead' = adminRead \cup {n}
  /\ UNCHANGED vars

(* The update neither compares the status nor touches currentOrderId       *)
(* (admin-resource-gateway.ts:237).                                         *)
AdminDisables(n) ==
  /\ n \in adminRead
  /\ numbers' = [numbers EXCEPT ![n].status = "disabled"]
  /\ adminRead' = adminRead \ {n}
  /\ UNCHANGED <<now, orders, fresh, sms, earned, jobKey, tx>>

AdminCrash(n) ==
  /\ n \in adminRead
  /\ adminRead' = adminRead \ {n}
  /\ UNCHANGED vars

AdminNext ==
  \/ Next /\ UNCHANGED adminRead
  \/ \E n \in Numbers : AdminReads(n) \/ AdminDisables(n) \/ AdminCrash(n)

AdminSpec == AdminInit /\ [][AdminNext]_adminVars

(* What admin-resource-service.ts says: a reserved or busy number cannot be *)
(* disabled until its order completes or is released.  Disabled under its   *)
(* order, the number makes every command on the order a rejection, and the  *)
(* timeout job stores its own under its constant key: the order waits for   *)
(* ever.                                                                    *)
HeldIsNotDisabled ==
  [][\A n \in Numbers :
       numbers[n].status = "busy" => numbers'[n].status # "disabled"]_adminVars

===============================================================================
