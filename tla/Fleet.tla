--------------------------------- MODULE Fleet ---------------------------------
(***************************************************************************)
(* The fleet: devices that heartbeat, the sweep that takes silent ones      *)
(* offline, and the numbers they host, which the portal, the agents, the    *)
(* heartbeats, the sweep and the orders all write.                          *)
(*                                                                         *)
(* A command is one READ COMMITTED transaction: it reads, decides, then     *)
(* writes with a compare-and-set on the number's status only (never on its  *)
(* device).  A device row updated by a transaction stays locked until it    *)
(* ends: heartbeat and sweep write the device first and list its numbers    *)
(* next, so they hold that lock while they commit (step "commit").          *)
(*                                                                         *)
(* Abstractions.  One partner; orders are the pair Reserve / release of a   *)
(* busy number; whether an active offer covers a number is any answer at    *)
(* each look; a device that never heartbeated has seen = 0.  The portal's   *)
(* and the Main admin's disabling of a device are one action.  The admin's  *)
(* disabling of a number is in AdminDisable.                                *)
(***************************************************************************)
EXTENDS Naturals

CONSTANTS
  Devices, Numbers,
  Canonicals,        \* phone numbers in canonical form
  ApiProcs,          \* workers serving portal, agent and order requests
  CronProcs,         \* workers of the offline sweep
  None,
  HeartbeatTimeout,  \* heartbeatTimeoutSeconds of the active configuration
  MaxTime,           \* bound on the clock
  MaxOrders          \* bound on the orders one number serves

ASSUME FleetAssumption ==
  /\ HeartbeatTimeout \in Nat \ {0} /\ MaxTime \in Nat /\ MaxOrders \in Nat
  /\ None \notin Devices \cup Numbers
  /\ ApiProcs \cap CronProcs = {}

VARIABLES
  now,      \* the server clock
  devices,  \* partner_devices rows; off: disabledAt is set
  numbers,  \* partner_numbers rows; orders: how many orders refer to it
  tx        \* the transaction each worker is running

vars == <<now, devices, numbers, tx>>

Procs == ApiProcs \cup CronProcs
NumberStatus == {"offline", "available", "busy", "disabled"}
NumberCommands == {"disable", "reenable", "move", "delete", "availability", "release"}

DeviceRow == [status : {"offline", "online", "disabled"}, off : BOOLEAN, seen : Nat]
NumberRow == [status : NumberStatus \cup {"absent"}, dev : Devices,
              canon : Canonicals, orders : Nat]

(* A transaction: the devices it writes, the number it commands with the    *)
(* status it read (was) and decided on (to) and the order it releases, the  *)
(* instant of its request, the lastSeenAt it read, and, for a heartbeat or a *)
(* sweep, the status each listed number is to get.                          *)
Tx == [step : {"idle", "read", "commit"},
       cmd : NumberCommands \cup {"none", "heartbeat", "sweep"},
       devs : SUBSET Devices, n : Numbers \cup {None},
       was : NumberStatus \cup {"absent"}, to : NumberStatus \cup {"absent"},
       order : Nat, at : Nat, seen : Nat,
       todo : [Numbers -> {"keep", "available", "offline"}]]

Nothing == [n \in Numbers |-> "keep"]
Idle == [step |-> "idle", cmd |-> "none", devs |-> {}, n |-> None, was |-> "absent",
         to |-> "absent", order |-> 0, at |-> 0, seen |-> 0, todo |-> Nothing]

Init ==
  /\ now = 0
  /\ devices = [d \in Devices |-> [status |-> "offline", off |-> FALSE, seen |-> 0]]
  /\ numbers \in [Numbers -> [status : {"absent"}, dev : Devices, canon : Canonicals,
                              orders : {0}]]
  /\ tx = [p \in Procs |-> Idle]

Later(a, b) == IF a > b THEN a ELSE b

Locked(d) == \E q \in Procs : tx[q].step = "commit" /\ d \in tx[q].devs
                              /\ tx[q].cmd \in {"heartbeat", "sweep"}

(* isDeviceLive: online, heard of no longer ago than the timeout.           *)
Live(d) == devices[d].status = "online" /\ now <= devices[d].seen + HeartbeatTimeout

End(p) == tx' = [tx EXCEPT ![p] = Idle]

-------------------------------------------------------------------------------
(* Heartbeats.                                                              *)

(* The device row is read; a disabled device is refused.                    *)
HeartbeatRead(p, d) ==
  /\ tx[p].step = "idle"
  /\ devices[d].status # "disabled"
  /\ tx' = [tx EXCEPT ![p] = [Idle EXCEPT !.step = "read", !.cmd = "heartbeat",
                                          !.devs = {d}, !.at = now,
                                          !.seen = devices[d].seen]]
  /\ UNCHANGED <<now, devices, numbers>>

(* Mutant: the database lets an update bring a disabled device back. *)
UpdateAllowedAlways(row, status) == TRUE

(* partner_devices_disabled_check: "disabled" exactly when disabledAt is    *)
(* set.  A heartbeat sets the status alone.                                 *)
UpdateAllowed(row, status) == (status = "disabled") = row.off

(* The statuses a heartbeat gives the idle numbers of its (live) device:    *)
(* available where an offer covers the number, offline elsewhere.           *)
Recovered(d, offered) ==
  [n \in Numbers |->
     IF numbers[n].dev # d \/ numbers[n].status \notin {"offline", "available"}
     THEN "keep"
     ELSE LET to == IF n \in offered THEN "available" ELSE "offline" IN
          IF to = numbers[n].status THEN "keep" ELSE to]

(* The device is updated, unconditionally, and its idle numbers are listed. *)
(* Two heartbeats that read the same row overwrite each other's lastSeenAt, *)
(* in either order.                                                         *)
HeartbeatWrite(p, d) ==
  /\ tx[p].step = "read" /\ tx[p].cmd = "heartbeat" /\ tx[p].devs = {d}
  /\ ~Locked(d)
  /\ UpdateAllowed(devices[d], "online")
  /\ \E offered \in SUBSET Numbers :
       tx' = [tx EXCEPT ![p] = [@ EXCEPT !.step = "commit", !.todo = Recovered(d, offered)]]
  /\ UNCHANGED <<now, devices, numbers>>

(* The compare-and-set of each listed number, on the status it was read in. *)
Listed(todo, n) ==
  \/ todo[n] = "available" /\ numbers[n].status = "offline"
  \/ todo[n] = "offline" /\ numbers[n].status = "available"

SetListed(todo) ==
  numbers' = [n \in Numbers |->
                IF Listed(todo, n) THEN [numbers[n] EXCEPT !.status = todo[n]]
                                   ELSE numbers[n]]

HeartbeatCommit(p) ==
  LET t == tx[p] IN
  /\ t.step = "commit" /\ t.cmd = "heartbeat"
  /\ devices' = [d \in Devices |->
                   IF d \in t.devs
                   THEN [devices[d] EXCEPT !.status = "online", !.seen = Later(t.seen, t.at)]
                   ELSE devices[d]]
  /\ SetListed(t.todo)
  /\ End(p)
  /\ UNCHANGED now

-------------------------------------------------------------------------------
(* The offline sweep.                                                       *)

(* Mutant: only devices that offer numbers are looked at. *)
OverdueOffering(d) ==
  /\ devices[d].status = "online"
  /\ devices[d].seen + HeartbeatTimeout <= now
  /\ \E n \in Numbers : numbers[n].dev = d /\ numbers[n].status = "available"

Overdue(d) ==
  /\ devices[d].status = "online"
  /\ devices[d].seen + HeartbeatTimeout <= now

(* Overdue devices are locked (SKIP LOCKED), marked offline, and their      *)
(* available numbers listed.                                                *)
SweepLock(p) ==
  LET S == {d \in Devices : Overdue(d) /\ ~Locked(d)} IN
  /\ tx[p].step = "idle"
  /\ S # {}
  /\ tx' = [tx EXCEPT ![p] =
              [Idle EXCEPT !.step = "commit", !.cmd = "sweep", !.devs = S,
                           !.todo = [n \in Numbers |->
                             IF numbers[n].dev \in S /\ numbers[n].status = "available"
                             THEN "offline" ELSE "keep"]]]
  /\ UNCHANGED <<now, devices, numbers>>

SweepCommit(p) ==
  LET t == tx[p] IN
  /\ t.step = "commit" /\ t.cmd = "sweep"
  /\ devices' = [d \in Devices |->
                   IF d \in t.devs THEN [devices[d] EXCEPT !.status = "offline"]
                                   ELSE devices[d]]
  /\ SetListed(t.todo)
  /\ End(p)
  /\ UNCHANGED now

-------------------------------------------------------------------------------
(* Devices in the portal and in the admin area: plain updates.              *)

DisableDevice(d) ==
  /\ ~Locked(d)
  /\ devices' = [devices EXCEPT ![d].status = "disabled", ![d].off = TRUE]
  /\ UNCHANGED <<now, numbers, tx>>

ReEnableDevice(d) ==
  /\ ~Locked(d)
  /\ devices' = [devices EXCEPT ![d].status = "offline", ![d].off = FALSE]
  /\ UNCHANGED <<now, numbers, tx>>

-------------------------------------------------------------------------------
(* Numbers.                                                                 *)

Active(n) == numbers[n].status \notin {"absent", "disabled"}

(* Mutant: registrations are compared with each other only. *)
SlotFreeAlways(n, c) == numbers[n].status = "disabled" \/
                        \A m \in Numbers \ {n} : Active(m) => numbers[m].canon # c

(* The unique activeCanonicalNumber slot. *)
SlotFree(n, c) == \A m \in Numbers \ {n} : Active(m) => numbers[m].canon # c

(* The row of a new number: offline until a heartbeat, and the unique slot   *)
(* decides between registrations.                                           *)
InsertNumber(n, d, c) ==
  /\ numbers[n].status = "absent"
  /\ SlotFree(n, c)
  /\ numbers' = [numbers EXCEPT ![n] = [status |-> "offline", dev |-> d, canon |-> c,
                                        orders |-> 0]]
  /\ UNCHANGED <<now, devices, tx>>

(* A member names one of the tenant's devices; its status is not looked at. *)
RegisterNumber(n, c) == \E d \in Devices : InsertNumber(n, d, c)

(* The agent of a device registers a number on it: the gate let the device  *)
(* in, but its row is only looked for again.                                *)
RegisterOnDevice(n, d, c) == InsertNumber(n, d, c)

(* What each command decides on the number it read: the guard of its domain  *)
(* rule and the status it writes.                                           *)
IdleNow(n) == numbers[n].status \notin {"absent", "busy"}

DisableNumber(n, to) == IdleNow(n) /\ to = "disabled"

ReEnableNumber(n, to) == numbers[n].status = "disabled" /\ to = "offline"

MoveNumberToDevice(n, to) == IdleNow(n) /\ to = numbers[n].status

DeleteNumber(n, to) == IdleNow(n) /\ to = "absent"

(* An agent's request: it may park or disable its number; to offer it, its   *)
(* device must be live, and without an offer for it the number is offline.  *)
SetAvailability(n, to) ==
  IdleNow(n) /\ \/ to \in {"disabled", "offline"}
                \/ to = "available" /\ Live(numbers[n].dev)

ReleaseNumber(n, to) ==
  /\ numbers[n].status = "busy"
  /\ to = IF Live(numbers[n].dev) THEN "available" ELSE "offline"

Decides(cmd, n, to) ==
  CASE cmd = "disable" -> DisableNumber(n, to)
    [] cmd = "reenable" -> ReEnableNumber(n, to)
    [] cmd = "move" -> MoveNumberToDevice(n, to)
    [] cmd = "delete" -> DeleteNumber(n, to)
    [] cmd = "availability" -> SetAvailability(n, to)
    [] cmd = "release" -> ReleaseNumber(n, to)

ReadNumber(p, cmd, n, d) ==
  /\ tx[p].step = "idle"
  /\ \E to \in NumberStatus \cup {"absent"} :
       /\ Decides(cmd, n, to)
       /\ tx' = [tx EXCEPT ![p] =
                   [Idle EXCEPT !.step = "commit", !.cmd = cmd, !.n = n,
                                !.devs = IF cmd = "move" THEN {d} ELSE {},
                                !.was = numbers[n].status, !.to = to,
                                !.order = IF cmd = "release" THEN numbers[n].orders ELSE 0]]
  /\ UNCHANGED <<now, devices, numbers>>

(* Mutant: a release compares the status alone. *)
AsReadStatus(t) ==
  IF t.cmd = "delete"
  THEN numbers[t.n].status # "absent" /\ numbers[t.n].orders = 0
  ELSE numbers[t.n].status = t.was

(* The compare-and-set of a number command: the status it read.  A deletion *)
(* compares nothing, but the orders that refer to the number refuse it; a   *)
(* release also names its order.                                            *)
AsRead(t) ==
  CASE t.cmd = "delete" -> numbers[t.n].status # "absent" /\ numbers[t.n].orders = 0
    [] t.cmd = "release" -> numbers[t.n].status = "busy" /\ numbers[t.n].orders = t.order
    [] OTHER -> numbers[t.n].status = t.was

Writable(t) ==
  /\ AsRead(t)
  /\ t.was = "disabled" /\ t.to \notin {"disabled", "absent"} /\ t.cmd # "move"
     => SlotFree(t.n, numbers[t.n].canon)

CommitNumber(p) ==
  LET t == tx[p] IN
  /\ t.step = "commit" /\ t.cmd \in NumberCommands
  /\ Writable(t)
  /\ IF t.cmd = "move"
     THEN \E d \in t.devs : numbers' = [numbers EXCEPT ![t.n].dev = d]
     ELSE numbers' = [numbers EXCEPT ![t.n].status = t.to]
  /\ End(p)
  /\ UNCHANGED <<now, devices>>

NumberContention(p) ==
  /\ tx[p].step = "commit" /\ tx[p].cmd \in NumberCommands
  /\ ~Writable(tx[p])
  /\ End(p)
  /\ UNCHANGED <<now, devices, numbers>>

(* A reservation holds the number's row lock while it looks at the device.  *)
Reserve(n) ==
  /\ numbers[n].status = "available"
  /\ Live(numbers[n].dev)
  /\ numbers[n].orders < MaxOrders
  /\ numbers' = [numbers EXCEPT ![n].status = "busy", ![n].orders = @ + 1]
  /\ UNCHANGED <<now, devices, tx>>

-------------------------------------------------------------------------------
Tick ==
  /\ now < MaxTime
  /\ now' = now + 1
  /\ UNCHANGED <<devices, numbers, tx>>

(* The process dies, a check refuses the write, or the transaction is given *)
(* up before its COMMIT.                                                    *)
Crash(p) ==
  /\ tx[p].step # "idle"
  /\ End(p)
  /\ UNCHANGED <<now, devices, numbers>>

DeviceStep ==
  \/ \E p \in ApiProcs, d \in Devices : HeartbeatRead(p, d) \/ HeartbeatWrite(p, d)
  \/ \E p \in ApiProcs : HeartbeatCommit(p)
  \/ \E p \in CronProcs : SweepLock(p) \/ SweepCommit(p)
  \/ \E d \in Devices : DisableDevice(d) \/ ReEnableDevice(d)

NumberStep ==
  \/ \E n \in Numbers, c \in Canonicals : RegisterNumber(n, c)
  \/ \E n \in Numbers, d \in Devices, c \in Canonicals : RegisterOnDevice(n, d, c)
  \/ \E p \in ApiProcs, cmd \in NumberCommands, n \in Numbers, d \in Devices :
       ReadNumber(p, cmd, n, d)
  \/ \E p \in ApiProcs : CommitNumber(p) \/ NumberContention(p)
  \/ \E n \in Numbers : Reserve(n)

Next == DeviceStep \/ NumberStep \/ Tick \/ \E p \in Procs : Crash(p)

(* The scheduler runs the sweep every minute; a batch may lose a device to  *)
(* a lock or a crash, but not every time.  A heartbeat's transaction ends.  *)
Fairness ==
  /\ WF_vars(Tick)
  /\ \A p \in ApiProcs : WF_vars(HeartbeatCommit(p))
  /\ \A p \in CronProcs :
       /\ SF_vars(SweepCommit(p))
       /\ \A d \in Devices : SF_vars(SweepLock(p) /\ Overdue(d) /\ ~Locked(d))

Spec == Init /\ [][Next]_vars
FairSpec == Spec /\ Fairness

-------------------------------------------------------------------------------
(* Properties.                                                              *)

TypeOK ==
  /\ now \in Nat
  /\ devices \in [Devices -> DeviceRow]
  /\ numbers \in [Numbers -> NumberRow]
  /\ tx \in [Procs -> Tx]

(* No two active numbers are the same phone number, whichever was disabled, *)
(* re-enabled, enabled by its agent or registered meanwhile; rows and       *)
(* transactions are well formed.                                            *)
OneActiveNumber ==
  /\ TypeOK
  /\ \A m, n \in Numbers :
       m # n /\ Active(m) /\ Active(n) => numbers[m].canon # numbers[n].canon

(* A disabled device comes back only through its re-enabling: a heartbeat   *)
(* that read the row before the disabling cannot bring it online.           *)
DisabledStaysDisabled ==
  [][\A d \in Devices : devices[d].status = "disabled" => devices'[d].status # "online"]_vars

(* While an order holds a number, no portal or agent command, heartbeat or  *)
(* sweep that read it idle moves, disables, deletes or frees it: a busy     *)
(* number changes only by the release of the order that holds it now.       *)
BusyIsUntouched ==
  [][\A n \in Numbers :
       numbers[n].status = "busy" /\ numbers'[n] # numbers[n] =>
         /\ numbers'[n].dev = numbers[n].dev
         /\ numbers'[n].status \in {"available", "offline"}
         /\ \E p \in ApiProcs : /\ tx[p].cmd = "release" /\ tx[p].n = n
                               /\ tx[p].order = numbers[n].orders /\ tx'[p] = Idle]_vars

(* A device that goes silent while online does not stay online: the sweep   *)
(* takes it or it is heard again.                                           *)
Silent(d) == devices[d].status = "online" /\ devices[d].seen + HeartbeatTimeout <= now
SilentIsSwept == \A d \in Devices : Silent(d) ~> ~Silent(d)

(* What offline-sweep-job.ts says: a device the sweep takes offline takes   *)
(* its available numbers with it.  A number released between the listing    *)
(* and the commit stays available on a device that is offline.              *)
SweptWithNumbers ==
  [][\A d \in Devices, n \in Numbers :
       /\ \E p \in CronProcs : SweepCommit(p) /\ d \in tx[p].devs
       /\ numbers[n].dev = d
       => numbers'[n].status # "available"]_vars

===============================================================================
