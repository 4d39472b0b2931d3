------------------------------ MODULE FleetProofs ------------------------------
(***************************************************************************)
(* The safety properties of Fleet, for any devices, numbers, workers,       *)
(* timeout and clock.  IInv says what a transaction at its commit relies    *)
(* on: the devices it has locked are not disabled, and a command on a       *)
(* number writes a status that its rule allows from the status it read.     *)
(***************************************************************************)
EXTENDS Fleet, TLAPS

USE FleetAssumption

DeviceCommands == {"heartbeat", "sweep"}

(* The unique slot of an active phone number. *)
UniqueActive ==
  \A m, n \in Numbers :
    m # n /\ Active(m) /\ Active(n) => numbers[m].canon # numbers[n].canon

(* partner_devices_disabled_check. *)
DisabledIsDated == \A d \in Devices : (devices[d].status = "disabled") = devices[d].off

(* A busy number has served the order that holds it. *)
BusyHasOrder == \A n \in Numbers : numbers[n].status = "busy" => numbers[n].orders > 0

(* What a heartbeat or a sweep has locked nobody disables meanwhile. *)
LocksEnabled(t) ==
  t.step = "commit" /\ t.cmd \in DeviceCommands =>
    \A d \in t.devs : devices[d].status # "disabled"

(* What the domain rule of a command leaves to its compare-and-set. *)
CommandSound(t) ==
  t.step = "commit" /\ t.cmd \in NumberCommands =>
    /\ t.n \in Numbers
    /\ IF t.cmd = "release" THEN t.to \in {"available", "offline"}
       ELSE /\ t.was # "busy" /\ t.was # "absent" /\ t.to # "busy"
            /\ t.cmd = "delete" <=> t.to = "absent"

TxsSound == \A p \in Procs : LocksEnabled(tx[p]) /\ CommandSound(tx[p])

IInv ==
  /\ TypeOK
  /\ UniqueActive /\ DisabledIsDated /\ BusyHasOrder
  /\ TxsSound

-------------------------------------------------------------------------------
(* The rows and transactions of the initial state.                          *)

LEMMA IdleTyped == Idle \in Tx /\ Idle.step = "idle"
  BY DEF Idle, Tx, Nothing

LEMMA IdleSound == LocksEnabled(Idle) /\ CommandSound(Idle)
  BY IdleTyped DEF LocksEnabled, CommandSound

LEMMA InitIInv == Init => IInv
<1> SUFFICES ASSUME Init PROVE IInv
  OBVIOUS
<1>1. TypeOK
  BY IdleTyped DEF Init, TypeOK, DeviceRow, NumberRow
<1>2. \A n \in Numbers : numbers[n].status = "absent"
  BY DEF Init
<1>3. UniqueActive /\ BusyHasOrder
  BY <1>2 DEF UniqueActive, BusyHasOrder, Active
<1>4. DisabledIsDated
  BY DEF Init, DisabledIsDated
<1>5. TxsSound
  BY IdleSound DEF Init, TxsSound
<1> QED BY <1>1, <1>3, <1>4, <1>5 DEF IInv

-------------------------------------------------------------------------------
(* Frames: what a step has to show when it writes the transactions, the      *)
(* devices or the numbers only.                                             *)

LEMMA TxFrame ==
  ASSUME IInv, now' = now, UNCHANGED <<devices, numbers>>,
         NEW p \in Procs, NEW t \in Tx, tx' = [tx EXCEPT ![p] = t],
         LocksEnabled(t), CommandSound(t)
  PROVE  IInv'
<1>1. TypeOK'
  BY DEF IInv, TypeOK
<1>2. UniqueActive' /\ DisabledIsDated' /\ BusyHasOrder'
  BY DEF IInv, UniqueActive, Active, DisabledIsDated, BusyHasOrder
<1>3. ASSUME NEW q \in Procs PROVE LocksEnabled(tx[q])' /\ CommandSound(tx[q])'
  <2>1. tx'[q] = t \/ tx'[q] = tx[q]
    BY DEF IInv, TypeOK
  <2>2. LocksEnabled(tx[q]) /\ CommandSound(tx[q])
    BY DEF IInv, TxsSound
  <2> QED BY <2>1, <2>2 DEF LocksEnabled, CommandSound
<1> QED BY <1>1, <1>2, <1>3 DEF IInv, TxsSound

(* A transaction that ends leaves a worker idle, and writes what it writes. *)
LEMMA EndsTyped ==
  ASSUME TypeOK, NEW p \in Procs, End(p)
  PROVE  /\ tx' \in [Procs -> Tx]
         /\ tx'[p] = Idle
         /\ \A q \in Procs \ {p} : tx'[q] = tx[q]
  BY IdleTyped DEF TypeOK, End

(* A device is disabled only while no transaction has locked it. *)
LEMMA SoundFrame ==
  ASSUME IInv,
         \A q \in Procs : tx'[q] = tx[q] \/ tx'[q] = Idle,
         \A d \in Devices : devices'[d].status = "disabled" =>
                              devices[d].status = "disabled" \/ ~Locked(d)
  PROVE  TxsSound'
<1> SUFFICES ASSUME NEW q \in Procs PROVE LocksEnabled(tx[q])' /\ CommandSound(tx[q])'
  BY DEF TxsSound
<1>1. CASE tx'[q] = Idle
  BY <1>1, IdleTyped DEF LocksEnabled, CommandSound
<1>2. CASE tx'[q] = tx[q]
  <2>1. LocksEnabled(tx[q]) /\ CommandSound(tx[q])
    BY DEF IInv, TxsSound
  <2>2. CommandSound(tx[q])'
    BY <1>2, <2>1 DEF CommandSound
  <2>3. ASSUME tx[q].step = "commit", tx[q].cmd \in DeviceCommands, NEW d \in tx[q].devs
        PROVE  devices'[d].status # "disabled"
    <3>1. d \in Devices
      BY DEF IInv, TypeOK, Tx
    <3>2. devices[d].status # "disabled"
      BY <2>1, <2>3 DEF LocksEnabled
    <3>3. Locked(d)
      BY <2>3 DEF Locked, DeviceCommands
    <3> QED BY <3>1, <3>2, <3>3
  <2> QED BY <1>2, <2>2, <2>3 DEF LocksEnabled
<1> QED BY <1>1, <1>2

-------------------------------------------------------------------------------
(* Heartbeats and the sweep.                                                *)

LEMMA HeartbeatReadInv ==
  ASSUME IInv, NEW p \in ApiProcs, NEW d \in Devices, HeartbeatRead(p, d)
  PROVE  IInv'
<1> DEFINE t == [Idle EXCEPT !.step = "read", !.cmd = "heartbeat", !.devs = {d},
                             !.at = now, !.seen = devices[d].seen]
<1>1. p \in Procs
  BY DEF Procs
<1>2. now \in Nat /\ devices[d].seen \in Nat
  BY DEF IInv, TypeOK, DeviceRow
<1>3. t \in Tx /\ t.step = "read"
  BY <1>2 DEF Tx, Idle, Nothing
<1>4. tx' = [tx EXCEPT ![p] = t] /\ now' = now /\ UNCHANGED <<devices, numbers>>
  BY DEF HeartbeatRead
<1> HIDE DEF t
<1>5. LocksEnabled(t) /\ CommandSound(t)
  BY <1>3 DEF LocksEnabled, CommandSound
<1> QED BY <1>1, <1>3, <1>4, <1>5, TxFrame

LEMMA HeartbeatWriteInv ==
  ASSUME IInv, NEW p \in ApiProcs, NEW d \in Devices, HeartbeatWrite(p, d)
  PROVE  IInv'
<1>1. p \in Procs /\ tx[p] \in Tx
  BY DEF Procs, IInv, TypeOK
<1>2. PICK offered \in SUBSET Numbers :
        tx' = [tx EXCEPT ![p] = [@ EXCEPT !.step = "commit", !.todo = Recovered(d, offered)]]
  BY DEF HeartbeatWrite
<1> DEFINE todo == Recovered(d, offered)
           t == [tx[p] EXCEPT !.step = "commit", !.todo = todo]
<1>3. todo \in [Numbers -> {"keep", "available", "offline"}]
  BY DEF Recovered
<1>4. tx' = [tx EXCEPT ![p] = t]
  BY <1>1, <1>2 DEF IInv, TypeOK
<1> HIDE DEF todo
<1>5. t \in Tx /\ t.cmd = "heartbeat" /\ t.devs = {d}
  BY <1>1, <1>3 DEF Tx, HeartbeatWrite
<1>6. devices[d].status # "disabled"
  BY DEF HeartbeatWrite, UpdateAllowed, IInv, DisabledIsDated
<1>7. UNCHANGED <<now, devices, numbers>>
  BY DEF HeartbeatWrite
<1> HIDE DEF t
<1>8. LocksEnabled(t) /\ CommandSound(t)
  BY <1>5, <1>6 DEF LocksEnabled, CommandSound, NumberCommands
<1> QED BY <1>1, <1>4, <1>5, <1>7, <1>8, TxFrame

LEMMA SweepLockInv ==
  ASSUME IInv, NEW p \in CronProcs, SweepLock(p)
  PROVE  IInv'
<1> DEFINE S == {d \in Devices : Overdue(d) /\ ~Locked(d)}
           todo == [n \in Numbers |->
                      IF numbers[n].dev \in S /\ numbers[n].status = "available"
                      THEN "offline" ELSE "keep"]
           t == [Idle EXCEPT !.step = "commit", !.cmd = "sweep", !.devs = S, !.todo = todo]
<1>1. p \in Procs
  BY DEF Procs
<1>2. todo \in [Numbers -> {"keep", "available", "offline"}] /\ S \in SUBSET Devices
  OBVIOUS
<1>3. tx' = [tx EXCEPT ![p] = t] /\ UNCHANGED <<now, devices, numbers>>
  BY DEF SweepLock
<1>4. \A d \in S : devices[d].status # "disabled"
  BY DEF Overdue
<1> HIDE DEF S, todo
<1>5. t \in Tx /\ t.cmd = "sweep" /\ t.devs = S
  BY <1>2 DEF Tx, Idle
<1> HIDE DEF t
<1>6. LocksEnabled(t) /\ CommandSound(t)
  BY <1>4, <1>5 DEF LocksEnabled, CommandSound, NumberCommands
<1> QED BY <1>1, <1>3, <1>5, <1>6, TxFrame

(* Setting the listed numbers moves idle numbers between the two statuses   *)
(* of an idle number, and nothing else.                                     *)
LEMMA ListedKept ==
  ASSUME TypeOK, NEW todo \in [Numbers -> {"keep", "available", "offline"}], SetListed(todo)
  PROVE  /\ numbers' \in [Numbers -> NumberRow]
         /\ \A n \in Numbers :
              /\ numbers'[n].canon = numbers[n].canon /\ numbers'[n].orders = numbers[n].orders
              /\ \/ numbers'[n] = numbers[n]
                 \/ /\ numbers[n].status \in {"available", "offline"}
                    /\ numbers'[n].status \in {"available", "offline"}
<1>1. ASSUME NEW n \in Numbers
      PROVE  /\ numbers'[n] \in NumberRow
             /\ numbers'[n].canon = numbers[n].canon /\ numbers'[n].orders = numbers[n].orders
             /\ \/ numbers'[n] = numbers[n]
                \/ /\ numbers[n].status \in {"available", "offline"}
                   /\ numbers'[n].status \in {"available", "offline"}
  <2>1. numbers[n] \in NumberRow
    BY DEF TypeOK
  <2>2. CASE Listed(todo, n)
    <3>1. numbers'[n] = [numbers[n] EXCEPT !.status = todo[n]]
      BY <2>2 DEF SetListed
    <3>2. todo[n] \in {"available", "offline"} /\ numbers[n].status \in {"available", "offline"}
      BY <2>2 DEF Listed
    <3> QED BY <2>1, <3>1, <3>2 DEF NumberRow, NumberStatus
  <2>3. CASE ~Listed(todo, n)
    BY <2>1, <2>3 DEF SetListed
  <2> QED BY <2>2, <2>3
<1>2. DOMAIN numbers' = Numbers /\ numbers' = [n \in Numbers |-> numbers'[n]]
  BY DEF SetListed
<1> QED BY <1>1, <1>2

(* So it keeps what is said of numbers. *)
LEMMA ListedInv ==
  ASSUME IInv, NEW todo \in [Numbers -> {"keep", "available", "offline"}], SetListed(todo)
  PROVE  numbers' \in [Numbers -> NumberRow] /\ UniqueActive' /\ BusyHasOrder'
<1>0. TypeOK
  BY DEF IInv
<1>1. \A n \in Numbers : Active(n)' => Active(n)
  BY <1>0, ListedKept DEF Active
<1> QED BY <1>0, <1>1, ListedKept DEF IInv, UniqueActive, BusyHasOrder

LEMMA DeviceCommitInv ==
  ASSUME IInv, NEW p \in Procs, HeartbeatCommit(p) \/ SweepCommit(p)
  PROVE  IInv'
<1> DEFINE t == tx[p]
<1>0. TypeOK /\ devices \in [Devices -> DeviceRow] /\ t \in Tx
  BY DEF IInv, TypeOK
<1>1. t.todo \in [Numbers -> {"keep", "available", "offline"}] /\ t.at \in Nat /\ t.seen \in Nat
  BY <1>0 DEF Tx
<1>2. t.step = "commit" /\ t.cmd \in DeviceCommands /\ SetListed(t.todo) /\ End(p) /\ now' = now
  BY DEF HeartbeatCommit, SweepCommit, DeviceCommands
<1>3. \A d \in t.devs : devices[d].status # "disabled"
  BY <1>2 DEF IInv, TxsSound, LocksEnabled
<1>4. ASSUME NEW d \in Devices
      PROVE  /\ devices'[d] \in DeviceRow /\ devices'[d].off = devices[d].off
             /\ (devices'[d].status = "disabled") = (devices[d].status = "disabled")
  <2>1. devices[d] \in DeviceRow /\ Later(t.seen, t.at) \in Nat
    BY <1>0, <1>1 DEF Later
  <2>2. CASE d \notin t.devs
    BY <2>1, <2>2 DEF HeartbeatCommit, SweepCommit
  <2>3. CASE d \in t.devs /\ HeartbeatCommit(p)
    <3> DEFINE seen == Later(t.seen, t.at)
    <3>1. devices'[d] = [devices[d] EXCEPT !.status = "online", !.seen = seen]
      BY <2>3 DEF HeartbeatCommit
    <3> HIDE DEF seen
    <3>2. devices'[d] \in DeviceRow /\ devices'[d].off = devices[d].off
          /\ devices'[d].status = "online"
      BY <2>1, <3>1 DEF DeviceRow, seen
    <3> QED BY <1>3, <2>3, <3>2
  <2>4. CASE d \in t.devs /\ SweepCommit(p)
    <3>1. devices'[d] = [devices[d] EXCEPT !.status = "offline"]
      BY <2>4 DEF SweepCommit
    <3> QED BY <1>3, <2>1, <2>4, <3>1 DEF DeviceRow
  <2> QED BY <2>2, <2>3, <2>4
<1>5. devices' \in [Devices -> DeviceRow]
  <2>1. DOMAIN devices' = Devices /\ devices' = [d \in Devices |-> devices'[d]]
    BY DEF HeartbeatCommit, SweepCommit
  <2> QED BY <1>4, <2>1
<1>6. TypeOK'
  BY <1>0, <1>1, <1>2, <1>5, EndsTyped, ListedInv DEF TypeOK
<1>7. UniqueActive' /\ BusyHasOrder'
  BY <1>1, <1>2, ListedInv
<1>8. DisabledIsDated'
  BY <1>4 DEF IInv, DisabledIsDated
<1>9. TxsSound'
  BY <1>0, <1>2, <1>4, EndsTyped, SoundFrame
<1> QED BY <1>6, <1>7, <1>8, <1>9 DEF IInv

LEMMA DeviceWriteInv ==
  ASSUME IInv, NEW d \in Devices, DisableDevice(d) \/ ReEnableDevice(d)
  PROVE  IInv'
<1>0. devices \in [Devices -> DeviceRow] /\ ~Locked(d) /\ UNCHANGED <<now, numbers, tx>>
  BY DEF IInv, TypeOK, DisableDevice, ReEnableDevice
<1>1. /\ \A c \in Devices \ {d} : devices'[c] = devices[c]
      /\ devices' \in [Devices -> DeviceRow]
      /\ (devices'[d].status = "disabled") = devices'[d].off
  <2>1. CASE DisableDevice(d)
    BY <1>0, <2>1 DEF DisableDevice, DeviceRow
  <2>2. CASE ReEnableDevice(d)
    <3> DEFINE row == [devices[d] EXCEPT !.status = "offline", !.off = FALSE]
    <3>1. devices' = [devices EXCEPT ![d] = row]
      BY <1>0, <2>2 DEF ReEnableDevice
    <3>2. row \in DeviceRow /\ row.status = "offline" /\ row.off = FALSE
      BY <1>0 DEF DeviceRow
    <3> HIDE DEF row
    <3>3. devices'[d] = row /\ devices' \in [Devices -> DeviceRow]
      BY <1>0, <3>1, <3>2
    <3>4. (devices'[d].status = "disabled") = FALSE
      BY <3>2, <3>3
    <3> QED BY <1>0, <3>1, <3>2, <3>3, <3>4
  <2> QED BY <2>1, <2>2
<1>2. TypeOK' /\ UniqueActive' /\ BusyHasOrder'
  BY <1>0, <1>1 DEF IInv, TypeOK, UniqueActive, Active, BusyHasOrder
<1>3. DisabledIsDated'
  BY <1>1 DEF IInv, DisabledIsDated
<1>4. TxsSound'
  BY <1>0, <1>1, SoundFrame
<1> QED BY <1>2, <1>3, <1>4 DEF IInv

-------------------------------------------------------------------------------
(* Numbers.                                                                 *)

(* A step that writes one number, and at most ends a transaction. *)
LEMMA NumberFrame ==
  ASSUME IInv, NEW n \in Numbers, NEW row \in NumberRow, numbers' = [numbers EXCEPT ![n] = row],
         UNCHANGED <<now, devices>>,
         tx' \in [Procs -> Tx], \A q \in Procs : tx'[q] = tx[q] \/ tx'[q] = Idle,
         row.status = "busy" => row.orders > 0,
         row.status \notin {"absent", "disabled"} => SlotFree(n, row.canon)
  PROVE  IInv'
<1>1. TypeOK'
  BY DEF IInv, TypeOK
<1>2. numbers'[n] = row /\ \A m \in Numbers \ {n} : numbers'[m] = numbers[m]
  BY DEF IInv, TypeOK
<1>3. UniqueActive'
  BY <1>2 DEF IInv, UniqueActive, SlotFree, Active
<1>4. BusyHasOrder'
  BY <1>2 DEF IInv, BusyHasOrder
<1>5. DisabledIsDated' /\ TxsSound'
  BY SoundFrame DEF IInv, DisabledIsDated
<1> QED BY <1>1, <1>3, <1>4, <1>5 DEF IInv

(* The slot of an active number is free for the number itself. *)
LEMMA ActiveHasSlot ==
  ASSUME IInv, NEW n \in Numbers, Active(n)
  PROVE  SlotFree(n, numbers[n].canon)
  BY DEF IInv, UniqueActive, SlotFree

LEMMA RegisterInv ==
  ASSUME IInv, NEW n \in Numbers, NEW d \in Devices, NEW c \in Canonicals,
         InsertNumber(n, d, c)
  PROVE  IInv'
<1> DEFINE row == [status |-> "offline", dev |-> d, canon |-> c, orders |-> 0]
<1>1. row \in NumberRow
  BY DEF NumberRow, NumberStatus
<1> QED BY <1>1, NumberFrame DEF InsertNumber, IInv, TypeOK

LEMMA ReserveInv ==
  ASSUME IInv, NEW n \in Numbers, Reserve(n)
  PROVE  IInv'
<1>0. numbers \in [Numbers -> NumberRow] /\ numbers[n] \in NumberRow
  BY DEF IInv, TypeOK
<1> DEFINE k == numbers[n].orders + 1
           row == [numbers[n] EXCEPT !.status = "busy", !.orders = k]
<1>1. k \in Nat /\ k > 0
  BY <1>0 DEF NumberRow
<1>2. numbers' = [numbers EXCEPT ![n] = row]
  BY <1>0 DEF Reserve
<1> HIDE DEF k
<1>3. row \in NumberRow /\ row.orders = k /\ row.canon = numbers[n].canon
  BY <1>0, <1>1 DEF NumberRow, NumberStatus
<1>4. SlotFree(n, numbers[n].canon)
  BY ActiveHasSlot DEF Reserve, Active
<1> HIDE DEF row
<1> QED BY <1>1, <1>2, <1>3, <1>4, NumberFrame DEF Reserve, IInv, TypeOK

(* What a command decides is sound for its compare-and-set. *)
LEMMA ReadNumberInv ==
  ASSUME IInv, NEW p \in ApiProcs, NEW cmd \in NumberCommands, NEW n \in Numbers,
         NEW d \in Devices, ReadNumber(p, cmd, n, d)
  PROVE  IInv'
<1>1. p \in Procs /\ numbers[n] \in NumberRow
  BY DEF Procs, IInv, TypeOK
<1> DEFINE devs == IF cmd = "move" THEN {d} ELSE {}
           was == numbers[n].status
           order == IF cmd = "release" THEN numbers[n].orders ELSE 0
<1>2. PICK to \in NumberStatus \cup {"absent"} :
        /\ Decides(cmd, n, to)
        /\ tx' = [tx EXCEPT ![p] =
                    [Idle EXCEPT !.step = "commit", !.cmd = cmd, !.n = n, !.devs = devs,
                                 !.was = was, !.to = to, !.order = order]]
  BY DEF ReadNumber
<1> DEFINE t == [Idle EXCEPT !.step = "commit", !.cmd = cmd, !.n = n, !.devs = devs,
                             !.was = was, !.to = to, !.order = order]
<1>3. devs \in SUBSET Devices /\ was \in NumberStatus \cup {"absent"} /\ order \in Nat
  BY <1>1 DEF NumberRow
<1>4. UNCHANGED <<now, devices, numbers>>
  BY DEF ReadNumber
<1>5. IF cmd = "release" THEN to \in {"available", "offline"}
      ELSE /\ was # "busy" /\ was # "absent" /\ to # "busy"
           /\ cmd = "delete" <=> to = "absent"
  <2>1. CASE cmd = "release"
    BY <1>2, <2>1 DEF Decides, ReleaseNumber
  <2>2. CASE cmd = "disable"
    BY <1>2, <2>2 DEF Decides, DisableNumber, IdleNow
  <2>3. CASE cmd = "reenable"
    BY <1>2, <2>3 DEF Decides, ReEnableNumber
  <2>4. CASE cmd = "move"
    BY <1>2, <2>4 DEF Decides, MoveNumberToDevice, IdleNow
  <2>5. CASE cmd = "delete"
    BY <1>2, <2>5 DEF Decides, DeleteNumber, IdleNow
  <2>6. CASE cmd = "availability"
    BY <1>2, <2>6 DEF Decides, SetAvailability, IdleNow
  <2> QED BY <2>1, <2>2, <2>3, <2>4, <2>5, <2>6 DEF NumberCommands
<1> HIDE DEF devs, was, order
<1>6. /\ t \in Tx
      /\ t.cmd = cmd /\ t.n = n /\ t.was = was /\ t.to = to
  BY <1>3 DEF Tx, Idle, Nothing
<1>7. tx' = [tx EXCEPT ![p] = t]
  BY <1>2
<1> HIDE DEF t
<1>8. LocksEnabled(t) /\ CommandSound(t)
  BY <1>5, <1>6 DEF LocksEnabled, CommandSound, DeviceCommands, NumberCommands
<1> QED BY <1>1, <1>4, <1>6, <1>7, <1>8, TxFrame

LEMMA CommitNumberInv ==
  ASSUME IInv, NEW p \in ApiProcs, CommitNumber(p)
  PROVE  IInv'
<1> DEFINE t == tx[p]  n == t.n
<1>0. p \in Procs /\ t \in Tx /\ TypeOK /\ numbers \in [Numbers -> NumberRow]
  BY DEF Procs, IInv, TypeOK
<1>1. t.step = "commit" /\ t.cmd \in NumberCommands /\ Writable(t) /\ End(p)
      /\ UNCHANGED <<now, devices>>
  BY DEF CommitNumber
<1>2. n \in Numbers /\ CommandSound(t)
  BY <1>0, <1>1 DEF IInv, TxsSound, CommandSound
<1>3. numbers[n] \in NumberRow /\ t.to \in NumberStatus \cup {"absent"} /\ t.devs \in SUBSET Devices
  BY <1>0, <1>2 DEF Tx
<1>4. tx' \in [Procs -> Tx] /\ \A q \in Procs : tx'[q] = tx[q] \/ tx'[q] = Idle
  BY <1>0, <1>1, EndsTyped
<1>5. CASE t.cmd = "move"
  <2>1. PICK d \in t.devs : numbers' = [numbers EXCEPT ![n].dev = d]
    BY <1>5 DEF CommitNumber
  <2> DEFINE row == [numbers[n] EXCEPT !.dev = d]
  <2>2. row \in NumberRow /\ row.status = numbers[n].status /\ row.canon = numbers[n].canon
        /\ row.orders = numbers[n].orders
    BY <1>3, <2>1 DEF NumberRow
  <2>3. numbers' = [numbers EXCEPT ![n] = row]
    BY <1>0, <1>2, <2>1
  <2> HIDE DEF row
  <2> QED BY <1>1, <1>2, <1>4, <2>2, <2>3, NumberFrame, ActiveHasSlot DEF Active, IInv, BusyHasOrder
<1>6. CASE t.cmd # "move"
  <2> DEFINE row == [numbers[n] EXCEPT !.status = t.to]
  <2>1. row \in NumberRow /\ row.status = t.to /\ row.canon = numbers[n].canon
    BY <1>3 DEF NumberRow
  <2>2. numbers' = [numbers EXCEPT ![n] = row]
    BY <1>0, <1>2, <1>6 DEF CommitNumber
  <2>3. t.to # "busy"
    BY <1>1, <1>2 DEF CommandSound
  <2>4. ASSUME t.to \notin {"absent", "disabled"} PROVE SlotFree(n, numbers[n].canon)
    <3>1. CASE t.cmd = "release"
      <4>1. numbers[n].status = "busy"
        BY <1>1, <3>1 DEF Writable, AsRead
      <4> QED BY <1>2, <4>1, ActiveHasSlot DEF Active
    <3>2. CASE t.cmd # "release"
      <4>1. numbers[n].status = t.was /\ t.was # "absent"
        BY <1>1, <1>2, <2>4, <3>2 DEF Writable, AsRead, CommandSound
      <4>2. CASE t.was = "disabled"
        BY <1>1, <1>6, <2>4, <4>2 DEF Writable
      <4>3. CASE t.was # "disabled"
        BY <1>2, <4>1, <4>3, ActiveHasSlot DEF Active
      <4> QED BY <4>2, <4>3
    <3> QED BY <3>1, <3>2
  <2> HIDE DEF row
  <2> QED BY <1>1, <1>2, <1>4, <2>1, <2>2, <2>3, <2>4, NumberFrame
<1> QED BY <1>5, <1>6

(* A transaction that ends without writing. *)
LEMMA EndInv ==
  ASSUME IInv, NEW p \in Procs, End(p), UNCHANGED <<now, devices, numbers>>
  PROVE  IInv'
  BY IdleTyped, IdleSound, TxFrame DEF End

-------------------------------------------------------------------------------
(* The theorems.                                                            *)

LEMMA DeviceStepInv == ASSUME IInv, DeviceStep PROVE IInv'
  BY HeartbeatReadInv, HeartbeatWriteInv, SweepLockInv, DeviceCommitInv, DeviceWriteInv
     DEF DeviceStep, Procs

LEMMA NumberStepInv == ASSUME IInv, NumberStep PROVE IInv'
<1>1. ASSUME NEW p \in ApiProcs, NumberContention(p) PROVE IInv'
  BY <1>1, EndInv DEF NumberContention, Procs
<1> QED
  BY <1>1, RegisterInv, ReadNumberInv, CommitNumberInv, ReserveInv
     DEF NumberStep, RegisterNumber, RegisterOnDevice

LEMMA NextIInv == IInv /\ [Next]_vars => IInv'
<1> SUFFICES ASSUME IInv, [Next]_vars PROVE IInv'
  OBVIOUS
<1>1. CASE Tick
  BY <1>1 DEF Tick, IInv, TypeOK, UniqueActive, Active, DisabledIsDated, BusyHasOrder,
              TxsSound, LocksEnabled, CommandSound
<1>2. CASE UNCHANGED vars
  BY <1>2 DEF vars, IInv, TypeOK, UniqueActive, Active, DisabledIsDated, BusyHasOrder,
              TxsSound, LocksEnabled, CommandSound
<1>3. CASE \E p \in Procs : Crash(p)
  BY <1>3, EndInv DEF Crash
<1> QED BY <1>1, <1>2, <1>3, DeviceStepInv, NumberStepInv DEF Next

(* Devices, numbers and transactions stay what their columns allow, locked   *)
(* devices stay enabled and commands sound, whatever interleaves.           *)
THEOREM Invariance == Spec => []IInv
BY InitIInv, NextIInv, PTL DEF Spec

(* No two active numbers are ever the same phone number. *)
THEOREM NumbersAreUnique == Spec => []OneActiveNumber
<1>1. IInv => OneActiveNumber
  BY DEF IInv, UniqueActive, OneActiveNumber
<1> QED BY <1>1, Invariance, PTL

(* No heartbeat brings a disabled device back. *)
THEOREM DisabledDevicesStay == Spec => DisabledStaysDisabled
<1>1. IInv /\ [Next]_vars =>
        [\A d \in Devices : devices[d].status = "disabled" => devices'[d].status # "online"]_vars
  <2> SUFFICES ASSUME IInv, Next, NEW d \in Devices, devices[d].status = "disabled"
               PROVE  devices'[d].status # "online"
    OBVIOUS
  <2>0. devices \in [Devices -> DeviceRow]
    BY DEF IInv, TypeOK
  <2>1. CASE \E p \in Procs : HeartbeatCommit(p) \/ SweepCommit(p)
    <3>1. PICK p \in Procs : HeartbeatCommit(p) \/ SweepCommit(p)
      BY <2>1
    <3>2. \A c \in tx[p].devs : devices[c].status # "disabled"
      BY <3>1 DEF HeartbeatCommit, SweepCommit, DeviceCommands, IInv, TxsSound, LocksEnabled
    <3> QED BY <3>1, <3>2 DEF HeartbeatCommit, SweepCommit
  <2>2. CASE \E c \in Devices : DisableDevice(c) \/ ReEnableDevice(c)
    BY <2>0, <2>2 DEF DisableDevice, ReEnableDevice, DeviceRow
  <2>3. CASE UNCHANGED devices
    BY <2>3
  <2>4. ASSUME DeviceStep
        PROVE  \/ \E p \in Procs : HeartbeatCommit(p) \/ SweepCommit(p)
               \/ \E c \in Devices : DisableDevice(c) \/ ReEnableDevice(c)
               \/ UNCHANGED devices
    BY <2>4 DEF DeviceStep, Procs, HeartbeatRead, HeartbeatWrite, SweepLock
  <2>5. ASSUME NumberStep PROVE UNCHANGED devices
    BY <2>5 DEF NumberStep, RegisterNumber, RegisterOnDevice, InsertNumber, ReadNumber, CommitNumber,
                NumberContention, Reserve
  <2>6. ASSUME Tick \/ \E p \in Procs : Crash(p) PROVE UNCHANGED devices
    BY <2>6 DEF Tick, Crash
  <2> QED BY <2>1, <2>2, <2>3, <2>4, <2>5, <2>6 DEF Next
<1> QED BY <1>1, Invariance, PTL DEF Spec, DisabledStaysDisabled

(* A busy number changes only by the release of the order that holds it. *)
THEOREM BusyNumbersStay == Spec => BusyIsUntouched
<1> DEFINE Untouched ==
      \A n \in Numbers :
        numbers[n].status = "busy" /\ numbers'[n] # numbers[n] =>
          /\ numbers'[n].dev = numbers[n].dev
          /\ numbers'[n].status \in {"available", "offline"}
          /\ \E p \in ApiProcs : /\ tx[p].cmd = "release" /\ tx[p].n = n
                                /\ tx[p].order = numbers[n].orders /\ tx'[p] = Idle
<1>1. IInv /\ [Next]_vars => [Untouched]_vars
  <2> SUFFICES ASSUME IInv, Next, NEW n \in Numbers, numbers[n].status = "busy",
                      numbers'[n] # numbers[n]
               PROVE  /\ numbers'[n].dev = numbers[n].dev
                      /\ numbers'[n].status \in {"available", "offline"}
                      /\ \E p \in ApiProcs :
                           /\ tx[p].cmd = "release" /\ tx[p].n = n
                           /\ tx[p].order = numbers[n].orders /\ tx'[p] = Idle
    OBVIOUS
  <2>0. TypeOK /\ numbers \in [Numbers -> NumberRow] /\ numbers[n] \in NumberRow
    BY DEF IInv, TypeOK
  <2>1. ASSUME NEW p \in Procs, HeartbeatCommit(p) \/ SweepCommit(p) PROVE FALSE
    <3>1. tx[p].todo \in [Numbers -> {"keep", "available", "offline"}] /\ SetListed(tx[p].todo)
      BY <2>1 DEF HeartbeatCommit, SweepCommit, IInv, TypeOK, Tx
    <3> QED BY <2>0, <3>1, ListedKept
  <2>2. ASSUME NEW m \in Numbers,
               Reserve(m) \/ \E d \in Devices, c \in Canonicals : InsertNumber(m, d, c)
        PROVE  FALSE
    BY <2>0, <2>2 DEF Reserve, InsertNumber
  <2>3. PICK p \in ApiProcs : CommitNumber(p)
    <3>1. ~UNCHANGED numbers
      OBVIOUS
    <3>2. DeviceStep => FALSE
      BY <2>1, <3>1 DEF DeviceStep, Procs, HeartbeatRead, HeartbeatWrite, SweepLock,
                        DisableDevice, ReEnableDevice
    <3>3. NumberStep => \E p \in ApiProcs : CommitNumber(p)
      BY <2>2, <3>1 DEF NumberStep, RegisterNumber, RegisterOnDevice, ReadNumber, NumberContention
    <3>4. ~Tick /\ ~\E p \in Procs : Crash(p)
      BY <3>1 DEF Tick, Crash
    <3> QED BY <3>2, <3>3, <3>4 DEF Next
  <2> DEFINE t == tx[p]
  <2>4. p \in Procs /\ t \in Tx /\ t.step = "commit" /\ t.cmd \in NumberCommands
        /\ AsRead(t) /\ End(p)
    BY <2>3 DEF Procs, IInv, TypeOK, CommitNumber, Writable
  <2>5. t.n \in Numbers /\ CommandSound(t)
    BY <2>4 DEF IInv, TxsSound, CommandSound
  <2>6. t.n = n
    <3>1. CASE t.cmd = "move"
      BY <2>0, <2>3, <2>5, <3>1 DEF CommitNumber
    <3>2. CASE t.cmd # "move"
      BY <2>0, <2>3, <2>5, <3>2 DEF CommitNumber
    <3> QED BY <3>1, <3>2
  <2>7. t.cmd = "release"
    <3>1. t.cmd # "delete"
      BY <2>0, <2>4, <2>6 DEF AsRead, IInv, BusyHasOrder
    <3>2. ASSUME t.cmd \notin {"delete", "release"} PROVE FALSE
      BY <2>4, <2>5, <2>6, <3>2 DEF AsRead, CommandSound
    <3> QED BY <3>1, <3>2
  <2>8. t.to \in {"available", "offline"} /\ t.order = numbers[n].orders
    BY <2>4, <2>5, <2>6, <2>7 DEF CommandSound, AsRead
  <2>9. numbers'[n] = [numbers[n] EXCEPT !.status = t.to]
    BY <2>0, <2>3, <2>6, <2>7 DEF CommitNumber
  <2>10. tx'[p] = Idle
    BY <2>0, <2>4, EndsTyped
  <2> QED BY <2>0, <2>6, <2>7, <2>8, <2>9, <2>10 DEF NumberRow
<1> QED BY <1>1, Invariance, PTL DEF Spec, BusyIsUntouched

===============================================================================
