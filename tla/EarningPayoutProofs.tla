------------------------- MODULE EarningPayoutProofs -------------------------
(***************************************************************************)
(* The safety properties of EarningPayout, for any number of earnings,      *)
(* payouts and workers: IInv is inductive, and what the ledger and the      *)
(* allocations say of the money is a run of PayoutBook.  The money detectors *)
(* of the reconciler find nothing in a state where IInv holds.              *)
(***************************************************************************)
EXTENDS ReconcileMoney, TLAPS, FiniteSetTheorems

-------------------------------------------------------------------------------
(* The ledger's arithmetic.                                                 *)

(* A transfer between the buckets of two statuses turns what the ledger     *)
(* says of the one into what it must say of the other.                      *)
LEMMA MovedBooked ==
  ASSUME NEW s \in EarningStatus \ {"absent"}, NEW d \in EarningStatus \ {"absent"},
         s # d
  PROVE  Moved(Booked(s), BucketOf[s], BucketOf[d]) = Booked(d)
  BY DEF Moved, Booked, BucketOf, EarningStatus, Buckets

(* The order-success entries book a new earning as pending. *)
LEMMA AccruedBooked == Moved(Booked("absent"), "payable", "pending") = Booked("pending")
  BY DEF Moved, Booked, BucketOf, EarningStatus, Buckets

(* The bucket of a status is the only one with a positive share. *)
LEMMA BookedAt ==
  ASSUME NEW s \in EarningStatus \ {"absent"}, NEW b \in Buckets
  PROVE  Booked(s)[b] = 1 <=> b = BucketOf[s]
<1>1. BucketOf[s] # "payable"
  BY DEF BucketOf, EarningStatus
<1> QED BY <1>1 DEF Booked, Buckets

(* Shares stay integers. *)
LEMMA BookedTyped == \A s \in EarningStatus : Booked(s) \in [Buckets -> Int]
  BY DEF Booked, Buckets

-------------------------------------------------------------------------------
(* Workers.                                                                 *)

(* An idle worker relies on nothing. *)
LEMMA IdleSound ==
  /\ Idle \in Tx
  /\ Idle.cmd = "none"
  /\ \A st, rows : TxSound(Idle, st, rows)
  BY DEF Idle, Tx, TxSound, ReviewCommands, EarningStatus

(* A step that only changes what one worker does keeps the invariant if the *)
(* worker's new command is sound and its payout id, if a request, is its    *)
(* own.                                                                     *)
LEMMA TxOnly ==
  ASSUME IInv, NEW w \in Procs, NEW t \in Tx,
         TxSound(t, earning, payouts),
         \A v \in Procs \ {w} : /\ t.cmd = "request" => tx[v].p # t.p
                                /\ tx[v].cmd = "request" => tx[v].p # t.p,
         tx' = [tx EXCEPT ![w] = t],
         UNCHANGED <<earning, elapsed, payouts, share, posted, issues>>
  PROVE  IInv'
<1>1. tx \in [Procs -> Tx]
  BY DEF IInv, TypeOK
<1>2. TypeOK'
  BY <1>1 DEF IInv, TypeOK
<1>3. (LedgerAgrees /\ ClaimedByOnePayout /\ KeysTell)'
  BY DEF IInv, LedgerAgrees, ClaimedByOnePayout, KeysTell, Allocated
<1>4. \A v \in Procs : TxSound(tx'[v], earning', payouts')
  BY <1>1 DEF IInv
<1>5. FreshIds'
  BY <1>1 DEF IInv, FreshIds
<1> QED
  BY <1>2, <1>3, <1>4, <1>5 DEF IInv

(* What the workers rely on survives a commit that leaves paid earnings     *)
(* paid and the ids drawn by the other workers unused.                      *)
LEMMA TxAfterCommit ==
  ASSUME IInv, NEW w \in Procs,
         tx' = [tx EXCEPT ![w] = Idle],
         \A e \in Earnings : earning[e] = "paid" => earning'[e] = "paid",
         \A v \in Procs \ {w} :
           tx[v].cmd = "request" => payouts'[tx[v].p].status = "absent"
  PROVE  /\ tx' \in [Procs -> Tx]
         /\ \A v \in Procs : TxSound(tx'[v], earning', payouts')
         /\ FreshIds'
<1>1. tx \in [Procs -> Tx]
  BY DEF IInv, TypeOK
<1>2. tx' \in [Procs -> Tx]
  BY <1>1, IdleSound
<1>3. ASSUME NEW v \in Procs PROVE TxSound(tx'[v], earning', payouts')
  <2>1. CASE v = w
    BY <2>1, <1>1, IdleSound
  <2>2. CASE v # w
    <3>1. tx'[v] = tx[v] /\ TxSound(tx[v], earning, payouts)
      BY <2>2, <1>1 DEF IInv
    <3> QED BY <2>2, <3>1 DEF TxSound
  <2> QED BY <2>1, <2>2
<1>4. FreshIds'
  <2>1. Idle.p = None /\ Idle.cmd = "none"
    BY DEF Idle
  <2>2. ASSUME NEW u \in Procs, NEW v \in Procs,
               tx'[u].cmd = "request", tx'[v].p = tx'[u].p
        PROVE  u = v
    <3>1. u # w /\ tx'[u] = tx[u] /\ TxSound(tx[u], earning, payouts)
      BY <2>1, <2>2, <1>1 DEF IInv
    <3>2. tx[u].p \in Payouts
      BY <3>1, <2>2 DEF TxSound
    <3>3. v # w /\ tx'[v] = tx[v]
      BY <2>1, <2>2, <3>1, <3>2, <1>1, ConstantsAssumption
    <3> QED BY <2>2, <3>1, <3>3 DEF IInv, FreshIds
  <2> QED BY <2>2 DEF FreshIds
<1> QED BY <1>2, <1>3, <1>4

-------------------------------------------------------------------------------
(* Commits on one earning.                                                  *)

(* An unclaimed earning that changes to an unclaimed status leaves every    *)
(* claim as it was.                                                         *)
LEMMA UnclaimedMove ==
  ASSUME IInv, NEW e \in Earnings, NEW st \in {"pending", "available", "reversed"},
         earning[e] \notin {"requested", "paid"},
         earning' = [earning EXCEPT ![e] = st],
         UNCHANGED payouts
  PROVE  ClaimedByOnePayout'
<1>1. earning \in [Earnings -> EarningStatus]
  BY DEF IInv, TypeOK
<1>2. \A p \in Payouts : ~Allocated(e, p)
  BY DEF IInv, ClaimedByOnePayout
<1> QED BY <1>1, <1>2 DEF IInv, ClaimedByOnePayout, Allocated

(* One earning's status and its share move together. *)
LEMMA BookedMove ==
  ASSUME IInv, NEW e \in Earnings,
         NEW st \in {"pending", "available", "reversed"}, earning[e] # st,
         NEW key \in EventKeys, key \notin posted,
         NEW from, NEW to,
         earning' = [earning EXCEPT ![e] = st],
         Post(key, {e}, from, to),
         Moved(Booked(earning[e]), from, to) = Booked(st)
  PROVE  /\ LedgerAgrees' /\ posted' = posted \cup {key}
         /\ earning' \in [Earnings -> EarningStatus]
         /\ share' \in [Earnings -> [Buckets -> Int]]
         /\ posted' \subseteq EventKeys
<1>1. /\ earning \in [Earnings -> EarningStatus]
      /\ share \in [Earnings -> [Buckets -> Int]] /\ posted \subseteq EventKeys
  BY DEF IInv, TypeOK
<1>2. earning' \in [Earnings -> EarningStatus]
  BY <1>1 DEF EarningStatus
<1>3. /\ posted' = posted \cup {key}
      /\ share' = [x \in Earnings |-> IF x \in {e} THEN Moved(share[x], from, to)
                                                   ELSE share[x]]
  BY DEF Post
<1>4. ASSUME NEW x \in Earnings PROVE share'[x] = Booked(earning'[x])
  <2>1. share[x] = Booked(earning[x])
    BY DEF IInv, LedgerAgrees
  <2>2. CASE x = e
    BY <2>1, <2>2, <1>1, <1>3
  <2>3. CASE x # e
    BY <2>1, <2>3, <1>1, <1>3
  <2> QED BY <2>2, <2>3
<1>5. share' \in [Earnings -> [Buckets -> Int]]
  <2>1. share' = [x \in Earnings |-> share'[x]]
    BY <1>3
  <2>2. \A x \in Earnings : share'[x] \in [Buckets -> Int]
    BY <1>2, <1>4, BookedTyped
  <2> QED BY <2>1, <2>2
<1> QED BY <1>1, <1>2, <1>3, <1>4, <1>5 DEF LedgerAgrees

(* A new earning is booked and unclaimed. *)
LEMMA AccrueInv == ASSUME IInv, NEW e \in Earnings, Accrue(e) PROVE IInv'
<1> DEFINE key == <<"order-success", e>>
<1>1. /\ earning[e] = "absent" /\ earning' = [earning EXCEPT ![e] = "pending"]
      /\ Post(key, {e}, "payable", "pending")
      /\ UNCHANGED <<elapsed, payouts, issues, tx>>
  BY DEF Accrue
<1>2. key \in EventKeys /\ key \notin posted
  BY <1>1 DEF EventKeys, EarningEvents, IInv, KeysTell
<1>3. /\ LedgerAgrees' /\ posted' = posted \cup {key}
      /\ earning' \in [Earnings -> EarningStatus]
      /\ share' \in [Earnings -> [Buckets -> Int]] /\ posted' \subseteq EventKeys
  BY <1>1, <1>2, BookedMove, AccruedBooked
<1>4. TypeOK'
  BY <1>1, <1>3 DEF IInv, TypeOK
<1>5. ClaimedByOnePayout'
  BY <1>1, UnclaimedMove
<1>6. KeysTell'
  BY <1>1, <1>3 DEF IInv, TypeOK, KeysTell
<1>7. \A w \in Procs : TxSound(tx'[w], earning', payouts')
  BY <1>1 DEF IInv, TypeOK, TxSound
<1>8. FreshIds' /\ \A x \in issues' : earning'[x] = "paid"
  BY <1>1 DEF IInv, TypeOK, FreshIds
<1> QED BY <1>1, <1>3, <1>4, <1>5, <1>6, <1>7, <1>8 DEF IInv

(* A release or a reversal that wins its compare-and-set. *)
LEMMA EarningCommit ==
  ASSUME IInv, NEW w \in Procs, NEW e \in Earnings,
         NEW old \in {"pending", "available"}, NEW st \in {"available", "reversed"},
         old # st, earning[e] = old,
         NEW event \in {"hold-release", "earning-reversal"},
         event = "hold-release" <=> st = "available",
         earning' = [earning EXCEPT ![e] = st],
         Post(<<event, e>>, {e}, old, st),
         tx' = [tx EXCEPT ![w] = Idle],
         UNCHANGED <<elapsed, payouts, issues>>
  PROVE  IInv'
<1> DEFINE key == <<event, e>>
<1>1. key \in EventKeys /\ key \notin posted
  BY DEF EventKeys, EarningEvents, IInv, KeysTell
<1>2. Moved(Booked(old), old, st) = Booked(st)
  <2>1. old \in EarningStatus \ {"absent"} /\ st \in EarningStatus \ {"absent"}
        /\ BucketOf[old] = old /\ BucketOf[st] = st
    BY DEF EarningStatus, BucketOf
  <2> QED BY <2>1, MovedBooked
<1>3. /\ LedgerAgrees' /\ posted' = posted \cup {key}
      /\ earning' \in [Earnings -> EarningStatus]
      /\ share' \in [Earnings -> [Buckets -> Int]] /\ posted' \subseteq EventKeys
  BY <1>1, <1>2, BookedMove
<1>4. ClaimedByOnePayout'
  BY UnclaimedMove
<1>5. KeysTell'
  BY <1>3 DEF IInv, TypeOK, KeysTell
<1>6. /\ tx' \in [Procs -> Tx] /\ FreshIds'
      /\ \A v \in Procs : TxSound(tx'[v], earning', payouts')
  <2>1. \A x \in Earnings : earning[x] = "paid" => earning'[x] = "paid"
    BY DEF IInv, TypeOK
  <2>2. \A v \in Procs \ {w} :
          tx[v].cmd = "request" => payouts'[tx[v].p].status = "absent"
    BY DEF IInv, TxSound
  <2> QED BY <2>1, <2>2, TxAfterCommit
<1>7. TypeOK'
  BY <1>3, <1>6 DEF IInv, TypeOK
<1>8. \A x \in issues' : earning'[x] = "paid"
  BY DEF IInv, TypeOK
<1> QED BY <1>3, <1>4, <1>5, <1>6, <1>7, <1>8 DEF IInv

(* The two commands commit by it. *)
LEMMA CommitEarningInv ==
  ASSUME IInv, NEW w \in Procs, CommitRelease(w) \/ CommitReverse(w)
  PROVE  IInv'
<1> DEFINE e == tx[w].e
<1>1. TxSound(tx[w], earning, payouts) /\ tx[w] \in Tx
  BY DEF IInv, TypeOK
<1>2. CASE CommitRelease(w)
  <2>1. e \in Earnings /\ earning[e] = "pending"
    BY <1>1, <1>2 DEF CommitRelease, TxSound, AsRead
  <2>2. /\ earning' = [earning EXCEPT ![e] = "available"]
        /\ Post(<<"hold-release", e>>, {e}, "pending", "available")
        /\ tx' = [tx EXCEPT ![w] = Idle] /\ UNCHANGED <<elapsed, payouts, issues>>
    BY <1>2 DEF CommitRelease
  <2> HIDE DEF e
  <2> QED BY <2>1, <2>2, EarningCommit
<1>3. CASE CommitReverse(w)
  <2>1. PICK old : old = tx[w].saw
    OBVIOUS
  <2>2. e \in Earnings /\ earning[e] = old /\ old \in {"pending", "available"}
    BY <1>1, <1>3, <2>1 DEF CommitReverse, TxSound, AsRead
  <2>3. /\ earning' = [earning EXCEPT ![e] = "reversed"]
        /\ Post(<<"earning-reversal", e>>, {e}, old, "reversed")
        /\ tx' = [tx EXCEPT ![w] = Idle] /\ UNCHANGED <<elapsed, payouts, issues>>
    BY <1>3, <2>1 DEF CommitReverse
  <2> HIDE DEF e
  <2> QED BY <2>2, <2>3, EarningCommit
<1> QED BY <1>2, <1>3

(* An issue is recorded for an earning that is paid, and stays so. *)
LEMMA PaidReversalInv == ASSUME IInv, NEW w \in Procs, RecordPaidReversal(w) PROVE IInv'
<1>1. /\ tx[w].e \in Earnings /\ earning[tx[w].e] = "paid"
      /\ issues' = issues \cup {tx[w].e} /\ tx' = [tx EXCEPT ![w] = Idle]
      /\ UNCHANGED <<earning, elapsed, payouts, share, posted>>
  BY DEF IInv, TxSound, RecordPaidReversal
<1>2. /\ tx' \in [Procs -> Tx] /\ FreshIds'
      /\ \A v \in Procs : TxSound(tx'[v], earning', payouts')
  <2>1. \A v \in Procs \ {w} :
          tx[v].cmd = "request" => payouts'[tx[v].p].status = "absent"
    BY <1>1 DEF IInv, TxSound
  <2> QED BY <1>1, <2>1, TxAfterCommit
<1>3. TypeOK'
  BY <1>1, <1>2 DEF IInv, TypeOK
<1>4. (LedgerAgrees /\ ClaimedByOnePayout /\ KeysTell)'
  BY <1>1 DEF IInv, LedgerAgrees, ClaimedByOnePayout, KeysTell, Allocated
<1> QED BY <1>1, <1>2, <1>3, <1>4 DEF IInv

-------------------------------------------------------------------------------
(* Commits of a payout.                                                     *)

(* The earnings of a set move together with their shares. *)
LEMMA BookedMoves ==
  ASSUME IInv, NEW S \in SUBSET Earnings,
         NEW old \in {"available", "requested"},
         NEW st \in {"available", "requested", "paid"}, old # st,
         \A e \in S : earning[e] = old,
         NEW key \in EventKeys, key \notin posted,
         earning' = [e \in Earnings |-> IF e \in S THEN st ELSE earning[e]],
         NEW from, NEW dest, from = BucketOf[old], dest = BucketOf[st],
         Post(key, S, from, dest)
  PROVE  /\ LedgerAgrees' /\ posted' = posted \cup {key}
         /\ earning' \in [Earnings -> EarningStatus]
         /\ share' \in [Earnings -> [Buckets -> Int]]
         /\ posted' \subseteq EventKeys
<1>1. /\ earning \in [Earnings -> EarningStatus] /\ posted \subseteq EventKeys
  BY DEF IInv, TypeOK
<1>2. earning' \in [Earnings -> EarningStatus]
  BY <1>1 DEF EarningStatus
<1>3. /\ posted' = posted \cup {key}
      /\ share' = [x \in Earnings |->
           IF x \in S THEN Moved(share[x], from, dest) ELSE share[x]]
  BY DEF Post
<1>4. Moved(Booked(old), from, dest) = Booked(st)
  BY MovedBooked DEF EarningStatus
<1>5. ASSUME NEW x \in Earnings PROVE share'[x] = Booked(earning'[x])
  <2>1. share[x] = Booked(earning[x])
    BY DEF IInv, LedgerAgrees
  <2>2. CASE x \in S
    BY <2>1, <2>2, <1>3, <1>4
  <2>3. CASE x \notin S
    BY <2>1, <2>3, <1>3
  <2> QED BY <2>2, <2>3
<1>6. share' \in [Earnings -> [Buckets -> Int]]
  <2>1. share' = [x \in Earnings |-> share'[x]]
    BY <1>3
  <2>2. \A x \in Earnings : share'[x] \in [Buckets -> Int]
    BY <1>2, <1>5, BookedTyped
  <2> QED BY <2>1, <2>2
<1> QED BY <1>1, <1>2, <1>3, <1>5, <1>6 DEF LedgerAgrees

(* A request that finds all its earnings lockable claims them. *)
LEMMA RequestInv == ASSUME IInv, NEW w \in Procs, CommitRequest(w) PROVE IInv'
<1>1. PICK p, S : p = tx[w].p /\ S = tx[w].set
  OBVIOUS
<1>2. /\ p \in Payouts /\ S \in SUBSET Earnings /\ S # {}
      /\ payouts[p].status = "absent" /\ tx[w].cmd = "request"
  BY <1>1 DEF IInv, TypeOK, TxSound, CommitRequest, Tx
<1>3. PICK row : row = [NoPayout EXCEPT !.status = "requested", !.alloc = S]
  OBVIOUS
<1>4. /\ Lockable(S)
      /\ earning' = [e \in Earnings |-> IF e \in S THEN "requested" ELSE earning[e]]
      /\ payouts' = [payouts EXCEPT ![p] = row]
      /\ Post(<<"payout-lock", p>>, S, "available", "locked")
      /\ tx' = [tx EXCEPT ![w] = Idle] /\ UNCHANGED <<elapsed, issues>>
  BY <1>1, <1>3 DEF CommitRequest
<1>5. row \in PayoutRow /\ row.status = "requested" /\ row.alloc = S /\ ~row.released
  BY <1>2, <1>3 DEF NoPayout, PayoutRow, PayoutStatus, OpenStatus
<1>6. payouts \in [Payouts -> PayoutRow] /\ payouts' \in [Payouts -> PayoutRow]
  BY <1>4, <1>5 DEF IInv, TypeOK
<1>7. <<"payout-lock", p>> \in EventKeys /\ <<"payout-lock", p>> \notin posted
  BY <1>2 DEF EventKeys, PayoutEvents, IInv, KeysTell
<1>8. /\ LedgerAgrees' /\ posted' = posted \cup {<<"payout-lock", p>>}
      /\ earning' \in [Earnings -> EarningStatus]
      /\ share' \in [Earnings -> [Buckets -> Int]] /\ posted' \subseteq EventKeys
  <2>1. BucketOf["available"] = "available" /\ BucketOf["requested"] = "locked"
    BY DEF BucketOf, EarningStatus
  <2>2. \A e \in S : earning[e] = "available"
    BY <1>4 DEF Lockable
  <2> QED BY <1>2, <1>4, <1>7, <2>1, <2>2, BookedMoves
<1>9. ClaimedByOnePayout'
  <2>1. \A e \in S : earning[e] = "available" /\ \A q \in Payouts : ~Allocated(e, q)
    BY <1>4 DEF Lockable
  <2>2. ASSUME NEW e \in Earnings, NEW q \in Payouts
        PROVE  Allocated(e, q)' <=> IF q = p THEN e \in S ELSE Allocated(e, q)
    BY <1>2, <1>4, <1>5, <1>6 DEF Allocated
  <2>3. ASSUME NEW e \in Earnings
        PROVE  /\ \A q, r \in Payouts : Allocated(e, q)' /\ Allocated(e, r)' => q = r
               /\ \A q \in Payouts : Allocated(e, q)' =>
                    IF payouts'[q].status = "paid" THEN earning'[e] = "paid"
                    ELSE /\ payouts'[q].status \in OpenStatus
                         /\ earning'[e] = "requested"
               /\ earning'[e] \in {"requested", "paid"} =>
                    \E q \in Payouts : Allocated(e, q)'
    <3>1. CASE e \in S
      BY <3>1, <2>1, <2>2, <1>2, <1>4, <1>5, <1>6 DEF OpenStatus
    <3>2. CASE e \notin S
      <4>1. earning'[e] = earning[e]
        BY <3>2, <1>4
      <4>2. \A q \in Payouts : Allocated(e, q)' => q # p /\ Allocated(e, q)
                                              /\ payouts'[q] = payouts[q]
        BY <3>2, <2>2, <1>4, <1>6
      <4>3. ~Allocated(e, p)
        BY <1>2 DEF Allocated, IInv, RowOK
      <4>4. \A q \in Payouts : Allocated(e, q) => Allocated(e, q)'
        BY <4>3, <2>2
      <4> QED BY <4>1, <4>2, <4>4 DEF IInv, ClaimedByOnePayout
    <3> QED BY <3>1, <3>2
  <2> QED BY <2>3 DEF ClaimedByOnePayout
<1>10. KeysTell'
  <2>1. \A e \in Earnings : earning'[e] # earning[e] =>
          earning[e] = "available" /\ earning'[e] = "requested"
    BY <1>4 DEF Lockable
  <2>2. \A e \in Earnings, x \in EarningEvents :
          <<x, e>> \in posted' <=> <<x, e>> \in posted
    BY <1>8 DEF EarningEvents
  <2>3. \A q \in Payouts, x \in PayoutEvents :
          <<x, q>> \in posted' <=> <<x, q>> \in posted \/ (x = "payout-lock" /\ q = p)
    BY <1>8 DEF PayoutEvents
  <2>4. \A q \in Payouts : payouts'[q] = IF q = p THEN row ELSE payouts[q]
    BY <1>4, <1>6
  <2>5. \A e \in Earnings :
         /\ <<"order-success", e>> \in posted' <=> earning'[e] # "absent"
         /\ <<"hold-release", e>> \in posted' => earning'[e] \notin {"absent", "pending"}
         /\ <<"earning-reversal", e>> \in posted' <=> earning'[e] = "reversed"
    BY <2>1, <2>2 DEF IInv, KeysTell, EarningEvents
  <2>6. \A q \in Payouts :
         /\ <<"payout-lock", q>> \in posted' <=> payouts'[q].status # "absent"
         /\ <<"payout-paid", q>> \in posted' <=> payouts'[q].status = "paid"
         /\ <<"payout-unlock", q>> \in posted' <=> payouts'[q].status \in VoidStatus
    BY <2>3, <2>4, <1>2, <1>5 DEF IInv, KeysTell, PayoutEvents, VoidStatus
  <2> QED BY <2>5, <2>6 DEF KeysTell
<1>11. /\ tx' \in [Procs -> Tx] /\ FreshIds'
       /\ \A v \in Procs : TxSound(tx'[v], earning', payouts')
  <2>1. \A e \in Earnings : earning[e] = "paid" => earning'[e] = "paid"
    BY <1>4 DEF Lockable
  <2>2. ASSUME NEW v \in Procs \ {w}, tx[v].cmd = "request"
        PROVE  payouts'[tx[v].p].status = "absent"
    <3>1. tx[v].p \in Payouts /\ payouts[tx[v].p].status = "absent"
      BY <2>2 DEF IInv, TxSound
    <3>2. tx[v].p # p
      BY <2>2, <1>1, <1>2 DEF IInv, FreshIds
    <3> QED BY <3>1, <3>2, <1>4
  <2> QED BY <1>4, <2>1, <2>2, TxAfterCommit
<1>12. TypeOK'
  BY <1>4, <1>6, <1>8, <1>11 DEF IInv, TypeOK
<1>13. \A q \in Payouts : RowOK(payouts'[q])
  BY <1>2, <1>4, <1>5, <1>6 DEF IInv, RowOK, VoidStatus
<1>14. \A e \in issues' : earning'[e] = "paid"
  BY <1>4 DEF IInv, TypeOK, Lockable
<1> QED BY <1>8, <1>9, <1>10, <1>11, <1>12, <1>13, <1>14 DEF IInv

(* The reviewed row keeps its allocations, and gives them up with them.     *)
LEMMA ReviewedRow ==
  ASSUME IInv, NEW w \in Procs, tx[w].cmd \in ReviewCommands, Reviewable(tx[w])
  PROVE  LET p == tx[w].p
             row == Reviewed(tx[w])
             st == NextStatus[tx[w].cmd]
         IN /\ p \in Payouts /\ payouts[p].status \in OpenStatus
            /\ st \in {"approved", "processing", "paid"} \cup VoidStatus
            /\ row \in PayoutRow /\ row.status = st
            /\ row.alloc = payouts[p].alloc /\ row.alloc # {}
            /\ row.released <=> st \in VoidStatus
            /\ ~payouts[p].released
<1> DEFINE c == tx[w].cmd
           p == tx[w].p
           st == NextStatus[c]
<1>1. /\ tx[w] \in Tx /\ TxSound(tx[w], earning, payouts)
      /\ payouts \in [Payouts -> PayoutRow]
  BY DEF IInv, TypeOK
<1>2. p \in Payouts /\ payouts[p].status \in ValidSources[c]
  BY <1>1 DEF Reviewable, TxSound
<1>3. payouts[p].status \in OpenStatus
  BY <1>2 DEF ValidSources, OpenStatus, ReviewCommands
<1>4. st \in {"approved", "processing", "paid"} \cup VoidStatus
  BY DEF NextStatus, VoidStatus, ReviewCommands
<1>5. tx[w].ref \in Refs \cup {None} /\ st \in PayoutStatus
  BY <1>1, <1>4 DEF Tx, PayoutStatus, OpenStatus
<1>6. payouts[p] \in PayoutRow /\ RowOK(payouts[p])
  BY <1>1, <1>2 DEF IInv
<1>7. payouts[p].alloc # {} /\ ~payouts[p].released
  BY <1>3, <1>6 DEF RowOK, OpenStatus, VoidStatus
<1> HIDE DEF st
<1>8. Reviewed(tx[w]) = [payouts[p] EXCEPT !.status = st, !.ref = tx[w].ref,
                                          !.released = st \in VoidStatus]
  BY DEF Reviewed, st
<1>9. PICK b \in BOOLEAN : b <=> st \in VoidStatus
  BY \E b \in BOOLEAN : b = IF st \in VoidStatus THEN TRUE ELSE FALSE
<1>10. PICK ref \in Refs \cup {None} : ref = tx[w].ref
  BY <1>5
<1>11. [payouts[p] EXCEPT !.status = st, !.ref = ref, !.released = b] \in PayoutRow
  BY <1>5, <1>6 DEF PayoutRow
<1>12. LET row == [payouts[p] EXCEPT !.status = st, !.ref = ref, !.released = b]
       IN row.status = st /\ row.alloc = payouts[p].alloc /\ row.released = b
  BY <1>6 DEF PayoutRow
<1>13. Reviewed(tx[w]) = [payouts[p] EXCEPT !.status = st, !.ref = ref, !.released = b]
  BY <1>8, <1>9, <1>10
<1> QED BY <1>2, <1>3, <1>4, <1>7, <1>9, <1>11, <1>12, <1>13 DEF st

(* A review step that moves the payout on within its open statuses. *)
LEMMA ProgressInv == ASSUME IInv, NEW w \in Procs, CommitProgress(w) PROVE IInv'
<1>1. PICK p, row : p = tx[w].p /\ row = Reviewed(tx[w])
  OBVIOUS
<1>2. /\ tx[w].cmd \in {"approve", "process"} /\ Reviewable(tx[w])
      /\ payouts' = [payouts EXCEPT ![p] = row] /\ tx' = [tx EXCEPT ![w] = Idle]
      /\ UNCHANGED <<earning, elapsed, share, posted, issues>>
  BY <1>1 DEF CommitProgress
<1>3. NextStatus[tx[w].cmd] \in {"approved", "processing"}
  BY <1>2 DEF NextStatus, ReviewCommands
<1>4. /\ p \in Payouts /\ payouts[p].status \in OpenStatus /\ ~payouts[p].released
      /\ row \in PayoutRow /\ row.status \in {"approved", "processing"}
      /\ row.alloc = payouts[p].alloc /\ row.alloc # {} /\ ~row.released
  BY <1>1, <1>2, <1>3, ReviewedRow DEF ReviewCommands, VoidStatus
<1>5. payouts \in [Payouts -> PayoutRow] /\ payouts' \in [Payouts -> PayoutRow]
  BY <1>2, <1>4 DEF IInv, TypeOK
<1>6. /\ tx' \in [Procs -> Tx] /\ FreshIds'
      /\ \A v \in Procs : TxSound(tx'[v], earning', payouts')
  <2>1. ASSUME NEW v \in Procs \ {w}, tx[v].cmd = "request"
        PROVE  payouts'[tx[v].p].status = "absent"
    <3>1. tx[v].p \in Payouts /\ payouts[tx[v].p].status = "absent"
      BY <2>1 DEF IInv, TxSound
    <3> QED BY <3>1, <1>2, <1>4, <1>5 DEF OpenStatus
  <2> QED BY <1>2, <2>1, TxAfterCommit
<1>7. ClaimedByOnePayout'
  <2>1. \A e \in Earnings, q \in Payouts : Allocated(e, q)' <=> Allocated(e, q)
    BY <1>2, <1>4, <1>5 DEF Allocated
  <2> QED BY <2>1, <1>2, <1>4, <1>5 DEF IInv, ClaimedByOnePayout, OpenStatus
<1>8. KeysTell'
  BY <1>2, <1>4, <1>5 DEF IInv, KeysTell, OpenStatus, VoidStatus
<1>9. \A q \in Payouts : RowOK(payouts'[q])
  BY <1>2, <1>4, <1>5 DEF IInv, RowOK, VoidStatus
<1>10. TypeOK' /\ LedgerAgrees'
  BY <1>2, <1>5, <1>6 DEF IInv, TypeOK, LedgerAgrees
<1> QED BY <1>2, <1>6, <1>7, <1>8, <1>9, <1>10 DEF IInv

(* A settlement: the payout's compare-and-set alone is enough for the       *)
(* earnings to follow it, because all earnings of an open payout are        *)
(* requested.                                                               *)
Settles(w, p, row, S, to) ==
  /\ p \in Payouts /\ payouts[p].status \in OpenStatus /\ ~payouts[p].released
  /\ S \in SUBSET Earnings /\ S = payouts[p].alloc /\ S # {}
  /\ row \in PayoutRow /\ row.alloc = S
  /\ to \in {"paid", "available"}
  /\ to = "paid" => row.status = "paid" /\ ~row.released
  /\ to = "available" => row.status \in VoidStatus /\ row.released
  /\ \A e \in S : Allocated(e, p) /\ earning[e] = "requested"
  /\ payouts' = [payouts EXCEPT ![p] = row]
  /\ earning' = [e \in Earnings |-> IF e \in S THEN to ELSE earning[e]]
  /\ Post(<<IF to = "paid" THEN "payout-paid" ELSE "payout-unlock", p>>, S, "locked", to)
  /\ tx' = [tx EXCEPT ![w] = Idle]
  /\ UNCHANGED <<elapsed, issues>>

LEMMA SettlementEffect ==
  ASSUME IInv, NEW w \in Procs, CommitSettlement(w),
         NEW p, p = tx[w].p, NEW row, row = Reviewed(tx[w]),
         NEW S, S = payouts[p].alloc,
         NEW to, to = IF tx[w].cmd = "markPaid" THEN "paid" ELSE "available"
  PROVE  Settles(w, p, row, S, to)
<1>1. /\ tx[w].cmd \in {"markPaid", "reject", "fail"} /\ Reviewable(tx[w])
      /\ payouts' = [payouts EXCEPT ![p] = row] /\ tx' = [tx EXCEPT ![w] = Idle]
      /\ earning' = [e \in Earnings |-> IF e \in S /\ earning[e] = "requested"
                                         THEN to ELSE earning[e]]
      /\ Post(ReviewKey(tx[w].cmd, p), S, "locked", to)
      /\ UNCHANGED <<elapsed, issues>>
  BY DEF CommitSettlement
<1>2. /\ to \in {"paid", "available"}
      /\ to = "paid" => NextStatus[tx[w].cmd] = "paid"
      /\ to = "available" => NextStatus[tx[w].cmd] \in VoidStatus
  BY <1>1 DEF NextStatus, ReviewCommands, VoidStatus
<1>3. ReviewKey(tx[w].cmd, p)
        = <<IF to = "paid" THEN "payout-paid" ELSE "payout-unlock", p>>
  BY <1>1 DEF ReviewKey
<1>4. Post(<<IF to = "paid" THEN "payout-paid" ELSE "payout-unlock", p>>, S, "locked", to)
  BY <1>1, <1>3 DEF Post
<1>5. /\ p \in Payouts /\ payouts[p].status \in OpenStatus /\ ~payouts[p].released
      /\ row \in PayoutRow /\ row.alloc = S /\ S # {}
      /\ to = "paid" => row.status = "paid" /\ ~row.released
      /\ to = "available" => row.status \in VoidStatus /\ row.released
  BY <1>1, <1>2, ReviewedRow DEF ReviewCommands, VoidStatus
<1>6. S \in SUBSET Earnings
  BY <1>5 DEF PayoutRow
<1>7. \A e \in S : Allocated(e, p) /\ earning[e] = "requested"
  <2>1. \A e \in S : Allocated(e, p)
    BY <1>5 DEF Allocated
  <2> QED BY <2>1, <1>5, <1>6 DEF IInv, ClaimedByOnePayout, OpenStatus
<1>8. earning' = [e \in Earnings |-> IF e \in S THEN to ELSE earning[e]]
  BY <1>1, <1>7
<1> QED BY <1>1, <1>2, <1>4, <1>5, <1>6, <1>7, <1>8 DEF Settles

LEMMA SettlementInv == ASSUME IInv, NEW w \in Procs, CommitSettlement(w) PROVE IInv'
<1>1. PICK p, row, S, to :
        /\ p = tx[w].p /\ row = Reviewed(tx[w]) /\ S = payouts[p].alloc
        /\ to = IF tx[w].cmd = "markPaid" THEN "paid" ELSE "available"
  OBVIOUS
<1>2. Settles(w, p, row, S, to)
  BY <1>1, SettlementEffect
<1> DEFINE key == <<IF to = "paid" THEN "payout-paid" ELSE "payout-unlock", p>>
<1>3. /\ payouts' = [payouts EXCEPT ![p] = row] /\ tx' = [tx EXCEPT ![w] = Idle]
      /\ Post(key, S, "locked", to)
      /\ UNCHANGED <<elapsed, issues>>
  BY <1>2 DEF Settles
<1>4. /\ to \in {"paid", "available"}
      /\ to = "paid" => key = <<"payout-paid", p>>
      /\ to = "available" => key = <<"payout-unlock", p>>
  BY <1>2 DEF Settles
<1> HIDE DEF key
<1>5. /\ p \in Payouts /\ payouts[p].status \in OpenStatus /\ ~payouts[p].released
      /\ row \in PayoutRow /\ row.alloc = S /\ S # {}
      /\ to = "paid" => row.status = "paid" /\ ~row.released
      /\ to = "available" => row.status \in VoidStatus /\ row.released
  BY <1>2 DEF Settles
<1>6. payouts \in [Payouts -> PayoutRow] /\ payouts' \in [Payouts -> PayoutRow]
  BY <1>3, <1>5 DEF IInv, TypeOK
<1>7. S \in SUBSET Earnings
  BY <1>2 DEF Settles
<1>8. \A e \in S : Allocated(e, p) /\ earning[e] = "requested"
  BY <1>2 DEF Settles
<1>9. earning' = [e \in Earnings |-> IF e \in S THEN to ELSE earning[e]]
  BY <1>2 DEF Settles
<1>10. key \in EventKeys /\ key \notin posted
  <2>1. /\ <<"payout-paid", p>> \in EventKeys /\ <<"payout-unlock", p>> \in EventKeys
        /\ <<"payout-paid", p>> \notin posted /\ <<"payout-unlock", p>> \notin posted
    BY <1>5 DEF EventKeys, PayoutEvents, IInv, KeysTell, OpenStatus, VoidStatus
  <2> QED BY <2>1, <1>4
<1>11. /\ LedgerAgrees' /\ posted' = posted \cup {key}
       /\ earning' \in [Earnings -> EarningStatus]
       /\ share' \in [Earnings -> [Buckets -> Int]] /\ posted' \subseteq EventKeys
  <2>1. BucketOf["requested"] = "locked" /\ BucketOf[to] = to
    BY <1>4 DEF BucketOf, EarningStatus
  <2> QED BY <1>3, <1>4, <1>7, <1>8, <1>9, <1>10, <2>1, BookedMoves
<1>12. /\ tx' \in [Procs -> Tx] /\ FreshIds'
       /\ \A v \in Procs : TxSound(tx'[v], earning', payouts')
  <2>1. \A e \in Earnings : earning[e] = "paid" => earning'[e] = "paid"
    BY <1>8, <1>9
  <2>2. ASSUME NEW v \in Procs \ {w}, tx[v].cmd = "request"
        PROVE  payouts'[tx[v].p].status = "absent"
    <3>1. tx[v].p \in Payouts /\ payouts[tx[v].p].status = "absent"
      BY <2>2 DEF IInv, TxSound
    <3> QED BY <3>1, <1>3, <1>5, <1>6 DEF OpenStatus
  <2> QED BY <1>3, <2>1, <2>2, TxAfterCommit
<1>13. ClaimedByOnePayout'
  <2>1. ASSUME NEW e \in Earnings, NEW q \in Payouts
        PROVE  Allocated(e, q)' <=> Allocated(e, q) /\ (q = p => to = "paid")
    BY <1>2, <1>3, <1>4, <1>5, <1>6 DEF Allocated, Settles
  <2>2. ASSUME NEW e \in Earnings
        PROVE  /\ \A q, r \in Payouts : Allocated(e, q)' /\ Allocated(e, r)' => q = r
               /\ \A q \in Payouts : Allocated(e, q)' =>
                    IF payouts'[q].status = "paid" THEN earning'[e] = "paid"
                    ELSE /\ payouts'[q].status \in OpenStatus
                         /\ earning'[e] = "requested"
               /\ earning'[e] \in {"requested", "paid"} =>
                    \E q \in Payouts : Allocated(e, q)'
    <3>1. \A q, r \in Payouts : Allocated(e, q) /\ Allocated(e, r) => q = r
      BY DEF IInv, ClaimedByOnePayout
    <3>2. CASE e \in S
      BY <3>1, <3>2, <2>1, <1>4, <1>5, <1>6, <1>3, <1>8, <1>9
    <3>3. CASE e \notin S
      <4>1. earning'[e] = earning[e] /\ ~Allocated(e, p)
        BY <3>3, <1>2, <1>9 DEF Allocated, Settles
      <4>2. \A q \in Payouts : /\ Allocated(e, q)' <=> Allocated(e, q)
                               /\ Allocated(e, q) => payouts'[q] = payouts[q]
        BY <4>1, <2>1, <1>3, <1>6
      <4> QED BY <4>1, <4>2 DEF IInv, ClaimedByOnePayout
    <3> QED BY <3>2, <3>3
  <2> QED BY <2>2 DEF ClaimedByOnePayout
<1>14. KeysTell'
  <2>1. \A e \in Earnings : earning'[e] # earning[e] =>
          earning[e] = "requested" /\ earning'[e] \in {"paid", "available"}
    BY <1>4, <1>8, <1>9
  <2>2. \A e \in Earnings, x \in EarningEvents :
          <<x, e>> \in posted' <=> <<x, e>> \in posted
    BY <1>4, <1>11 DEF EarningEvents
  <2>3. \A q \in Payouts, x \in PayoutEvents :
          <<x, q>> \in posted' <=>
            \/ <<x, q>> \in posted
            \/ q = p /\ x = IF to = "paid" THEN "payout-paid" ELSE "payout-unlock"
    BY <1>4, <1>11
  <2>4. \A q \in Payouts : payouts'[q] = IF q = p THEN row ELSE payouts[q]
    BY <1>3, <1>6
  <2>5. \A e \in Earnings :
         /\ <<"order-success", e>> \in posted' <=> earning'[e] # "absent"
         /\ <<"hold-release", e>> \in posted' => earning'[e] \notin {"absent", "pending"}
         /\ <<"earning-reversal", e>> \in posted' <=> earning'[e] = "reversed"
    BY <2>1, <2>2 DEF IInv, KeysTell, EarningEvents
  <2>6. \A q \in Payouts :
         /\ <<"payout-lock", q>> \in posted' <=> payouts'[q].status # "absent"
         /\ <<"payout-paid", q>> \in posted' <=> payouts'[q].status = "paid"
         /\ <<"payout-unlock", q>> \in posted' <=> payouts'[q].status \in VoidStatus
    BY <2>3, <2>4, <1>4, <1>5
       DEF IInv, KeysTell, PayoutEvents, VoidStatus, OpenStatus
  <2> QED BY <2>5, <2>6 DEF KeysTell
<1>15. TypeOK'
  BY <1>3, <1>6, <1>11, <1>12 DEF IInv, TypeOK
<1>16. \A q \in Payouts : RowOK(payouts'[q])
  BY <1>3, <1>4, <1>5, <1>6 DEF IInv, RowOK, VoidStatus
<1>17. \A e \in issues' : earning'[e] = "paid"
  BY <1>3, <1>8, <1>9 DEF IInv, TypeOK
<1> QED BY <1>11, <1>12, <1>13, <1>14, <1>15, <1>16, <1>17 DEF IInv

-------------------------------------------------------------------------------
(* Steps that only read, refuse, roll back or crash.                        *)
LEMMA ReadInv ==
  ASSUME IInv, NEW w \in Procs,
         \/ \E e \in Earnings : JobLists(w, e) \/ SubmitReverse(w, e) \/ ReadWanted(w, e)
         \/ ReadListed(w)
         \/ \E p \in Payouts :
              \/ \E S \in SUBSET Earnings : SubmitRequest(w, p, S)
              \/ \E c \in ReviewCommands, r \in Refs \cup {None} : SubmitReview(w, p, c, r)
         \/ EarningContention(w) \/ RequestContention(w) \/ ReviewContention(w) \/ Crash(w)
  PROVE  IInv'
<1>1. /\ tx \in [Procs -> Tx] /\ tx[w] \in Tx /\ TxSound(tx[w], earning, payouts)
      /\ earning \in [Earnings -> EarningStatus] /\ payouts \in [Payouts -> PayoutRow]
  BY DEF IInv, TypeOK
<1>2. ASSUME tx' = [tx EXCEPT ![w] = Idle],
             UNCHANGED <<earning, elapsed, payouts, share, posted, issues>>
      PROVE  IInv'
  <2>1. \A v \in Procs \ {w} : tx[v].cmd = "request" => tx[v].p # Idle.p
    BY ConstantsAssumption DEF Idle, IInv, TxSound
  <2> QED BY <1>2, <2>1, IdleSound, TxOnly
<1>3. ASSUME NEW e \in Earnings, JobLists(w, e) PROVE IInv'
  <2>1. PICK n : n = [Idle EXCEPT !.step = "read", !.cmd = "release", !.e = e]
    OBVIOUS
  <2>2. n \in Tx /\ n.cmd = "release" /\ n.p = None /\ TxSound(n, earning, payouts)
    BY <2>1, ConstantsAssumption DEF Idle, Tx, TxSound, EarningStatus, ReviewCommands
  <2>3. tx' = [tx EXCEPT ![w] = n]
        /\ UNCHANGED <<earning, elapsed, payouts, share, posted, issues>>
    BY <1>3, <2>1 DEF JobLists
  <2>4. \A v \in Procs \ {w} : tx[v].cmd = "request" => tx[v].p # n.p
    BY <2>2, ConstantsAssumption DEF IInv, TxSound
  <2> QED BY <2>2, <2>3, <2>4, TxOnly
<1>4. ASSUME NEW e \in Earnings, SubmitReverse(w, e) PROVE IInv'
  <2>1. PICK n : n = [Idle EXCEPT !.step = "commit", !.cmd = "reverse", !.e = e,
                                  !.saw = earning[e]]
    OBVIOUS
  <2>2. n \in Tx /\ n.cmd = "reverse" /\ n.p = None /\ n.e = e /\ n.saw = earning[e]
    BY <1>1, <2>1 DEF Idle, Tx, EarningStatus
  <2>3. tx' = [tx EXCEPT ![w] = n]
        /\ earning[e] \in {"pending", "available", "paid"}
        /\ UNCHANGED <<earning, elapsed, payouts, share, posted, issues>>
    BY <1>4, <2>1 DEF SubmitReverse
  <2>4. TxSound(n, earning, payouts)
    BY <2>2, <2>3 DEF TxSound, ReviewCommands
  <2>5. \A v \in Procs \ {w} : tx[v].cmd = "request" => tx[v].p # n.p
    BY <2>2, ConstantsAssumption DEF IInv, TxSound
  <2> QED BY <2>2, <2>3, <2>4, <2>5, TxOnly
<1>5. ASSUME NEW e \in Earnings, ReadWanted(w, e) PROVE IInv'
  <2>1. PICK seen \in SUBSET Earnings : seen = tx[w].seen \cup {e}
    BY <1>1 DEF Tx
  <2>2. PICK step \in {"read", "commit"} :
          step = IF tx[w].set = seen THEN "commit" ELSE "read"
    OBVIOUS
  <2>3. PICK n : n = [tx[w] EXCEPT !.seen = seen, !.step = step]
    OBVIOUS
  <2>4. n \in Tx
    BY <1>1, <2>3 DEF Tx
  <2>5. n.cmd = "request" /\ n.p = tx[w].p /\ n.set = tx[w].set /\ tx[w].cmd = "request"
    BY <1>1, <1>5, <2>3 DEF Tx, ReadWanted
  <2>6. TxSound(n, earning, payouts)
    BY <1>1, <2>5 DEF TxSound, ReviewCommands
  <2>7. \A v \in Procs \ {w} : tx[v].p # n.p
    BY <2>5 DEF IInv, FreshIds
  <2>8. CASE tx' = [tx EXCEPT ![w] = n]
    BY <1>5, <2>4, <2>6, <2>7, <2>8, TxOnly DEF ReadWanted
  <2>9. CASE tx' = [tx EXCEPT ![w] = Idle]
    BY <1>2, <1>5, <2>9 DEF ReadWanted
  <2>10. tx' = [tx EXCEPT ![w] = Idle] \/ tx' = [tx EXCEPT ![w] = n]
    BY <1>5, <2>1, <2>2, <2>3 DEF ReadWanted
  <2> QED BY <2>8, <2>9, <2>10
<1>6. ASSUME ReadListed(w) PROVE IInv'
  <2>1. PICK n : n = [tx[w] EXCEPT !.step = "commit", !.saw = "pending"]
    OBVIOUS
  <2>2. n \in Tx /\ n.cmd = "release" /\ n.e = tx[w].e /\ n.saw = "pending"
        /\ n.p = tx[w].p /\ tx[w].cmd = "release"
    BY <1>1, <1>6, <2>1 DEF Tx, ReadListed, EarningStatus
  <2>3. TxSound(n, earning, payouts)
    BY <1>1, <2>2 DEF TxSound, ReviewCommands
  <2>4. \A v \in Procs \ {w} : tx[v].cmd = "request" => tx[v].p # n.p
    BY <2>2 DEF IInv, FreshIds
  <2>5. CASE tx' = [tx EXCEPT ![w] = n]
    BY <1>6, <2>2, <2>3, <2>4, <2>5, TxOnly DEF ReadListed
  <2>6. CASE tx' = [tx EXCEPT ![w] = Idle]
    BY <1>2, <1>6, <2>6 DEF ReadListed
  <2>7. tx' = [tx EXCEPT ![w] = Idle] \/ tx' = [tx EXCEPT ![w] = n]
    BY <1>1, <1>6, <2>1 DEF ReadListed
  <2> QED BY <2>5, <2>6, <2>7
<1>7. ASSUME NEW p \in Payouts, NEW S \in SUBSET Earnings, SubmitRequest(w, p, S)
      PROVE  IInv'
  <2>1. PICK n : n = [Idle EXCEPT !.step = "read", !.cmd = "request", !.p = p, !.set = S]
    OBVIOUS
  <2>2. n \in Tx /\ n.cmd = "request" /\ n.p = p /\ n.set = S
    BY <2>1 DEF Idle, Tx, EarningStatus
  <2>3. /\ tx' = [tx EXCEPT ![w] = n] /\ S # {} /\ payouts[p].status = "absent"
        /\ \A v \in Procs : tx[v].p # p
        /\ UNCHANGED <<earning, elapsed, payouts, share, posted, issues>>
    BY <1>7, <2>1 DEF SubmitRequest
  <2>4. TxSound(n, earning, payouts)
    BY <2>2, <2>3 DEF TxSound, ReviewCommands
  <2> QED BY <2>2, <2>3, <2>4, TxOnly
<1>8. ASSUME NEW p \in Payouts, NEW c \in ReviewCommands, NEW r \in Refs \cup {None},
             SubmitReview(w, p, c, r)
      PROVE  IInv'
  <2>1. PICK n : n = [Idle EXCEPT !.step = "commit", !.cmd = c, !.p = p, !.ref = r,
                                  !.saw = payouts[p].status]
    OBVIOUS
  <2>2. PICK st \in PayoutStatus : st = payouts[p].status
    BY <1>1 DEF PayoutRow
  <2>3. n \in Tx /\ n.cmd = c /\ n.p = p /\ n.saw = payouts[p].status
    BY <2>1, <2>2 DEF Idle, Tx
  <2>4. /\ tx' = [tx EXCEPT ![w] = n] /\ payouts[p].status \in ValidSources[c]
        /\ UNCHANGED <<earning, elapsed, payouts, share, posted, issues>>
    BY <1>8, <2>1 DEF SubmitReview
  <2>5. TxSound(n, earning, payouts)
    BY <2>3, <2>4 DEF TxSound, ReviewCommands
  <2>6. payouts[p].status # "absent"
    BY <2>4 DEF ValidSources, ReviewCommands, OpenStatus
  <2>7. \A v \in Procs \ {w} : tx[v].cmd = "request" => tx[v].p # n.p
    BY <2>3, <2>6 DEF IInv, TxSound
  <2>8. n.cmd # "request"
    BY <2>3 DEF ReviewCommands
  <2> QED BY <2>3, <2>4, <2>5, <2>7, <2>8, TxOnly
<1>9. ASSUME EarningContention(w) \/ RequestContention(w) \/ ReviewContention(w) \/ Crash(w)
      PROVE  IInv'
  BY <1>2, <1>9 DEF EarningContention, RequestContention, ReviewContention, Crash
<1> QED BY <1>3, <1>4, <1>5, <1>6, <1>7, <1>8, <1>9

(* Time only lets holds elapse. *)
LEMMA ElapseInv == ASSUME IInv, NEW e \in Earnings, HoldElapses(e) PROVE IInv'
  BY DEF IInv, TypeOK, LedgerAgrees, ClaimedByOnePayout, KeysTell, FreshIds,
         Allocated, HoldElapses

-------------------------------------------------------------------------------
(* The safety theorems.                                                     *)

(* Initially nothing is booked, claimed or in flight. *)
LEMMA InitInv == Init => IInv
<1> SUFFICES ASSUME Init PROVE IInv
  OBVIOUS
<1>1. TypeOK
  <2>1. NoPayout \in PayoutRow
    BY DEF NoPayout, PayoutRow, PayoutStatus
  <2> QED BY <2>1, IdleSound DEF Init, TypeOK, EarningStatus
<1>2. LedgerAgrees
  BY DEF Init, LedgerAgrees, Booked
<1>3. ClaimedByOnePayout /\ KeysTell /\ \A p \in Payouts : RowOK(payouts[p])
  BY DEF Init, ClaimedByOnePayout, Allocated, KeysTell, RowOK, NoPayout, VoidStatus
<1>4. (\A w \in Procs : TxSound(tx[w], earning, payouts)) /\ FreshIds
  BY IdleSound DEF Init, FreshIds
<1> QED BY <1>1, <1>2, <1>3, <1>4 DEF Init, IInv

(* Every action preserves the invariant. *)
LEMMA NextInv == IInv /\ [Next]_vars => IInv'
<1> SUFFICES ASSUME IInv, [Next]_vars PROVE IInv'
  OBVIOUS
<1>1. ApiProcs \subseteq Procs /\ CronProcs \subseteq Procs
  BY DEF Procs
<1>2. CASE EarningStep
  BY <1>1, <1>2, AccrueInv, ElapseInv, ReadInv, CommitEarningInv, PaidReversalInv
     DEF EarningStep
<1>3. CASE PayoutStep
  BY <1>1, <1>3, ReadInv, RequestInv, ProgressInv, SettlementInv DEF PayoutStep
<1>4. CASE \E w \in Procs : Crash(w)
  BY <1>4, ReadInv
<1>5. CASE UNCHANGED vars
  BY <1>5 DEF vars, IInv, TypeOK, LedgerAgrees, ClaimedByOnePayout, KeysTell, FreshIds,
              Allocated
<1> QED BY <1>2, <1>3, <1>4, <1>5 DEF Next

(* IInv, the conjunction of the safety invariants with what every command   *)
(* in flight relies on, holds of every reachable state.                     *)
THEOREM Invariance == Spec => []IInv
  BY InitInv, NextInv, PTL DEF Spec

(* After every commit the ledger's balances are those the statuses imply. *)
THEOREM LedgerAgreement == Spec => []LedgerAgrees
<1>1. IInv => LedgerAgrees
  BY DEF IInv
<1> QED BY <1>1, Invariance, PTL

(* No earning is ever in two payouts, paid twice or stranded by one. *)
THEOREM ClaimsAreExclusive == Spec => []ClaimedByOnePayout
<1>1. IInv => ClaimedByOnePayout
  BY DEF IInv
<1> QED BY <1>1, Invariance, PTL

(* The review of a payout ends once: paid or given back, it never changes. *)
THEOREM SettledForGood == Spec => SettledIsFinal
<1> DEFINE Final == \A p \in Payouts :
                      payouts[p].status \in {"paid"} \cup VoidStatus => payouts'[p] = payouts[p]
<1>1. IInv /\ [Next]_vars => [Final]_vars
  <2> SUFFICES ASSUME IInv, [Next]_vars, NEW p \in Payouts,
                      payouts[p].status \in {"paid"} \cup VoidStatus
               PROVE  payouts'[p] = payouts[p]
    OBVIOUS
  <2>1. payouts[p].status # "absent" /\ payouts[p].status \notin OpenStatus
        /\ payouts \in [Payouts -> PayoutRow]
    BY DEF IInv, TypeOK, VoidStatus, OpenStatus
  <2>2. CASE UNCHANGED payouts
    BY <2>2
  <2>3. ASSUME NEW w \in Procs, CommitRequest(w) PROVE payouts'[p] = payouts[p]
    <3>1. tx[w].p \in Payouts /\ payouts[tx[w].p].status = "absent"
      BY <2>3 DEF IInv, TxSound, CommitRequest
    <3> QED BY <2>1, <2>3, <3>1 DEF CommitRequest
  <2>4. ASSUME NEW w \in Procs, CommitProgress(w) \/ CommitSettlement(w)
        PROVE  payouts'[p] = payouts[p]
    <3>1. tx[w].cmd \in ReviewCommands /\ Reviewable(tx[w])
      BY <2>4 DEF CommitProgress, CommitSettlement, ReviewCommands
    <3>2. payouts[tx[w].p].status \in OpenStatus
      BY <3>1, ReviewedRow
    <3> QED BY <2>1, <2>4, <3>2 DEF CommitProgress, CommitSettlement
  <2>5. ApiProcs \subseteq Procs
    BY DEF Procs
  <2>6. EarningStep => UNCHANGED payouts
    BY DEF EarningStep, Accrue, HoldElapses, JobLists, ReadListed, SubmitReverse,
           CommitRelease, CommitReverse, RecordPaidReversal, EarningContention
  <2>7. PayoutStep => \/ UNCHANGED payouts
                      \/ \E w \in ApiProcs : \/ CommitRequest(w) \/ CommitProgress(w)
                                            \/ CommitSettlement(w)
    BY DEF PayoutStep, SubmitRequest, ReadWanted, SubmitReview, RequestContention,
           ReviewContention
  <2>8. (\E w \in Procs : Crash(w)) => UNCHANGED payouts
    BY DEF Crash
  <2>9. UNCHANGED vars => UNCHANGED payouts
    BY DEF vars
  <2> QED BY <2>2, <2>3, <2>4, <2>5, <2>6, <2>7, <2>8, <2>9 DEF Next
<1> QED BY <1>1, Invariance, PTL DEF Spec, SettledIsFinal

-------------------------------------------------------------------------------
(* The refinement of PayoutBook.                                            *)

(* The place the ledger must show for a status. *)
PlaceOf(st) == IF st = "absent" THEN "nowhere" ELSE BucketOf[st]

(* Under the invariant the ledger shows it, and the allocations show whose  *)
(* claim an earning is under.                                               *)
LEMMA BookRead ==
  ASSUME IInv, NEW e \in Earnings
  PROVE  /\ Place(e) = PlaceOf(earning[e])
         /\ \A p \in Payouts : Allocated(e, p) => ClaimOf(e) = p
         /\ (\A p \in Payouts : ~Allocated(e, p)) => ClaimOf(e) = None
<1>1. earning[e] \in EarningStatus /\ share[e] = Booked(earning[e])
  BY DEF IInv, TypeOK, LedgerAgrees
<1>2. posted \cap (EarningEvents \X {e}) = {} <=> earning[e] = "absent"
  <2>1. ASSUME NEW k \in posted, k \in EarningEvents \X {e}, earning[e] = "absent"
        PROVE  FALSE
    <3>1. PICK x \in EarningEvents : k = <<x, e>>
      BY <2>1
    <3> QED BY <2>1, <3>1 DEF IInv, KeysTell, EarningEvents
  <2>2. earning[e] # "absent" =>
          <<"order-success", e>> \in posted \cap (EarningEvents \X {e})
    BY DEF IInv, KeysTell, EarningEvents
  <2> QED BY <2>1, <2>2
<1>3. ASSUME earning[e] # "absent"
      PROVE  (CHOOSE b \in Buckets : share[e][b] = 1) = BucketOf[earning[e]]
  <2>1. BucketOf[earning[e]] \in Buckets \ {"payable"}
    BY <1>1, <1>3 DEF BucketOf, EarningStatus, Buckets
  <2>2. \A b \in Buckets : share[e][b] = 1 <=> b = BucketOf[earning[e]]
    BY <1>1, <1>3, BookedAt
  <2> QED BY <2>1, <2>2
<1>4. Place(e) = PlaceOf(earning[e])
  BY <1>2, <1>3 DEF Place, PlaceOf
<1>5. \A p, q \in Payouts : Allocated(e, p) /\ Allocated(e, q) => p = q
  BY DEF IInv, ClaimedByOnePayout
<1>6. ASSUME NEW p \in Payouts, Allocated(e, p) PROVE ClaimOf(e) = p
  <2>1. \A q \in Payouts : Allocated(e, q) <=> q = p
    BY <1>5, <1>6
  <2> QED BY <2>1 DEF ClaimOf
<1>7. (\A p \in Payouts : ~Allocated(e, p)) => ClaimOf(e) = None
  BY DEF ClaimOf
<1> QED BY <1>4, <1>6, <1>7

(* What is read of the book is the same function of the rows before and     *)
(* after a step.                                                            *)
ReadsBook ==
  \A e \in Earnings :
    /\ Place(e) = PlaceOf(earning[e])
    /\ \A p \in Payouts : Allocated(e, p) => ClaimOf(e) = p
    /\ (\A p \in Payouts : ~Allocated(e, p)) => ClaimOf(e) = None

LEMMA BookReads == IInv => ReadsBook
  BY BookRead DEF ReadsBook

LEMMA BookReadsNext == IInv' => ReadsBook'
  BY BookReads, PTL

(* Steps that leave the statuses and the allocations alone stutter. *)
LEMMA BookStutters ==
  ASSUME IInv, IInv', UNCHANGED <<earning, payouts>>
  PROVE  UNCHANGED Book!vars
<1>1. \A e \in Earnings : Place(e)' = Place(e)
  BY BookReads, BookReadsNext DEF ReadsBook
<1>2. \A e \in Earnings : ClaimOf(e)' = ClaimOf(e)
  BY DEF ClaimOf, Allocated
<1> QED BY <1>1, <1>2 DEF Book!vars

(* One earning's status and share move: a move of the book. *)
LEMMA BookMove ==
  ASSUME IInv, IInv', NEW e \in Earnings,
         NEW st \in {"pending", "available", "reversed"},
         <<PlaceOf(earning[e]), st>> \in Book!Moves,
         earning' = [earning EXCEPT ![e] = st], UNCHANGED payouts
  PROVE  Book!Next
<1>1. earning \in [Earnings -> EarningStatus]
  BY DEF IInv, TypeOK
<1>2. PlaceOf(st) = st
  BY DEF PlaceOf, BucketOf, EarningStatus
<1>3. \A x \in Earnings : Place(x)' = IF x = e THEN st ELSE Place(x)
  BY <1>1, <1>2, BookReads, BookReadsNext DEF ReadsBook
<1>4. \A x \in Earnings : ClaimOf(x)' = ClaimOf(x)
  BY DEF ClaimOf, Allocated
<1>5. [x \in Earnings |-> Place(x)]'
        = [[x \in Earnings |-> Place(x)] EXCEPT ![e] = st]
  BY <1>3
<1>6. PICK m \in Book!Moves : m = <<PlaceOf(earning[e]), st>>
  OBVIOUS
<1>7. m[1] = Place(e) /\ m[2] = st
  BY <1>6, BookReads DEF ReadsBook
<1>8. Book!Move(e)
  BY <1>4, <1>5, <1>6, <1>7 DEF Book!Move
<1> QED BY <1>8 DEF Book!Next

(* A release and a reversal are such moves. *)
LEMMA BookCommit ==
  ASSUME IInv, IInv', NEW w \in Procs, CommitRelease(w) \/ CommitReverse(w)
  PROVE  Book!Next
<1>1. TxSound(tx[w], earning, payouts)
  BY DEF IInv
<1>2. PICK x, st : x = tx[w].e /\ st = IF CommitRelease(w) THEN "available" ELSE "reversed"
  OBVIOUS
<1>3. /\ x \in Earnings /\ earning[x] \in {"pending", "available"}
      /\ CommitRelease(w) => earning[x] = "pending"
      /\ earning' = [earning EXCEPT ![x] = st] /\ UNCHANGED payouts
  BY <1>1, <1>2 DEF CommitRelease, CommitReverse, TxSound, AsRead
<1>4. <<PlaceOf(earning[x]), st>> \in Book!Moves
  BY <1>2, <1>3 DEF PlaceOf, BucketOf, EarningStatus, Book!Moves
<1>5. st \in {"pending", "available", "reversed"}
  BY <1>2
<1> QED BY <1>3, <1>4, <1>5, BookMove

(* A committed request claims its earnings. *)
LEMMA BookClaim == ASSUME IInv, IInv', NEW w \in Procs, CommitRequest(w) PROVE Book!Next
<1>1. PICK p, S : p = tx[w].p /\ S = tx[w].set
  OBVIOUS
<1>2. PICK row : row = [NoPayout EXCEPT !.status = "requested", !.alloc = S]
  OBVIOUS
<1>3. /\ p \in Payouts /\ S \in SUBSET Earnings /\ S # {} /\ payouts[p].status = "absent"
  BY <1>1 DEF IInv, TypeOK, TxSound, CommitRequest, Tx
<1>4. /\ Lockable(S)
      /\ earning' = [e \in Earnings |-> IF e \in S THEN "requested" ELSE earning[e]]
      /\ payouts' = [payouts EXCEPT ![p] = row]
  BY <1>1, <1>2 DEF CommitRequest
<1>5. row.status = "requested" /\ row.alloc = S /\ ~row.released
      /\ payouts \in [Payouts -> PayoutRow]
  BY <1>2 DEF NoPayout, IInv, TypeOK
<1>6. ASSUME NEW e \in Earnings, NEW q \in Payouts
      PROVE  Allocated(e, q)' <=> IF q = p THEN e \in S ELSE Allocated(e, q)
  BY <1>3, <1>4, <1>5 DEF Allocated
<1>7. \A e \in Earnings : ~Allocated(e, p)
  BY <1>3 DEF Allocated, IInv, RowOK
<1>8. \A e \in S : /\ earning[e] = "available" /\ PlaceOf(earning[e]) = "available"
                  /\ \A q \in Payouts : ~Allocated(e, q)
  BY <1>4 DEF Lockable, PlaceOf, BucketOf, EarningStatus
<1>9. \A e \in S : Place(e) = "available" /\ ClaimOf(e) = None
  BY <1>3, <1>8, BookReads DEF ReadsBook
<1>10. \A e \in Earnings : Place(e)' = IF e \in S THEN "locked" ELSE Place(e)
  <2>1. PlaceOf("requested") = "locked"
    BY DEF PlaceOf, BucketOf, EarningStatus
  <2> QED BY <2>1, <1>4, BookReads, BookReadsNext DEF ReadsBook
<1>11. ASSUME NEW e \in Earnings PROVE ClaimOf(e)' = IF e \in S THEN p ELSE ClaimOf(e)
  <2>1. CASE e \in S
    BY <2>1, <1>3, <1>6, BookReadsNext DEF ReadsBook
  <2>2. CASE e \notin S
    <3>1. \A q \in Payouts : Allocated(e, q)' <=> Allocated(e, q)
      BY <2>2, <1>6, <1>7
    <3>2. CASE \E q \in Payouts : Allocated(e, q)
      BY <2>2, <3>1, <3>2, BookReads, BookReadsNext DEF ReadsBook
    <3>3. CASE ~\E q \in Payouts : Allocated(e, q)
      BY <2>2, <3>1, <3>3, BookReads, BookReadsNext DEF ReadsBook
    <3> QED BY <3>2, <3>3
  <2> QED BY <2>1, <2>2
<1>12. [q \in Payouts |-> PhaseOf(payouts[q].status)]'
         = [[q \in Payouts |-> PhaseOf(payouts[q].status)] EXCEPT ![p] = "open"]
       /\ PhaseOf(payouts[p].status) = "absent"
  <2>1. PhaseOf("requested") = "open" /\ PhaseOf("absent") = "absent"
    BY DEF PhaseOf, OpenStatus, VoidStatus
  <2>2. \A q \in Payouts : payouts'[q].status = IF q = p THEN "requested" ELSE payouts[q].status
    BY <1>4, <1>5
  <2> QED BY <1>3, <2>1, <2>2
<1>13. Book!Claim(p, S)
  BY <1>3, <1>9, <1>10, <1>11, <1>12 DEF Book!Claim
<1> QED BY <1>3, <1>13 DEF Book!Next

(* A settlement pays or gives back all that the payout claims. *)
LEMMA BookSettle == ASSUME IInv, IInv', NEW w \in Procs, CommitSettlement(w) PROVE Book!Next
<1>1. PICK p, row, S, to :
        /\ p = tx[w].p /\ row = Reviewed(tx[w]) /\ S = payouts[p].alloc
        /\ to = IF tx[w].cmd = "markPaid" THEN "paid" ELSE "available"
  OBVIOUS
<1>2. Settles(w, p, row, S, to)
  BY <1>1, SettlementEffect
<1>3. /\ p \in Payouts /\ payouts[p].status \in OpenStatus /\ ~payouts[p].released
      /\ S = payouts[p].alloc /\ row.alloc = S /\ to \in {"paid", "available"}
      /\ to = "paid" => row.status = "paid" /\ ~row.released
      /\ to = "available" => row.status \in VoidStatus /\ row.released
      /\ payouts' = [payouts EXCEPT ![p] = row]
      /\ earning' = [e \in Earnings |-> IF e \in S THEN to ELSE earning[e]]
  BY <1>2 DEF Settles
<1>4. payouts \in [Payouts -> PayoutRow]
  BY DEF IInv, TypeOK
<1>5. ASSUME NEW e \in Earnings, NEW q \in Payouts
      PROVE  Allocated(e, q)' <=> Allocated(e, q) /\ (q = p => to = "paid")
  BY <1>3, <1>4 DEF Allocated
<1>6. \A e \in Earnings : Allocated(e, p) <=> e \in S
  BY <1>3 DEF Allocated
<1>7. \A e \in Earnings, q, r \in Payouts : Allocated(e, q) /\ Allocated(e, r) => q = r
  BY DEF IInv, ClaimedByOnePayout
<1>8. ASSUME NEW e \in Earnings PROVE ClaimOf(e) = p <=> e \in S
  <2>1. CASE \E q \in Payouts : Allocated(e, q)
    BY <2>1, <1>3, <1>6, <1>7, BookReads DEF ReadsBook
  <2>2. CASE ~\E q \in Payouts : Allocated(e, q)
    BY <2>2, <1>3, <1>6, BookReads, ConstantsAssumption DEF ReadsBook
  <2> QED BY <2>1, <2>2
<1>9. \A e \in Earnings : Place(e)' = IF ClaimOf(e) = p THEN to ELSE Place(e)
  <2>1. PlaceOf(to) = to
    BY <1>3 DEF PlaceOf, BucketOf, EarningStatus
  <2> QED BY <2>1, <1>3, <1>8, BookReads, BookReadsNext DEF ReadsBook
<1>10. ASSUME NEW e \in Earnings
       PROVE  ClaimOf(e)' = IF ClaimOf(e) = p /\ to = "available" THEN None ELSE ClaimOf(e)
  <2>1. CASE e \in S /\ to = "available"
    <3>1. \A q \in Payouts : ~Allocated(e, q)'
      BY <2>1, <1>3, <1>5, <1>6, <1>7
    <3> QED BY <2>1, <3>1, <1>8, BookReadsNext DEF ReadsBook
  <2>2. CASE ~(e \in S /\ to = "available")
    <3>1. \A q \in Payouts : Allocated(e, q)' <=> Allocated(e, q)
      BY <2>2, <1>3, <1>5, <1>6
    <3>2. ClaimOf(e)' = ClaimOf(e)
      BY <3>1, BookReads, BookReadsNext DEF ReadsBook
    <3> QED BY <2>2, <3>2, <1>8
  <2> QED BY <2>1, <2>2
<1>11. /\ PhaseOf(payouts[p].status) = "open"
       /\ to = "paid" => PhaseOf(row.status) = "paid"
       /\ to = "available" => PhaseOf(row.status) = "void"
  BY <1>3 DEF PhaseOf, OpenStatus, VoidStatus
<1>12. [q \in Payouts |-> PhaseOf(payouts[q].status)]'
         = [[q \in Payouts |-> PhaseOf(payouts[q].status)] EXCEPT ![p] = PhaseOf(row.status)]
  <2>1. \A q \in Payouts : payouts'[q] = IF q = p THEN row ELSE payouts[q]
    BY <1>3, <1>4
  <2> QED BY <2>1
<1>13. to = "paid" => Book!Pay(p)
  BY <1>3, <1>9, <1>10, <1>11, <1>12 DEF Book!Pay
<1>14. to = "available" => Book!GiveBack(p)
  BY <1>3, <1>9, <1>10, <1>11, <1>12 DEF Book!GiveBack
<1> QED BY <1>3, <1>13, <1>14 DEF Book!Next

LEMMA BookInit == Init => Book!Init
<1> SUFFICES ASSUME Init PROVE Book!Init
  OBVIOUS
<1>1. \A e \in Earnings : Place(e) = "nowhere" /\ ClaimOf(e) = None
  BY InitInv, BookReads DEF ReadsBook, Init, PlaceOf, Allocated, NoPayout
<1>2. \A p \in Payouts : PhaseOf(payouts[p].status) = "absent"
  BY DEF Init, NoPayout, PhaseOf, OpenStatus, VoidStatus
<1> QED BY <1>1, <1>2 DEF Book!Init

LEMMA BookStep == IInv /\ IInv' /\ [Next]_vars => [Book!Next]_(Book!vars)
<1> SUFFICES ASSUME IInv, IInv', [Next]_vars PROVE [Book!Next]_(Book!vars)
  OBVIOUS
<1>1. ApiProcs \subseteq Procs
  BY DEF Procs
<1>2. CASE UNCHANGED <<earning, payouts>>
  BY <1>2, BookStutters
<1>3. ASSUME NEW w \in Procs, CommitProgress(w) PROVE UNCHANGED Book!vars
  <2>1. PICK p, row : p = tx[w].p /\ row = Reviewed(tx[w])
    OBVIOUS
  <2>2. /\ tx[w].cmd \in {"approve", "process"} /\ Reviewable(tx[w])
        /\ payouts' = [payouts EXCEPT ![p] = row] /\ UNCHANGED earning
    BY <1>3, <2>1 DEF CommitProgress
  <2>3. NextStatus[tx[w].cmd] \in {"approved", "processing"}
    BY <2>2 DEF NextStatus, ReviewCommands
  <2>4. /\ p \in Payouts /\ payouts[p].status \in OpenStatus /\ ~payouts[p].released
        /\ row.status \in {"approved", "processing"} /\ row.alloc = payouts[p].alloc
        /\ ~row.released /\ payouts \in [Payouts -> PayoutRow]
    BY <2>1, <2>2, <2>3, ReviewedRow DEF ReviewCommands, VoidStatus, IInv, TypeOK
  <2>5. \A q \in Payouts : PhaseOf(payouts[q].status)' = PhaseOf(payouts[q].status)
    <3>1. PhaseOf(row.status) = "open" /\ PhaseOf(payouts[p].status) = "open"
      BY <2>4 DEF PhaseOf, OpenStatus, VoidStatus
    <3>2. \A q \in Payouts : payouts'[q] = IF q = p THEN row ELSE payouts[q]
      BY <2>2, <2>4
    <3> QED BY <3>1, <3>2
  <2>6. \A e \in Earnings, q \in Payouts : Allocated(e, q)' <=> Allocated(e, q)
    BY <2>2, <2>4 DEF Allocated
  <2>7. \A e \in Earnings : Place(e)' = Place(e) /\ ClaimOf(e)' = ClaimOf(e)
    BY <2>2, <2>6, BookReads, BookReadsNext DEF ReadsBook
  <2> QED BY <2>5, <2>7 DEF Book!vars
<1>4. CASE EarningStep
  <2>1. ASSUME NEW e \in Earnings, HoldElapses(e) PROVE UNCHANGED <<earning, payouts>>
    BY <2>1 DEF HoldElapses
  <2>2. ASSUME NEW w \in Procs, NEW e \in Earnings, JobLists(w, e) \/ SubmitReverse(w, e)
        PROVE  UNCHANGED <<earning, payouts>>
    BY <2>2 DEF JobLists, SubmitReverse
  <2>3. ASSUME NEW w \in Procs,
               ReadListed(w) \/ RecordPaidReversal(w) \/ EarningContention(w)
        PROVE  UNCHANGED <<earning, payouts>>
    BY <2>3 DEF ReadListed, RecordPaidReversal, EarningContention
  <2>4. ASSUME NEW e \in Earnings, Accrue(e) PROVE Book!Next
    <3>1. <<PlaceOf(earning[e]), "pending">> \in Book!Moves
      BY <2>4 DEF Accrue, PlaceOf, Book!Moves
    <3> QED BY <2>4, <3>1, BookMove DEF Accrue
  <2>5. ASSUME NEW w \in Procs, CommitRelease(w) \/ CommitReverse(w) PROVE Book!Next
    BY <2>5, BookCommit
  <2> QED BY <1>2, <1>4, <2>1, <2>2, <2>3, <2>4, <2>5 DEF EarningStep, Procs
<1>5. CASE PayoutStep
  <2>1. ASSUME NEW w \in ApiProcs, NEW e \in Earnings, ReadWanted(w, e)
        PROVE  UNCHANGED <<earning, payouts>>
    BY <2>1 DEF ReadWanted
  <2>2. ASSUME NEW w \in ApiProcs, NEW p \in Payouts, NEW S, SubmitRequest(w, p, S)
        PROVE  UNCHANGED <<earning, payouts>>
    BY <2>2 DEF SubmitRequest
  <2>3. ASSUME NEW w \in ApiProcs, NEW p \in Payouts, NEW c, NEW r, SubmitReview(w, p, c, r)
        PROVE  UNCHANGED <<earning, payouts>>
    BY <2>3 DEF SubmitReview
  <2>4. ASSUME NEW w \in ApiProcs, RequestContention(w) \/ ReviewContention(w)
        PROVE  UNCHANGED <<earning, payouts>>
    BY <2>4 DEF RequestContention, ReviewContention
  <2>5. ASSUME NEW w \in ApiProcs, CommitRequest(w) \/ CommitSettlement(w) PROVE Book!Next
    BY <1>1, <2>5, BookClaim, BookSettle
  <2> QED BY <1>1, <1>2, <1>3, <1>5, <2>1, <2>2, <2>3, <2>4, <2>5 DEF PayoutStep
<1>6. CASE \E w \in Procs : Crash(w)
  BY <1>2, <1>6 DEF Crash
<1>7. CASE UNCHANGED vars
  BY <1>2, <1>7 DEF vars
<1> QED BY <1>4, <1>5, <1>6, <1>7 DEF Next

(* What the ledger and the allocations say of the money is, step for step,  *)
(* a behaviour of the abstract payout book.                                 *)
THEOREM ImplementsBook == Spec => BookSpec
<1>1. IInv /\ IInv' /\ [Next]_vars => [Book!Next]_(Book!vars)
  BY BookStep
<1> QED BY <1>1, BookInit, Invariance, PTL DEF Spec, BookSpec, Book!Spec

-------------------------------------------------------------------------------
(* The reconciler's silence about money: it follows from the agreement of   *)
(* ledger and statuses and the exclusive claims above.  The sums stay       *)
(* opaque: the two totals of a bucket are sums of one function.             *)

(* What an earning adds to a bucket is the same in both books. *)
LEMMA SameTerms ==
  ASSUME IInv, NEW b \in ProjectedBuckets, NEW e \in Earnings
  PROVE  Amount[e] * share[e][b]
           = IF earning[e] # "absent" /\ BucketOf[earning[e]] = b THEN Amount[e] ELSE 0
<1>1. Amount[e] \in Nat
  BY AmountAssumption
<1>2. share[e] = Booked(earning[e])
  BY DEF IInv, LedgerAgrees
<1>3. b \in Buckets /\ b # "payable"
  BY DEF ProjectedBuckets, Buckets
<1>4. earning[e] \in EarningStatus
  BY DEF IInv, TypeOK
<1>5. share[e][b] = IF earning[e] # "absent" /\ BucketOf[earning[e]] = b THEN 1 ELSE 0
  BY <1>2, <1>3, <1>4 DEF Booked, BucketOf
<1> QED BY <1>1, <1>5

LEMMA BalancesAgree ==
  ASSUME IInv
  PROVE  ProjectionBalances = LedgerBalances
<1>1. ASSUME NEW b \in ProjectedBuckets
      PROVE  [e \in Earnings |->
                IF earning[e] # "absent" /\ BucketOf[earning[e]] = b THEN Amount[e] ELSE 0]
               = [e \in Earnings |-> Amount[e] * share[e][b]]
  BY SameTerms
<1> QED BY <1>1 DEF ProjectionBalances, LedgerBalances

LEMMA ClaimedOnce ==
  ASSUME IInv, NEW e \in Earnings
  PROVE  Cardinality(CountedClaims(e)) \in {0, 1}
<1>1. ASSUME NEW p \in CountedClaims(e), NEW q \in CountedClaims(e)
      PROVE  p = q
  BY DEF IInv, ClaimedByOnePayout, Allocated, CountedClaims
<1>2. CountedClaims(e) = {} \/ \E p : CountedClaims(e) = {p}
  BY <1>1
<1> QED BY <1>2, FS_EmptySet, FS_Singleton

(* The reconciler never records an issue about balances or allocations that *)
(* the commands on earnings and payouts alone brought about.                *)
THEOREM MoneyRaisesNoAlarm == Spec => []NoMoneyAlarm
<1>1. ASSUME IInv PROVE ProjectionFindings(ProjectionBalances, LedgerBalances) = {}
  BY <1>1, BalancesAgree DEF ProjectionFindings
<1>2. ASSUME IInv PROVE DuplicateAllocations([e \in Earnings |-> CountedClaims(e)]) = {}
  <2>1. ASSUME NEW e \in Earnings PROVE ~(Cardinality(CountedClaims(e)) > 1)
    <3>1. Cardinality(CountedClaims(e)) \in {0, 1}
      BY <1>2, ClaimedOnce
    <3> QED BY <3>1
  <2> QED BY <2>1 DEF DuplicateAllocations
<1>3. IInv => NoMoneyAlarm
  BY <1>1, <1>2 DEF NoMoneyAlarm, MoneyFindings
<1> QED BY <1>3, Invariance, PTL

===============================================================================
