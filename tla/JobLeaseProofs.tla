----------------------------- MODULE JobLeaseProofs -----------------------------
(* Proofs about JobLease, for any runs, pages, lease duration, cadence and   *)
(* lag.  HolderIsCurrent is inductive by itself, over well-typed states; the *)
(* two action properties follow from it step by step.                       *)
EXTENDS JobLease, TLAPS, FiniteSetTheorems, WellFoundedInduction

USE JobLeaseAssumption

(* A non-empty set of numbers up to a bound has a greatest one. *)
LEMMA GreatestExists ==
  ASSUME NEW N \in Nat, NEW S \in SUBSET (0..N), S # {}
  PROVE  \E m \in S : \A x \in S : x <= m
<1> DEFINE T == {n \in 0..N : N - n \in S}
<1>1. T \subseteq Nat /\ T # {}
  <2>1. PICK i \in S : TRUE
    OBVIOUS
  <2>2. i \in 0..N /\ N - (N - i) = i /\ N - i \in 0..N
    BY <2>1
  <2>3. N - i \in T
    BY <2>1, <2>2
  <2>4. T \subseteq Nat
    OBVIOUS
  <2> HIDE DEF T
  <2> QED BY <2>3, <2>4
<1>2. PICK n \in T : \A m \in T : ~(<<m, n>> \in OpToRel(<, Nat))
  <2>1. \A R, U : IsWellFoundedOn(R, U) =>
          \A V \in SUBSET U : V # {} => \E x \in V : \A y \in V : ~(<<y, x>> \in R)
    BY WFMin, Zenon
  <2> HIDE DEF T
  <2> QED BY <1>1, <2>1, NatLessThanWellFounded, Zenon
<1>3. N - n \in S /\ n \in 0..N
  OBVIOUS
<1>4. ASSUME NEW j \in S PROVE j <= N - n
  <2>1. j \in 0..N /\ N - j \in 0..N /\ N - (N - j) = j
    OBVIOUS
  <2>2. N - j \in T
    BY <2>1
  <2>3. ~(<<N - j, n>> \in OpToRel(<, Nat))
    BY <1>2, <2>2
  <2>4. N - j \in Nat /\ n \in Nat
    BY <2>1, <1>3
  <2>5. ~(N - j < n)
    BY <2>3, <2>4 DEF OpToRel
  <2> QED BY <1>3, <2>1, <2>5
<1> QED BY <1>3, <1>4

(* A non-empty set of ids has a greatest one. *)
LEMMA MaxOfIds ==
  ASSUME NEW page \in SUBSET Ids, page # {}
  PROVE  Max(page) \in page
<1>1. NumIds \in Nat /\ page \in SUBSET (0..NumIds)
  BY DEF Ids
<1>2. \E m \in page : \A x \in page : x <= m
  BY <1>1, GreatestExists
<1>3. \E m \in page : \A x \in page : m >= x
  BY <1>1, <1>2
<1> QED BY <1>3 DEF Max

LEMMA PageTyped ==
  ASSUME NEW c \in Cursor, NEW page \in SUBSET Ids
  PROVE  CursorAfter(c, page) \in Cursor
<1>1. CASE Cardinality(page) < BatchSize
  BY <1>1 DEF CursorAfter, Cursor, Start, Passes
<1>2. CASE ~(Cardinality(page) < BatchSize)
  <2>1. page # {}
    BY <1>2, FS_EmptySet
  <2>2. Max(page) \in page
    BY <2>1, MaxOfIds
  <2>a. \A i \in page : i \in 0..NumIds
    BY DEF Ids
  <2>3. Max(page) \in 0..NumIds
    BY <2>2, <2>a, Zenon
  <2> QED BY <1>2, <2>3 DEF CursorAfter, Cursor
<1> QED BY <1>1, <1>2

(* The initial row and an idle run are well typed. *)
LEMMA NullTypes == Start \in Cursor /\ NoRun \in RunRow
  BY DEF Start, Cursor, Passes, NoRun, RunRow

(* A run has a batch left of its maximum until it has listed the last page. *)
BatchesLeft ==
  \A r \in Runs : run[r].pc \in {"acquire", "list"} => run[r].batches < MaxBatches

IInv == TypeOK /\ HolderIsCurrent /\ BatchesLeft

LEMMA InitIInv == Init => IInv
  BY NullTypes DEF Init, IInv, TypeOK, HolderIsCurrent, BatchesLeft, StaleAfter, NoRun

-------------------------------------------------------------------------------
(* Types.  A step of a run changes its own row, and the lease row.           *)

LEMMA RunTyped ==
  ASSUME IInv, NEW r \in Runs, NEW row \in RunRow, run' = [run EXCEPT ![r] = row]
  PROVE  run' \in [Runs -> RunRow]
  BY DEF IInv, TypeOK

(* The steps that leave the lease row alone. *)
LEMMA OwnStepTyped ==
  ASSUME IInv, NEW r \in Runs,
         \/ Dispatch(r) \/ SkippedLocked(r) \/ List(r) \/ WorkPage(r) \/ BatchEnds(r)
         \/ BatchThrows(r) \/ LeaseLost(r) \/ \E i \in Ids : WorkRow(r, i)
  PROVE  TypeOK'
<1> DEFINE Other == /\ lease' = lease /\ seen' = seen /\ due' \subseteq due
                    /\ since' \in 0..Cadence
<1>0. /\ run[r] \in RunRow /\ run[r].cursor \in Cursor /\ run[r].page \in SUBSET Ids
      /\ 0 \in 0..MaxLag
  BY DEF IInv, TypeOK, RunRow
<1>1. ASSUME NEW row \in RunRow, run' = [run EXCEPT ![r] = row], Other
      PROVE  TypeOK'
  BY <1>1, RunTyped DEF IInv, TypeOK
<1>2. CASE Dispatch(r)
  <2> DEFINE row == [NoRun EXCEPT !.pc = "acquire"]
  <2>1. row \in RunRow
    BY NullTypes DEF RunRow
  <2>2. Other /\ run' = [run EXCEPT ![r] = row]
    BY <1>2 DEF Dispatch
  <2> QED BY <1>1, <2>1, <2>2
<1>3. CASE SkippedLocked(r)
  BY <1>1, <1>3, NullTypes DEF SkippedLocked, IInv, TypeOK
<1>4. CASE List(r)
  <2> DEFINE page == Page(run[r].cursor)
             row == [run[r] EXCEPT !.pc = "work", !.page = page,
                                   !.next = CursorAfter(run[r].cursor, page),
                                   !.batches = run[r].batches + 1]
  <2>1. page \in SUBSET Ids
    BY DEF Page, DueAfter
  <2>2. CursorAfter(run[r].cursor, page) \in Cursor
    BY <1>0, <2>1, PageTyped
  <2>3. run[r].batches + 1 \in 0..MaxBatches
    BY <1>0, <1>4 DEF List, IInv, BatchesLeft, RunRow
  <2>4. row \in RunRow
    BY <1>0, <2>1, <2>2, <2>3 DEF RunRow
  <2>5. run' = [run EXCEPT ![r] = row]
    BY <1>4 DEF List, IInv, TypeOK
  <2> QED BY <1>1, <1>4, <2>4, <2>5 DEF List, IInv, TypeOK
<1>5. CASE WorkPage(r)
  <2> DEFINE row == [run[r] EXCEPT !.page = {}]
  <2>1. row \in RunRow
    BY <1>0 DEF RunRow
  <2> QED BY <1>1, <1>5, <2>1 DEF WorkPage, IInv, TypeOK
<1>6. CASE BatchEnds(r)
  <2> DEFINE row == [run[r] EXCEPT !.pc = "renew", !.lag = 0]
  <2>1. row \in RunRow
    BY <1>0 DEF RunRow
  <2> QED BY <1>1, <1>6, <2>1 DEF BatchEnds, IInv, TypeOK
<1>7. CASE BatchThrows(r) \/ LeaseLost(r)
  <2> DEFINE row == [NoRun EXCEPT !.pc = "release"]
  <2>1. row \in RunRow
    BY NullTypes DEF RunRow
  <2> QED BY <1>1, <1>7, <2>1 DEF BatchThrows, LeaseLost, IInv, TypeOK
<1>8. CASE \E i \in Ids : WorkRow(r, i)
  <2>1. PICK i \in Ids : WorkRow(r, i)
    BY <1>8
  <2> DEFINE row == [run[r] EXCEPT !.page = run[r].page \ {i}]
  <2>2. row \in RunRow
    BY <1>0 DEF RunRow
  <2> QED BY <1>1, <2>1, <2>2 DEF WorkRow, IInv, TypeOK
<1> QED BY <1>2, <1>3, <1>4, <1>5, <1>6, <1>7, <1>8

(* The steps that write the lease row. *)
LEMMA LeaseStepTyped ==
  ASSUME IInv, NEW r \in Runs, Acquire(r) \/ Renew(r) \/ Release(r) \/ Crash(r)
  PROVE  TypeOK'
<1>0. /\ run[r] \in RunRow /\ run[r].next \in Cursor /\ run[r].lag \in 0..MaxLag
      /\ run[r].batches \in 0..MaxBatches /\ lease.cursor \in Cursor /\ lease.left \in Int
      /\ lease.owner \in Runs \cup {None}
      /\ lease = [owner |-> lease.owner, left |-> lease.left, cursor |-> lease.cursor]
      /\ lease.left >= -MaxLag /\ lease.left <= Duration /\ 0 \in 0..MaxLag
  BY DEF IInv, TypeOK, RunRow
<1>1. ASSUME NEW row \in RunRow, run' = [run EXCEPT ![r] = row],
             NEW o \in Runs \cup {None}, NEW n \in Int, NEW c \in Cursor,
             n >= -MaxLag, n <= Duration, lease' = [owner |-> o, left |-> n, cursor |-> c],
             due' = due, since' = since, seen' = seen \/ seen' = 0
      PROVE  TypeOK'
  <2>1. run' \in [Runs -> RunRow]
    BY <1>1, RunTyped
  <2>2. /\ lease' \in [owner : Runs \cup {None}, left : Int, cursor : Cursor]
        /\ lease'.left >= -MaxLag /\ lease'.left <= Duration
    BY <1>1
  <2>3. due' \subseteq Rows /\ since' \in 0..Cadence /\ seen' \in 0..(StaleAfter + 1)
    BY <1>1 DEF IInv, TypeOK, StaleAfter
  <2> QED BY <2>1, <2>2, <2>3 DEF TypeOK
<1>2. /\ NextLeaseUntil(r) \in Int
      /\ NextLeaseUntil(r) >= -MaxLag /\ NextLeaseUntil(r) <= Duration
  BY <1>0 DEF NextLeaseUntil
<1>3. -MaxLag \in Int /\ -MaxLag >= -MaxLag /\ -MaxLag <= Duration
  OBVIOUS
<1>4. CASE Acquire(r)
  <2> DEFINE row == [run[r] EXCEPT !.pc = "list", !.lag = 0, !.cursor = lease.cursor]
  <2>1. row \in RunRow
    BY <1>0 DEF RunRow
  <2>2. lease' = [owner |-> r, left |-> NextLeaseUntil(r), cursor |-> lease.cursor]
    BY <1>0, <1>4 DEF Acquire
  <2>3. run' = [run EXCEPT ![r] = row]
    BY <1>4 DEF Acquire, IInv, TypeOK
  <2> QED BY <1>0, <1>1, <1>2, <1>4, <2>1, <2>2, <2>3 DEF Acquire, Touch
<1>5. CASE Renew(r)
  <2> DEFINE again == [NoRun EXCEPT !.pc = "list", !.cursor = run[r].next,
                                    !.batches = run[r].batches]
             row == IF AnotherBatch(r) THEN again ELSE [NoRun EXCEPT !.pc = "release"]
  <2>1. row \in RunRow
    BY <1>0, NullTypes DEF RunRow
  <2>2. lease' = [owner |-> lease.owner, left |-> NextLeaseUntil(r), cursor |-> run[r].next]
    BY <1>0, <1>5 DEF Renew
  <2>3. run' = [run EXCEPT ![r] = row]
    BY <1>5 DEF Renew
  <2> QED BY <1>0, <1>1, <1>2, <1>5, <2>1, <2>2, <2>3 DEF Renew, Touch
<1>6. CASE Release(r)
  <2>1. CASE lease.owner = r
    <3>1. lease' = [owner |-> None, left |-> -MaxLag, cursor |-> lease.cursor] /\ seen' = 0
      BY <1>0, <1>6, <2>1 DEF Release, Touch
    <3> QED BY <1>0, <1>1, <1>3, <1>6, <3>1, NullTypes DEF Release
  <2>2. CASE lease.owner # r
    <3>1. lease' = [owner |-> lease.owner, left |-> lease.left, cursor |-> lease.cursor]
          /\ seen' = seen
      BY <1>0, <1>6, <2>2 DEF Release
    <3> QED BY <1>0, <1>1, <1>6, <3>1, NullTypes DEF Release
  <2> QED BY <2>1, <2>2
<1>7. CASE Crash(r)
  <2>1. PICK o \in Runs \cup {None} :
          lease' = [owner |-> o, left |-> lease.left, cursor |-> lease.cursor]
    <3>1. CASE lease.owner = r
      <4>1. lease' = [owner |-> None, left |-> lease.left, cursor |-> lease.cursor]
        BY <1>0, <1>7, <3>1 DEF Crash, Ended
      <4> QED BY <4>1
    <3>2. CASE lease.owner # r
      <4>1. lease' = lease
        BY <1>7, <3>2 DEF Crash, Ended
      <4> QED BY <1>0, <4>1
    <3> QED BY <3>1, <3>2
  <2> QED BY <1>0, <1>1, <1>7, <2>1, NullTypes DEF Crash
<1> QED BY <1>4, <1>5, <1>6, <1>7

LEMMA TickTyped == ASSUME IInv, Tick PROVE TypeOK'
<1>1. ASSUME NEW q \in Runs PROVE run'[q] \in RunRow
  <2>1. run[q] \in RunRow
    BY DEF IInv, TypeOK
  <2>2. CASE run[q].pc \in {"acquire", "renew"}
    <3>1. run[q].lag + 1 \in 0..MaxLag
      BY <2>1, <2>2 DEF Tick, RunRow
    <3>2. run'[q] = [run[q] EXCEPT !.lag = run[q].lag + 1]
      BY <2>2 DEF Tick
    <3> QED BY <2>1, <3>1, <3>2 DEF RunRow
  <2>3. CASE run[q].pc \notin {"acquire", "renew"}
    BY <2>1, <2>3 DEF Tick
  <2> QED BY <2>2, <2>3
<1>2. run' \in [Runs -> RunRow]
  BY <1>1 DEF Tick
<1>3. lease.owner \in Runs \cup {None} /\ lease.cursor \in Cursor /\ lease.left \in Int
      /\ lease = [owner |-> lease.owner, left |-> lease.left, cursor |-> lease.cursor]
      /\ lease.left >= -MaxLag /\ lease.left <= Duration
  BY DEF IInv, TypeOK
<1>4. PICK n \in Int :
        /\ n >= -MaxLag /\ n <= Duration
        /\ lease' = [owner |-> lease.owner, left |-> n, cursor |-> lease.cursor]
  <2>1. CASE lease.left > -MaxLag
    <3>1. lease' = [owner |-> lease.owner, left |-> lease.left - 1, cursor |-> lease.cursor]
      BY <1>3, <2>1 DEF Tick
    <3>2. lease.left - 1 >= -MaxLag /\ lease.left - 1 <= Duration
      BY <1>3, <2>1
    <3> QED BY <1>3, <3>1, <3>2
  <2>2. CASE ~(lease.left > -MaxLag)
    <3>1. lease' = lease
      BY <1>3, <2>2 DEF Tick
    <3> QED BY <1>3, <3>1
  <2> QED BY <2>1, <2>2
<1>5. /\ lease' \in [owner : Runs \cup {None}, left : Int, cursor : Cursor]
      /\ lease'.left >= -MaxLag /\ lease'.left <= Duration
  BY <1>3, <1>4
<1>6. since' \in 0..Cadence /\ due' \subseteq Rows
  BY DEF Tick, IInv, TypeOK
<1>7. seen' \in 0..(StaleAfter + 1)
  <2>1. StaleAfter \in Nat
    BY DEF StaleAfter
  <2>2. seen \in 0..(StaleAfter + 1) /\ seen' = IF seen <= StaleAfter THEN seen + 1 ELSE seen
    BY DEF Tick, IInv, TypeOK
  <2> QED BY <2>1, <2>2
<1> QED BY <1>2, <1>5, <1>6, <1>7 DEF TypeOK

-------------------------------------------------------------------------------
(* The invariant.                                                           *)

LEMMA RunStepInv ==
  ASSUME IInv, NEW r \in Runs, RunStep(r)
  PROVE  IInv'
<1>1. TypeOK'
  BY OwnStepTyped, LeaseStepTyped DEF RunStep
<1>2. ASSUME NEW q \in Runs, q # r PROVE run'[q] = run[q]
  <2>0. run = [x \in Runs |-> run[x]]
    BY DEF IInv, TypeOK
  <2>1. CASE \/ Dispatch(r) \/ SkippedLocked(r) \/ List(r) \/ WorkPage(r) \/ BatchEnds(r)
             \/ BatchThrows(r) \/ LeaseLost(r) \/ \E i \in Ids : WorkRow(r, i)
    BY <1>2, <2>0, <2>1 DEF Dispatch, SkippedLocked, List, WorkPage, BatchEnds, BatchThrows,
                            LeaseLost, WorkRow
  <2>2. CASE Acquire(r) \/ Renew(r) \/ Release(r) \/ Crash(r)
    BY <1>2, <2>0, <2>2 DEF Acquire, Renew, Release, Crash
  <2> QED BY <2>1, <2>2 DEF RunStep
<1>3. run'[r].pc \in {"acquire", "list"} => run'[r].batches < MaxBatches
  <2>0. /\ run = [x \in Runs |-> run[x]] /\ run[r] \in RunRow
        /\ NoRun.batches = 0 /\ NoRun.pc = "idle" /\ 0 < MaxBatches
        /\ run[r].pc \in {"acquire", "list"} => run[r].batches < MaxBatches
    BY DEF IInv, TypeOK, BatchesLeft, NoRun
  <2>1. CASE Acquire(r)
    <3>1. run'[r].batches = run[r].batches /\ run[r].pc = "acquire"
      BY <2>0, <2>1 DEF Acquire, RunRow
    <3> QED BY <2>0, <3>1
  <2>2. CASE Renew(r)
    <3>1. CASE AnotherBatch(r)
      BY <2>0, <2>2, <3>1 DEF Renew, AnotherBatch, NoRun
    <3>2. CASE ~AnotherBatch(r)
      <4>1. run'[r] = [NoRun EXCEPT !.pc = "release"]
        BY <2>0, <2>2, <3>2 DEF Renew
      <4> QED BY <4>1 DEF NoRun
    <3> QED BY <3>1, <3>2
  <2>3. CASE Dispatch(r)
    BY <2>0, <2>3 DEF Dispatch, NoRun
  <2>4. CASE \/ SkippedLocked(r) \/ List(r) \/ WorkPage(r) \/ BatchEnds(r)
             \/ BatchThrows(r) \/ LeaseLost(r) \/ (\E i \in Ids : WorkRow(r, i))
             \/ Release(r) \/ Crash(r)
    <3>1. run'[r].pc \in {"idle", "work", "renew", "release"}
      <4>1. CASE SkippedLocked(r) \/ Release(r) \/ Crash(r)
        BY <2>0, <4>1 DEF SkippedLocked, Release, Crash
      <4>2. CASE List(r) \/ WorkPage(r) \/ BatchEnds(r)
        BY <2>0, <4>2 DEF List, WorkPage, BatchEnds, RunRow
      <4>3. CASE BatchThrows(r) \/ LeaseLost(r)
        BY <2>0, <4>3 DEF BatchThrows, LeaseLost, NoRun
      <4>4. CASE \E i \in Ids : WorkRow(r, i)
        BY <2>0, <4>4 DEF WorkRow, RunRow
      <4> QED BY <2>4, <4>1, <4>2, <4>3, <4>4
    <3> QED BY <3>1
  <2> QED BY <2>1, <2>2, <2>3, <2>4 DEF RunStep
<1>4. BatchesLeft'
  BY <1>2, <1>3 DEF BatchesLeft, IInv
<1>5. lease \in [owner : Runs \cup {None}, left : Int, cursor : Cursor]
  BY DEF IInv, TypeOK
<1>6. ASSUME NEW q \in Runs, q # r, lease'.owner = q
      PROVE  lease.owner = q /\ lease'.cursor = lease.cursor
  <2>1. CASE \/ Dispatch(r) \/ SkippedLocked(r) \/ List(r) \/ WorkPage(r) \/ BatchEnds(r)
             \/ BatchThrows(r) \/ LeaseLost(r) \/ \E i \in Ids : WorkRow(r, i)
    BY <1>6, <2>1 DEF Dispatch, SkippedLocked, List, WorkPage, BatchEnds, BatchThrows,
                      LeaseLost, WorkRow
  <2>2. CASE Acquire(r) \/ Renew(r)
    BY <1>5, <1>6, <2>2 DEF Acquire, Renew, StillOwner
  <2>3. CASE Release(r) \/ Crash(r)
    BY <1>5, <1>6, <2>3, JobLeaseAssumption DEF Release, Crash, Ended
  <2> QED BY <2>1, <2>2, <2>3 DEF RunStep
<1>7. ASSUME lease'.owner = r
      PROVE  /\ run'[r].pc \in {"list", "work", "renew", "release"}
             /\ run'[r].pc # "release" => run'[r].cursor = lease'.cursor
  <2>0. /\ run = [x \in Runs |-> run[x]] /\ run[r] \in RunRow
        /\ lease.owner = r =>
             /\ run[r].pc \in {"list", "work", "renew", "release"}
             /\ run[r].pc # "release" => run[r].cursor = lease.cursor
    BY DEF IInv, TypeOK, HolderIsCurrent
  <2>1. CASE Dispatch(r) \/ SkippedLocked(r)
    BY <1>7, <2>0, <2>1 DEF Dispatch, SkippedLocked
  <2>2. CASE Acquire(r)
    BY <1>5, <2>0, <2>2 DEF Acquire, RunRow
  <2>3. CASE List(r) \/ WorkPage(r) \/ BatchEnds(r)
    BY <1>7, <2>0, <2>3 DEF List, WorkPage, BatchEnds, RunRow
  <2>4. CASE BatchThrows(r) \/ LeaseLost(r)
    BY <2>0, <2>4 DEF BatchThrows, LeaseLost, NoRun
  <2>5. CASE \E i \in Ids : WorkRow(r, i)
    BY <1>7, <2>0, <2>5 DEF WorkRow, RunRow
  <2>6. CASE Renew(r)
    <3>1. lease'.cursor = run[r].next
      BY <1>5, <2>6 DEF Renew
    <3>2. \/ run'[r] = [NoRun EXCEPT !.pc = "list", !.cursor = run[r].next,
                                    !.batches = run[r].batches]
          \/ run'[r] = [NoRun EXCEPT !.pc = "release"]
      BY <2>0, <2>6 DEF Renew
    <3> QED BY <3>1, <3>2 DEF NoRun
  <2>7. CASE Release(r) \/ Crash(r)
    <3>1. lease'.owner # r
      BY <1>5, <2>7, JobLeaseAssumption DEF Release, Crash, Ended
    <3> QED BY <1>7, <3>1
  <2> QED BY <2>1, <2>2, <2>3, <2>4, <2>5, <2>6, <2>7 DEF RunStep
<1>8. HolderIsCurrent'
  <2> SUFFICES ASSUME NEW q \in Runs, lease'.owner = q
               PROVE  /\ run'[q].pc \in {"list", "work", "renew", "release"}
                      /\ run'[q].pc # "release" => run'[q].cursor = lease'.cursor
    BY DEF HolderIsCurrent
  <2>1. CASE q = r
    BY <1>7, <2>1
  <2>2. CASE q # r
    BY <1>2, <1>6, <2>2 DEF IInv, HolderIsCurrent
  <2> QED BY <2>1, <2>2
<1> QED BY <1>1, <1>4, <1>8 DEF IInv

(* Rows that become due touch nothing else. *)
LEMMA ArisesInv == ASSUME IInv, NEW x \in Rows, Arises(x) PROVE IInv'
  BY DEF IInv, TypeOK, HolderIsCurrent, BatchesLeft, Arises

(* Time moves the clocks and nothing a run has read. *)
LEMMA TickInv == ASSUME IInv, Tick PROVE IInv'
<1>1. lease'.owner = lease.owner /\ lease'.cursor = lease.cursor
  BY DEF IInv, TypeOK, Tick
<1>2. ASSUME NEW q \in Runs
      PROVE  /\ run'[q].pc = run[q].pc /\ run'[q].cursor = run[q].cursor
             /\ run'[q].batches = run[q].batches
  BY DEF IInv, TypeOK, RunRow, Tick
<1> QED BY <1>1, <1>2, TickTyped DEF IInv, HolderIsCurrent, BatchesLeft

LEMMA NextInv == IInv /\ [Next]_vars => IInv'
<1>1. ASSUME IInv, Next PROVE IInv'
  BY <1>1, RunStepInv, ArisesInv, TickInv DEF Next
<1>2. ASSUME IInv, UNCHANGED vars PROVE IInv'
  BY <1>2 DEF vars, IInv, TypeOK, HolderIsCurrent, BatchesLeft
<1> QED BY <1>1, <1>2

-------------------------------------------------------------------------------
(* The theorems.                                                            *)

(* The invariant holds in every reachable state. *)
THEOREM Invariant == Spec => []IInv
<1>1. Init => IInv
  BY InitIInv
<1>2. IInv /\ [Next]_vars => IInv'
  BY NextInv
<1> QED BY <1>1, <1>2, PTL DEF Spec

(* The types are kept: no lag, lease or page leaves its range. *)
THEOREM TypeCorrect == Spec => []TypeOK
<1>1. IInv => TypeOK
  BY DEF IInv
<1> QED BY <1>1, Invariant, PTL

(* The run that owns the job_leases row works from the cursor in it, however *)
(* many runs overlap, lose the lease, throw or crash. *)
THEOREM HolderCurrent == Spec => []HolderIsCurrent
<1>1. IInv => HolderIsCurrent
  BY DEF IInv
<1> QED BY <1>1, Invariant, PTL

(* The persisted cursor only moves to the one that follows it. *)
THEOREM CursorContinuous == Spec => CursorContinues
<1>1. IInv /\ [Next]_vars => [CursorStep]_vars
  <2> SUFFICES ASSUME IInv, Next, lease'.cursor # lease.cursor PROVE CursorStep
    BY DEF vars, CursorStep
  <2>0. lease \in [owner : Runs \cup {None}, left : Int, cursor : Cursor]
    BY DEF IInv, TypeOK
  <2>1. PICK r \in Runs : RunStep(r)
    <3>1. ASSUME NEW x \in Rows, Arises(x) PROVE FALSE
      BY <3>1 DEF Arises
    <3>2. ASSUME Tick PROVE FALSE
      BY <2>0, <3>2 DEF Tick
    <3> QED BY <3>1, <3>2 DEF Next
  <2>2. Renew(r)
    <3>1. ASSUME \/ Dispatch(r) \/ SkippedLocked(r) \/ List(r) \/ WorkPage(r) \/ BatchEnds(r)
                 \/ BatchThrows(r) \/ LeaseLost(r) \/ \E i \in Ids : WorkRow(r, i)
          PROVE  FALSE
      BY <3>1 DEF Dispatch, SkippedLocked, List, WorkPage, BatchEnds, BatchThrows,
                  LeaseLost, WorkRow
    <3>2. ASSUME Acquire(r) \/ Release(r) \/ Crash(r) PROVE FALSE
      BY <2>0, <3>2 DEF Acquire, Release, Crash, Ended
    <3> QED BY <2>1, <3>1, <3>2 DEF RunStep
  <2>3. run[r].cursor = lease.cursor
    BY <2>2 DEF Renew, StillOwner, IInv, HolderIsCurrent
  <2>4. lease'.cursor = run[r].next
    BY <2>0, <2>2 DEF Renew
  <2> QED BY <2>2, <2>3, <2>4 DEF CursorStep
<1> QED BY <1>1, Invariant, PTL DEF Spec, CursorContinues

(* A live lease only ever changes hands by being given up. *)
THEOREM LiveNotTaken == Spec => LiveIsNotTaken
<1> DEFINE A == lease.left > 0 /\ lease'.owner # lease.owner => lease'.owner = None
<1>1. IInv /\ [Next]_vars => [A]_vars
  <2> SUFFICES ASSUME IInv, Next, lease.left > 0, lease'.owner # lease.owner
               PROVE  lease'.owner = None
    BY DEF vars
  <2>0. lease \in [owner : Runs \cup {None}, left : Int, cursor : Cursor]
        /\ run \in [Runs -> RunRow]
    BY DEF IInv, TypeOK
  <2>1. PICK r \in Runs : RunStep(r)
    <3>1. ASSUME NEW x \in Rows, Arises(x) PROVE FALSE
      BY <3>1 DEF Arises
    <3>2. ASSUME Tick PROVE FALSE
      BY <2>0, <3>2 DEF Tick
    <3> QED BY <3>1, <3>2 DEF Next
  <2>2. ~Acquire(r)
    <3>1. run[r].lag \in 0..MaxLag
      BY <2>0 DEF RunRow
    <3> QED BY <2>0, <3>1 DEF Acquire, DecideTakeover
  <2>3. ASSUME \/ Dispatch(r) \/ SkippedLocked(r) \/ List(r) \/ WorkPage(r) \/ BatchEnds(r)
               \/ BatchThrows(r) \/ LeaseLost(r) \/ \E i \in Ids : WorkRow(r, i)
        PROVE  FALSE
    BY <2>3 DEF Dispatch, SkippedLocked, List, WorkPage, BatchEnds, BatchThrows,
                LeaseLost, WorkRow
  <2>4. ~Renew(r)
    BY <2>0 DEF Renew
  <2>5. CASE Release(r) \/ Crash(r)
    BY <2>0, <2>5 DEF Release, Crash, Ended
  <2> QED BY <2>1, <2>2, <2>3, <2>4, <2>5 DEF RunStep
<1> QED BY <1>1, Invariant, PTL DEF Spec, LiveIsNotTaken

-------------------------------------------------------------------------------
(* Health.  A dispatch that is still under way was dispatched within one    *)
(* cadence of the next one, so the oldest of them tells how long ago the    *)
(* lease row was touched.                                                   *)

Acquiring(r) == run[r].pc = "acquire"

(* The row was touched within x ticks more than the lease it keeps lasts. *)
Within(x) == seen <= Duration - 1 + x

(* A lease ages with its row. *)
LeaseAge == lease.left = -MaxLag \/ lease.left + seen <= Duration

(* The dispatch before one under way touched the row, or was skipped for a  *)
(* lease, or is under way too.                                              *)
BeforeIsKnown ==
  \A r \in Runs : Acquiring(r) =>
    \/ Within(run[r].lag + Cadence)
    \/ \E q \in Runs : Acquiring(q) /\ run[r].lag < run[q].lag
                                    /\ run[q].lag <= run[r].lag + Cadence

(* So is the last one. *)
LastIsKnown == Within(since) \/ \E r \in Runs : Acquiring(r) /\ run[r].lag = since

HealthInv == IInv /\ LeaseAge /\ BeforeIsKnown /\ LastIsKnown

LEMMA HealthTypes ==
  ASSUME TypeOK
  PROVE  /\ lease.left \in Int /\ seen \in Nat /\ since \in 0..Cadence
         /\ \A r \in Runs : run[r].lag \in 0..MaxLag
  BY DEF TypeOK, RunRow

(* Whatever else holds, the oldest dispatch under way, or the last dispatch,*)
(* bounds the age of the row.                                               *)
LEMMA Healthy ==
  ASSUME TypeOK, BeforeIsKnown, LastIsKnown
  PROVE  HealthyWhileDispatched
<1>0. StaleAfter \in Nat
  BY DEF StaleAfter
<1> DEFINE Lags == {l \in 0..MaxLag : \E r \in Runs : Acquiring(r) /\ run[r].lag = l}
<1>1. CASE Lags = {}
  <2>1. \A r \in Runs : ~Acquiring(r)
    BY <1>1, HealthTypes
  <2>2. Within(since)
    BY <2>1 DEF LastIsKnown
  <2> QED BY <1>0, <2>2, HealthTypes, HealthAssumption
          DEF Within, HealthyWhileDispatched, Stale
<1>2. CASE Lags # {}
  <2>1. PICK m \in Lags : \A x \in Lags : x <= m
    BY <1>2, GreatestExists
  <2>2. PICK r \in Runs : Acquiring(r) /\ run[r].lag = m
    BY <2>1
  <2>3. ASSUME NEW q \in Runs, Acquiring(q) PROVE ~(run[r].lag < run[q].lag)
    <3>1. run[q].lag \in Lags
      BY <2>3, HealthTypes
    <3> QED BY <2>1, <2>2, <3>1, HealthTypes
  <2>4. Within(run[r].lag + Cadence)
    BY <2>2, <2>3 DEF BeforeIsKnown
  <2>5. run[r].lag <= MaxLag
    BY HealthTypes
  <2> QED BY <1>0, <2>4, <2>5, HealthTypes, HealthAssumption
          DEF Within, HealthyWhileDispatched, Stale
<1> QED BY <1>1, <1>2

LEMMA InitHealth == Init => HealthInv
<1> SUFFICES ASSUME Init PROVE HealthInv
  OBVIOUS
<1>1. IInv
  BY InitIInv
<1>2. LeaseAge /\ BeforeIsKnown /\ LastIsKnown
  BY DEF Init, LeaseAge, BeforeIsKnown, LastIsKnown, Acquiring, Within, NoRun
<1> QED BY <1>1, <1>2 DEF HealthInv

(* A step that touches the row leaves nothing open. *)
LEMMA TouchedHealth ==
  ASSUME TypeOK, TypeOK', seen' = 0
  PROVE  BeforeIsKnown' /\ LastIsKnown'
<1>1. /\ since' \in Nat
      /\ \A r \in Runs : run'[r].lag \in Nat
  <2>1. since' \in 0..Cadence /\ run' \in [Runs -> RunRow]
    BY DEF TypeOK
  <2> QED BY <2>1 DEF RunRow
<1> QED BY <1>1 DEF BeforeIsKnown, LastIsKnown, Within

(* A step that leaves the row and the dispatches under way as they are. *)
LEMMA QuietHealth ==
  ASSUME BeforeIsKnown, LastIsKnown, seen' = seen, since' = since,
         \A q \in Runs : /\ Acquiring(q)' <=> Acquiring(q)
                         /\ Acquiring(q) => run'[q].lag = run[q].lag
  PROVE  BeforeIsKnown' /\ LastIsKnown'
  BY DEF BeforeIsKnown, LastIsKnown, Within

LEMMA DispatchHealth ==
  ASSUME HealthInv, NEW r \in Runs, Dispatch(r)
  PROVE  BeforeIsKnown' /\ LastIsKnown'
<1>0. TypeOK /\ run \in [Runs -> RunRow]
  BY DEF HealthInv, IInv, TypeOK
<1>1. /\ ~Acquiring(r) /\ Acquiring(r)' /\ run'[r].lag = 0
      /\ since' = 0 /\ seen' = seen
      /\ \A q \in Runs \ {r} : run'[q] = run[q]
  BY <1>0 DEF Dispatch, Acquiring, NoRun
<1>2. Within(Cadence) \/ \E q \in Runs : Acquiring(q) /\ 0 < run[q].lag /\ run[q].lag <= Cadence
  BY <1>0, HealthTypes DEF HealthInv, LastIsKnown, Within, Dispatch
<1>3. \A q \in Runs : Acquiring(q) => Acquiring(q)' /\ run'[q].lag = run[q].lag
  BY <1>1 DEF Acquiring
<1>4. \A q \in Runs \ {r} : Acquiring(q)' => Acquiring(q) /\ run'[q].lag = run[q].lag
  BY <1>1 DEF Acquiring
<1>5. BeforeIsKnown'
  <2> SUFFICES ASSUME NEW p \in Runs, Acquiring(p)'
               PROVE  \/ Within(run[p].lag + Cadence)'
                      \/ \E q \in Runs : Acquiring(q)' /\ run'[p].lag < run'[q].lag
                                         /\ run'[q].lag <= run'[p].lag + Cadence
    BY DEF BeforeIsKnown
  <2>1. CASE p = r
    <3>1. run'[p].lag + Cadence = Cadence
      BY <1>1, <2>1
    <3>2. CASE Within(Cadence)
      BY <1>1, <3>1, <3>2 DEF Within
    <3>3. CASE \E q \in Runs : Acquiring(q) /\ 0 < run[q].lag /\ run[q].lag <= Cadence
      BY <1>1, <1>3, <2>1, <3>1, <3>3
    <3> QED BY <1>2, <3>2, <3>3
  <2>2. CASE p # r
    <3>1. Acquiring(p) /\ run'[p].lag = run[p].lag
      BY <1>4, <2>2
    <3>2. \/ Within(run[p].lag + Cadence)
          \/ \E q \in Runs : Acquiring(q) /\ run[p].lag < run[q].lag
                             /\ run[q].lag <= run[p].lag + Cadence
      BY <3>1 DEF HealthInv, BeforeIsKnown
    <3> QED BY <1>1, <1>3, <3>1, <3>2 DEF Within
  <2> QED BY <2>1, <2>2
<1>6. LastIsKnown'
  BY <1>1 DEF LastIsKnown
<1> QED BY <1>5, <1>6

(* A run that is skipped saw a lease that is not older than that. *)
LEMMA SkippedHealth ==
  ASSUME HealthInv, NEW r \in Runs, SkippedLocked(r)
  PROVE  BeforeIsKnown' /\ LastIsKnown'
<1>0. TypeOK /\ run \in [Runs -> RunRow]
  BY DEF HealthInv, IInv, TypeOK
<1>1. /\ Acquiring(r) /\ ~Acquiring(r)'
      /\ since' = since /\ seen' = seen
      /\ \A q \in Runs \ {r} : run'[q] = run[q]
  BY <1>0 DEF SkippedLocked, Acquiring, NoRun
<1>2. Within(run[r].lag)
  BY <1>0, HealthTypes DEF SkippedLocked, DecideTakeover, HealthInv, LeaseAge, Within
<1>3. BeforeIsKnown'
  <2> SUFFICES ASSUME NEW p \in Runs, Acquiring(p)'
               PROVE  \/ Within(run[p].lag + Cadence)'
                      \/ \E q \in Runs : Acquiring(q)' /\ run'[p].lag < run'[q].lag
                                         /\ run'[q].lag <= run'[p].lag + Cadence
    BY DEF BeforeIsKnown
  <2>1. p # r /\ run'[p] = run[p] /\ Acquiring(p)
    BY <1>1 DEF Acquiring
  <2>2. CASE Within(run[p].lag + Cadence)
    BY <1>1, <2>1, <2>2 DEF Within
  <2>3. ASSUME NEW q \in Runs, Acquiring(q), run[p].lag < run[q].lag,
               run[q].lag <= run[p].lag + Cadence
        PROVE  \/ Within(run[p].lag + Cadence)'
               \/ Acquiring(q)' /\ run'[p].lag < run'[q].lag
                               /\ run'[q].lag <= run'[p].lag + Cadence
    <3>1. CASE q = r
      BY <1>0, <1>1, <1>2, <2>1, <2>3, <3>1, HealthTypes DEF Within
    <3>2. CASE q # r
      BY <1>1, <2>1, <2>3, <3>2 DEF Acquiring
    <3> QED BY <3>1, <3>2
  <2> QED BY <2>1, <2>2, <2>3 DEF HealthInv, BeforeIsKnown
<1>4. LastIsKnown'
  <2>1. CASE Within(since)
    BY <1>1, <2>1 DEF LastIsKnown, Within
  <2>2. ASSUME NEW q \in Runs, Acquiring(q), run[q].lag = since
        PROVE  LastIsKnown'
    <3>1. CASE q = r
      BY <1>1, <1>2, <2>2, <3>1 DEF LastIsKnown, Within
    <3>2. CASE q # r
      BY <1>1, <2>2, <3>2 DEF LastIsKnown, Acquiring
    <3> QED BY <3>1, <3>2
  <2> QED BY <2>1, <2>2 DEF HealthInv, LastIsKnown
<1> QED BY <1>3, <1>4

LEMMA TickHealth ==
  ASSUME HealthInv, Tick
  PROVE  LeaseAge' /\ BeforeIsKnown' /\ LastIsKnown'
<1>0. /\ TypeOK /\ run \in [Runs -> RunRow]
      /\ lease \in [owner : Runs \cup {None}, left : Int, cursor : Cursor]
  BY DEF HealthInv, IInv, TypeOK
<1>1. /\ since' = since + 1 /\ seen' \in {seen, seen + 1}
      /\ lease'.left = IF lease.left > -MaxLag THEN lease.left - 1 ELSE lease.left
  BY <1>0 DEF Tick
<1>2. \A q \in Runs : /\ Acquiring(q)' <=> Acquiring(q)
                      /\ Acquiring(q) => run'[q].lag = run[q].lag + 1
  BY <1>0 DEF Tick, Acquiring
<1>3. LeaseAge'
  BY <1>0, <1>1, HealthTypes DEF HealthInv, LeaseAge, TypeOK
<1>4. ASSUME NEW x \in Int, Within(x) PROVE seen' <= Duration - 1 + (x + 1)
  BY <1>0, <1>1, <1>4, HealthTypes DEF Within
<1>5. BeforeIsKnown'
  <2> SUFFICES ASSUME NEW p \in Runs, Acquiring(p)'
               PROVE  \/ Within(run[p].lag + Cadence)'
                      \/ \E q \in Runs : Acquiring(q)' /\ run'[p].lag < run'[q].lag
                                         /\ run'[q].lag <= run'[p].lag + Cadence
    BY DEF BeforeIsKnown
  <2>1. Acquiring(p) /\ run'[p].lag = run[p].lag + 1 /\ run[p].lag \in 0..MaxLag
    BY <1>0, <1>2, HealthTypes
  <2>2. CASE Within(run[p].lag + Cadence)
    <3>1. run[p].lag + Cadence \in Int
      BY <2>1
    <3>2. seen' <= Duration - 1 + ((run[p].lag + Cadence) + 1)
      BY <1>4, <2>2, <3>1
    <3> QED BY <2>1, <3>2 DEF Within
  <2>3. ASSUME NEW q \in Runs, Acquiring(q), run[p].lag < run[q].lag,
               run[q].lag <= run[p].lag + Cadence
        PROVE  Acquiring(q)' /\ run'[p].lag < run'[q].lag
                             /\ run'[q].lag <= run'[p].lag + Cadence
    BY <1>0, <1>2, <2>1, <2>3, HealthTypes
  <2> QED BY <2>1, <2>2, <2>3 DEF HealthInv, BeforeIsKnown
<1>6. LastIsKnown'
  <2>1. CASE Within(since)
    BY <1>0, <1>1, <1>4, <2>1, HealthTypes DEF LastIsKnown, Within
  <2>2. CASE \E r \in Runs : Acquiring(r) /\ run[r].lag = since
    BY <1>1, <1>2, <2>2 DEF LastIsKnown
  <2> QED BY <2>1, <2>2 DEF HealthInv, LastIsKnown
<1> QED BY <1>3, <1>5, <1>6

(* Who touches the row starts its lease anew. *)
LEMMA RunStepAge ==
  ASSUME HealthInv, NEW r \in Runs, RunStep(r)
  PROVE  LeaseAge'
<1>0. /\ TypeOK /\ run \in [Runs -> RunRow]
      /\ lease \in [owner : Runs \cup {None}, left : Int, cursor : Cursor]
  BY DEF HealthInv, IInv, TypeOK
<1>1. CASE lease' = lease /\ seen' = seen
  BY <1>1 DEF HealthInv, LeaseAge
<1>2. CASE Acquire(r) \/ Renew(r)
  <2>1. lease'.left = Duration - run[r].lag /\ seen' = 0
    BY <1>0, <1>2 DEF Acquire, Renew, Touch, NextLeaseUntil
  <2> QED BY <1>0, <2>1, HealthTypes DEF LeaseAge
<1>3. CASE Release(r)
  BY <1>0, <1>1, <1>3 DEF Release, LeaseAge
<1>4. CASE Crash(r)
  <2>1. lease'.left = lease.left /\ seen' = seen
    BY <1>0, <1>4 DEF Crash, Ended
  <2> QED BY <2>1 DEF HealthInv, LeaseAge
<1> QED BY <1>1, <1>2, <1>3, <1>4
        DEF RunStep, Dispatch, SkippedLocked, List, WorkPage, BatchEnds, BatchThrows,
            LeaseLost, WorkRow

LEMMA RunStepHealth ==
  ASSUME HealthInv, TypeOK', NEW r \in Runs, RunStep(r)
  PROVE  BeforeIsKnown' /\ LastIsKnown'
<1>0. TypeOK /\ run \in [Runs -> RunRow] /\ BeforeIsKnown /\ LastIsKnown
  BY DEF HealthInv, IInv, TypeOK
<1> DEFINE Quiet == /\ seen' = seen /\ since' = since
                    /\ \A q \in Runs : /\ Acquiring(q)' <=> Acquiring(q)
                                       /\ Acquiring(q) => run'[q].lag = run[q].lag
<1>1. CASE Dispatch(r)
  BY <1>1, DispatchHealth
<1>2. CASE SkippedLocked(r)
  BY <1>2, SkippedHealth
<1>3. CASE Acquire(r) \/ Renew(r)
  BY <1>0, <1>3, TouchedHealth DEF Acquire, Renew, Touch
<1>4. ASSUME \/ List(r) \/ WorkPage(r) \/ BatchEnds(r) \/ BatchThrows(r) \/ LeaseLost(r)
             \/ \E i \in Ids : WorkRow(r, i)
      PROVE  Quiet
  <2>1. seen' = seen /\ since' = since /\ ~Acquiring(r)
    BY <1>4 DEF List, WorkPage, BatchEnds, BatchThrows, LeaseLost, WorkRow, Acquiring
  <2>2. \A q \in Runs \ {r} : run'[q] = run[q]
    BY <1>0, <1>4 DEF List, WorkPage, BatchEnds, BatchThrows, LeaseLost, WorkRow
  <2>3. ~Acquiring(r)'
    <3>1. CASE WorkPage(r) \/ \E i \in Ids : WorkRow(r, i)
      <4>1. run'[r].pc = run[r].pc
        BY <1>0, <3>1 DEF WorkPage, WorkRow, RunRow
      <4> QED BY <2>1, <4>1 DEF Acquiring
    <3>3. CASE List(r)
      <4> DEFINE page == Page(run[r].cursor)
                 next == CursorAfter(run[r].cursor, page)
                 row == [run[r] EXCEPT !.pc = "work", !.page = page, !.next = next,
                                       !.batches = run[r].batches + 1]
      <4>1. run'[r] = row
        BY <1>0, <3>3 DEF List
      <4>2. row.pc = "work"
        <5> HIDE DEF page, next
        <5> QED BY <1>0 DEF RunRow
      <4> QED BY <4>1, <4>2 DEF Acquiring
    <3>4. CASE BatchEnds(r)
      BY <1>0, <3>4 DEF BatchEnds, Acquiring, RunRow
    <3>2. CASE BatchThrows(r) \/ LeaseLost(r)
      BY <1>0, <3>2 DEF BatchThrows, LeaseLost, Acquiring, NoRun
    <3> QED BY <1>4, <3>1, <3>2, <3>3, <3>4
  <2> QED BY <2>1, <2>2, <2>3 DEF Acquiring
<1>5. CASE Release(r)
  <2>1. CASE lease.owner = r
    BY <1>0, <1>5, <2>1, TouchedHealth DEF Release, Touch
  <2>2. CASE lease.owner # r
    <3>1. Quiet
      BY <1>0, <1>5, <2>2 DEF Release, Acquiring, NoRun
    <3> QED BY <1>0, <3>1, QuietHealth
  <2> QED BY <2>1, <2>2
<1>6. ASSUME Crash(r) PROVE Quiet
  BY <1>0, <1>6 DEF Crash, Acquiring, NoRun
<1>7. Quiet => BeforeIsKnown' /\ LastIsKnown'
  BY <1>0, QuietHealth
<1> QED BY <1>1, <1>2, <1>3, <1>4, <1>5, <1>6, <1>7 DEF RunStep

LEMMA NextHealth == HealthInv /\ [Next]_vars => HealthInv'
<1> SUFFICES ASSUME HealthInv, [Next]_vars PROVE HealthInv'
  OBVIOUS
<1>1. IInv' /\ TypeOK'
  BY NextInv DEF HealthInv, IInv
<1>2. LeaseAge' /\ BeforeIsKnown' /\ LastIsKnown'
  <2>1. CASE \E r \in Runs : RunStep(r)
    BY <1>1, <2>1, RunStepAge, RunStepHealth
  <2>2. CASE \E x \in Rows : Arises(x)
    BY <2>2 DEF Arises, HealthInv, LeaseAge, BeforeIsKnown, LastIsKnown, Acquiring, Within
  <2>3. CASE Tick
    BY <2>3, TickHealth
  <2>4. CASE UNCHANGED vars
    BY <2>4 DEF vars, HealthInv, LeaseAge, BeforeIsKnown, LastIsKnown, Acquiring, Within
  <2> QED BY <2>1, <2>2, <2>3, <2>4 DEF Next
<1> QED BY <1>1, <1>2 DEF HealthInv

(* The health endpoint never reports a job whose dispatches come at their    *)
(* cadence as stale or never run, whatever becomes of the runs.             *)
THEOREM HealthyJob == Spec => []HealthyWhileDispatched
<1>1. HealthInv => HealthyWhileDispatched
  BY Healthy DEF HealthInv, IInv
<1> QED BY <1>1, InitHealth, NextHealth, PTL DEF Spec

===============================================================================
