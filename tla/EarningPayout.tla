---------------------------- MODULE EarningPayout ----------------------------
(***************************************************************************)
(* The partner's money: an earning accrues when its order succeeds, a job   *)
(* releases its hold, an operator may reverse it, a member locks released   *)
(* earnings into a payout, and an admin reviews the payout until it is paid *)
(* or given back.  The status columns are the projection the commands       *)
(* decide on; the ledger is the append-only record of the same movements.   *)
(*                                                                         *)
(* Every command reads its rows OUTSIDE the transaction that acts on them;  *)
(* the transaction itself is one step.                                      *)
(*                                                                         *)
(* Abstractions.  Every transfer carries whole earnings (a payout's amount  *)
(* is the sum of its allocations), so a bucket's balance is the sum over    *)
(* earnings of the earning's net amount times its share of the bucket, and  *)
(* the ledger is kept as those shares.  The hold period is elapsed.         *)
(* Permissions, destinations, the minimum and malformed input only refuse:  *)
(* a refusal is no step.                                                    *)
(***************************************************************************)
EXTENDS Integers, FiniteSets

CONSTANTS
  Earnings,   \* earnings, one per successful order
  Payouts,    \* payout ids, drawn fresh by each request
  Refs,       \* payment references admins may enter
  ApiProcs,   \* workers serving members and admins
  CronProcs,  \* workers of the earning-release job
  None        \* no earning, payout or reference

ASSUME ConstantsAssumption ==
  /\ None \notin Earnings \cup Payouts \cup Refs
  /\ ApiProcs \cap CronProcs = {}

VARIABLES
  earning,   \* status of each earning row
  elapsed,   \* earnings whose hold has elapsed
  payouts,   \* payout rows with their allocations
  share,     \* ledger: the share of each bucket each earning's amount has
  posted,    \* ledger: the event keys in use
  issues,    \* earnings with a paid-reversal reconciliation issue
  tx         \* the command each worker is running

vars == <<earning, elapsed, payouts, share, posted, issues, tx>>

Procs == ApiProcs \cup CronProcs

EarningStatus == {"absent", "pending", "available", "requested", "paid", "reversed"}
OpenStatus == {"requested", "approved", "processing"}
VoidStatus == {"rejected", "failed"}
PayoutStatus == {"absent", "paid"} \cup OpenStatus \cup VoidStatus
Buckets == {"payable", "pending", "available", "locked", "paid", "reversed"}
EarningEvents == {"order-success", "hold-release", "earning-reversal"}
PayoutEvents == {"payout-lock", "payout-paid", "payout-unlock"}
EventKeys == (EarningEvents \X Earnings) \cup (PayoutEvents \X Payouts)
ReviewCommands == {"approve", "process", "markPaid", "reject", "fail"}

(* A payout row; released is the releasedAt of its allocations. *)
PayoutRow == [status : PayoutStatus, alloc : SUBSET Earnings,
              released : BOOLEAN, ref : Refs \cup {None}]
NoPayout == [status |-> "absent", alloc |-> {}, released |-> FALSE, ref |-> None]

(* A command in flight: its subject, and what it read. *)
Tx == [step : {"idle", "read", "commit"},
       cmd : {"none", "release", "reverse", "request"} \cup ReviewCommands,
       e : Earnings \cup {None}, p : Payouts \cup {None},
       set : SUBSET Earnings, seen : SUBSET Earnings,
       saw : EarningStatus \cup PayoutStatus, ref : Refs \cup {None}]
Idle == [step |-> "idle", cmd |-> "none", e |-> None, p |-> None, set |-> {},
         seen |-> {}, saw |-> "absent", ref |-> None]

TypeOK ==
  /\ earning \in [Earnings -> EarningStatus]
  /\ elapsed \subseteq Earnings
  /\ payouts \in [Payouts -> PayoutRow]
  /\ share \in [Earnings -> [Buckets -> Int]]
  /\ posted \subseteq EventKeys
  /\ issues \subseteq Earnings
  /\ tx \in [Procs -> Tx]

Init ==
  /\ earning = [e \in Earnings |-> "absent"]
  /\ elapsed = {}
  /\ payouts = [p \in Payouts |-> NoPayout]
  /\ share = [e \in Earnings |-> [b \in Buckets |-> 0]]
  /\ posted = {}
  /\ issues = {}
  /\ tx = [w \in Procs |-> Idle]

-------------------------------------------------------------------------------
(* The ledger.                                                              *)

(* A transfer of one earning: two entries that sum to zero. *)
Moved(s, from, to) ==
  [b \in Buckets |-> s[b] + (IF b = to THEN 1 ELSE 0) - (IF b = from THEN 1 ELSE 0)]

(* appendTransaction: a key already in use makes it a silent no-op. *)
Post(key, S, from, to) ==
  IF key \in posted
  THEN UNCHANGED <<share, posted>>
  ELSE /\ posted' = posted \cup {key}
       /\ share' = [e \in Earnings |-> IF e \in S THEN Moved(share[e], from, to)
                                                  ELSE share[e]]

(* Mutant: one event key for both directions of the lock. *)
ReviewKeyShared(c, p) ==
  IF c = "markPaid" THEN <<"payout-paid", p>> ELSE <<"payout-lock", p>>

ReviewKey(c, p) ==
  IF c = "markPaid" THEN <<"payout-paid", p>> ELSE <<"payout-unlock", p>>

(* The order's success transaction creates the earning and its entries. *)
Accrue(e) ==
  /\ earning[e] = "absent"
  /\ earning' = [earning EXCEPT ![e] = "pending"]
  /\ Post(<<"order-success", e>>, {e}, "payable", "pending")
  /\ UNCHANGED <<elapsed, payouts, issues, tx>>

HoldElapses(e) ==
  /\ earning[e] # "absent" /\ e \notin elapsed
  /\ elapsed' = elapsed \cup {e}
  /\ UNCHANGED <<earning, payouts, share, posted, issues, tx>>

-------------------------------------------------------------------------------
(* Commands on one earning.                                                 *)

(* Mutant: the listing selects the wrong status. *)
ReleasableAvailable(e) == earning[e] = "available" /\ e \in elapsed

(* The release job's listing and the guard its command decides again. *)
Releasable(e) == earning[e] = "pending" /\ e \in elapsed

JobLists(w, e) ==
  /\ tx[w].step = "idle"
  /\ Releasable(e)
  /\ tx' = [tx EXCEPT ![w] = [Idle EXCEPT !.step = "read", !.cmd = "release", !.e = e]]
  /\ UNCHANGED <<earning, elapsed, payouts, share, posted, issues>>

ReadListed(w) ==
  /\ tx[w].step = "read" /\ tx[w].cmd = "release"
  /\ tx' = [tx EXCEPT ![w] =
              IF Releasable(tx[w].e)
              THEN [@ EXCEPT !.step = "commit", !.saw = "pending"]
              ELSE Idle]
  /\ UNCHANGED <<earning, elapsed, payouts, share, posted, issues>>

(* A reversal reads the earning; a requested one is refused and a paid one  *)
(* is only reported.                                                        *)
SubmitReverse(w, e) ==
  /\ tx[w].step = "idle"
  /\ earning[e] \in {"pending", "available", "paid"}
  /\ tx' = [tx EXCEPT ![w] = [Idle EXCEPT !.step = "commit", !.cmd = "reverse",
                                          !.e = e, !.saw = earning[e]]]
  /\ UNCHANGED <<earning, elapsed, payouts, share, posted, issues>>

(* Mutant: the status is not compared with the one read. *)
AsReadNever(t) == earning[t.e] # "absent"

AsRead(t) == earning[t.e] = t.saw

CommitRelease(w) ==
  LET t == tx[w] IN
  /\ t.step = "commit" /\ t.cmd = "release"
  /\ AsRead(t)
  /\ earning' = [earning EXCEPT ![t.e] = "available"]
  /\ Post(<<"hold-release", t.e>>, {t.e}, "pending", "available")
  /\ tx' = [tx EXCEPT ![w] = Idle]
  /\ UNCHANGED <<elapsed, payouts, issues>>

CommitReverse(w) ==
  LET t == tx[w] IN
  /\ t.step = "commit" /\ t.cmd = "reverse" /\ t.saw # "paid"
  /\ AsRead(t)
  /\ earning' = [earning EXCEPT ![t.e] = "reversed"]
  /\ Post(<<"earning-reversal", t.e>>, {t.e}, t.saw, "reversed")
  /\ tx' = [tx EXCEPT ![w] = Idle]
  /\ UNCHANGED <<elapsed, payouts, issues>>

(* A paid earning is not taken back: an issue asks a human to reconcile it. *)
RecordPaidReversal(w) ==
  LET t == tx[w] IN
  /\ t.step = "commit" /\ t.cmd = "reverse" /\ t.saw = "paid"
  /\ issues' = issues \cup {t.e}
  /\ tx' = [tx EXCEPT ![w] = Idle]
  /\ UNCHANGED <<earning, elapsed, payouts, share, posted>>

EarningContention(w) ==
  LET t == tx[w] IN
  /\ t.step = "commit" /\ t.cmd \in {"release", "reverse"} /\ t.saw # "paid"
  /\ ~AsRead(t)
  /\ tx' = [tx EXCEPT ![w] = Idle]
  /\ UNCHANGED <<earning, elapsed, payouts, share, posted, issues>>

-------------------------------------------------------------------------------
(* Payout requests.                                                         *)

(* A member names distinct earnings; the request draws its payout id and    *)
(* reads the earnings one statement at a time.                              *)
SubmitRequest(w, p, S) ==
  /\ tx[w].step = "idle"
  /\ S # {}
  /\ payouts[p].status = "absent"
  /\ \A v \in Procs : tx[v].p # p
  /\ tx' = [tx EXCEPT ![w] = [Idle EXCEPT !.step = "read", !.cmd = "request",
                                          !.p = p, !.set = S]]
  /\ UNCHANGED <<earning, elapsed, payouts, share, posted, issues>>

ReadWanted(w, e) ==
  LET t == tx[w] IN
  /\ t.step = "read" /\ t.cmd = "request"
  /\ e \in t.set \ t.seen
  /\ tx' = [tx EXCEPT ![w] =
              CASE earning[e] # "available" -> Idle
                [] OTHER -> [t EXCEPT !.seen = t.seen \cup {e},
                                      !.step = IF t.set = t.seen \cup {e}
                                               THEN "commit" ELSE "read"]]
  /\ UNCHANGED <<earning, elapsed, payouts, share, posted, issues>>

Allocated(e, p) == e \in payouts[p].alloc /\ ~payouts[p].released

(* The lock's compare-and-set on each earning, and the partial unique index *)
(* on its unreleased allocation.                                            *)
Lockable(S) ==
  \A e \in S : earning[e] = "available" /\ \A p \in Payouts : ~Allocated(e, p)

CommitRequest(w) ==
  LET t == tx[w] IN
  /\ t.step = "commit" /\ t.cmd = "request"
  /\ Lockable(t.set)
  /\ earning' = [e \in Earnings |-> IF e \in t.set THEN "requested" ELSE earning[e]]
  /\ payouts' = [payouts EXCEPT ![t.p] =
                   [NoPayout EXCEPT !.status = "requested", !.alloc = t.set]]
  /\ Post(<<"payout-lock", t.p>>, t.set, "available", "locked")
  /\ tx' = [tx EXCEPT ![w] = Idle]
  /\ UNCHANGED <<elapsed, issues>>

RequestContention(w) ==
  /\ tx[w].step = "commit" /\ tx[w].cmd = "request"
  /\ ~Lockable(tx[w].set)
  /\ tx' = [tx EXCEPT ![w] = Idle]
  /\ UNCHANGED <<earning, elapsed, payouts, share, posted, issues>>

-------------------------------------------------------------------------------
(* Payout review.                                                           *)

ValidSources == [c \in ReviewCommands |->
                   CASE c = "approve" -> {"requested"}
                     [] c = "process" -> {"approved"}
                     [] c = "markPaid" -> {"processing"}
                     [] c \in {"reject", "fail"} -> OpenStatus]

NextStatus == [c \in ReviewCommands |->
                 CASE c = "approve" -> "approved"
                   [] c = "process" -> "processing"
                   [] c = "markPaid" -> "paid"
                   [] c = "reject" -> "rejected"
                   [] c = "fail" -> "failed"]

(* An admin's command reads the payout and its allocations (which never     *)
(* change); any other answer than "apply" changes nothing.                  *)
SubmitReview(w, p, c, r) ==
  /\ tx[w].step = "idle"
  /\ payouts[p].status \in ValidSources[c]
  /\ (c = "markPaid") = (r # None)
  /\ tx' = [tx EXCEPT ![w] = [Idle EXCEPT !.step = "commit", !.cmd = c, !.p = p,
                                !.ref = r, !.saw = payouts[p].status]]
  /\ UNCHANGED <<earning, elapsed, payouts, share, posted, issues>>

(* Mutant: the payout UPDATE only asks that the row exists. *)
ReviewableBlind(t) == payouts[t.p].status # "absent"

(* The payout's compare-and-set and the unique payment reference. *)
Reviewable(t) ==
  /\ payouts[t.p].status = t.saw
  /\ t.ref # None => \A q \in Payouts : payouts[q].ref # t.ref

(* Mutant: a payout given back keeps its allocations. *)
ReviewedUnreleased(t) ==
  [payouts[t.p] EXCEPT !.status = NextStatus[t.cmd], !.ref = t.ref]

Reviewed(t) ==
  [payouts[t.p] EXCEPT !.status = NextStatus[t.cmd], !.ref = t.ref,
                       !.released = NextStatus[t.cmd] \in VoidStatus]

CommitProgress(w) ==
  LET t == tx[w] IN
  /\ t.step = "commit" /\ t.cmd \in {"approve", "process"}
  /\ Reviewable(t)
  /\ payouts' = [payouts EXCEPT ![t.p] = Reviewed(t)]
  /\ tx' = [tx EXCEPT ![w] = Idle]
  /\ UNCHANGED <<earning, elapsed, share, posted, issues>>

(* The status of the earnings and the bucket follow the payout.  The        *)
(* earnings' own compare-and-set is not checked by the code: an allocated   *)
(* earning that is not "requested" any more would be skipped in silence.    *)
CommitSettlement(w) ==
  LET t == tx[w]
      to == IF t.cmd = "markPaid" THEN "paid" ELSE "available"
      S == payouts[t.p].alloc
  IN
  /\ t.step = "commit" /\ t.cmd \in {"markPaid", "reject", "fail"}
  /\ Reviewable(t)
  /\ payouts' = [payouts EXCEPT ![t.p] = Reviewed(t)]
  /\ earning' = [e \in Earnings |-> IF e \in S /\ earning[e] = "requested" THEN to
                                    ELSE earning[e]]
  /\ Post(ReviewKey(t.cmd, t.p), S, "locked", to)
  /\ tx' = [tx EXCEPT ![w] = Idle]
  /\ UNCHANGED <<elapsed, issues>>

ReviewContention(w) ==
  /\ tx[w].step = "commit" /\ tx[w].cmd \in ReviewCommands
  /\ ~Reviewable(tx[w])
  /\ tx' = [tx EXCEPT ![w] = Idle]
  /\ UNCHANGED <<earning, elapsed, payouts, share, posted, issues>>

-------------------------------------------------------------------------------
Crash(w) ==
  /\ tx[w].step # "idle"
  /\ tx' = [tx EXCEPT ![w] = Idle]
  /\ UNCHANGED <<earning, elapsed, payouts, share, posted, issues>>

EarningStep ==
  \/ \E e \in Earnings : Accrue(e) \/ HoldElapses(e)
  \/ \E w \in CronProcs, e \in Earnings : JobLists(w, e)
  \/ \E w \in ApiProcs, e \in Earnings : SubmitReverse(w, e)
  \/ \E w \in Procs : \/ ReadListed(w) \/ CommitRelease(w) \/ CommitReverse(w)
                      \/ RecordPaidReversal(w) \/ EarningContention(w)

PayoutStep ==
  \/ \E w \in ApiProcs, p \in Payouts, S \in SUBSET Earnings : SubmitRequest(w, p, S)
  \/ \E w \in ApiProcs, e \in Earnings : ReadWanted(w, e)
  \/ \E w \in ApiProcs, p \in Payouts, c \in ReviewCommands, r \in Refs \cup {None} :
       SubmitReview(w, p, c, r)
  \/ \E w \in ApiProcs : \/ CommitRequest(w) \/ RequestContention(w)
                         \/ CommitProgress(w) \/ CommitSettlement(w)
                         \/ ReviewContention(w)

Next == EarningStep \/ PayoutStep \/ \E w \in Procs : Crash(w)

(* The scheduler keeps dispatching the job, which walks the due earnings in *)
(* id order and so reaches each of them; a hold elapses with time; a        *)
(* command may crash, but not every time.  People get no fairness.          *)
Fairness ==
  /\ \A e \in Earnings : WF_vars(HoldElapses(e))
  /\ \A w \in CronProcs :
       /\ \A e \in Earnings : SF_vars(JobLists(w, e))
       /\ SF_vars(ReadListed(w))
       /\ SF_vars(CommitRelease(w) \/ EarningContention(w))

Spec == Init /\ [][Next]_vars
FairSpec == Spec /\ Fairness

-------------------------------------------------------------------------------
(* Properties.                                                              *)

BucketOf == [st \in EarningStatus \ {"absent"} |->
               IF st = "requested" THEN "locked" ELSE st]

(* What the ledger must say of an earning with a given status. *)
Booked(st) ==
  [b \in Buckets |-> CASE st = "absent" -> 0
                       [] st # "absent" /\ b = "payable" -> -1
                       [] st # "absent" /\ b = BucketOf[st] -> 1
                       [] OTHER -> 0]

(* The ledger and the earnings projection agree after every commit: each    *)
(* earning's amount was taken from the platform once and is in the bucket   *)
(* its status names, though neither is ever computed from the other, an     *)
(* append under a used key is a silent no-op and the review does not look   *)
(* whether its earnings moved.                                              *)
LedgerAgrees == \A e \in Earnings : share[e] = Booked(earning[e])

(* An earning is claimed by at most one payout: it is requested while that  *)
(* payout is open and paid once it is paid, and an earning of any other     *)
(* status is claimed by none, so it is never paid twice, never left locked  *)
(* by a payout that was given back and never barred from the next one.      *)
ClaimedByOnePayout ==
  \A e \in Earnings :
    /\ \A p, q \in Payouts : Allocated(e, p) /\ Allocated(e, q) => p = q
    /\ \A p \in Payouts : Allocated(e, p) =>
         IF payouts[p].status = "paid" THEN earning[e] = "paid"
         ELSE payouts[p].status \in OpenStatus /\ earning[e] = "requested"
    /\ earning[e] \in {"requested", "paid"} => \E p \in Payouts : Allocated(e, p)

(* A settled payout is settled for good: two admins, or one retrying,       *)
(* cannot pay what was given back or give back what was paid.               *)
SettledIsFinal ==
  [][\A p \in Payouts :
       payouts[p].status \in {"paid"} \cup VoidStatus => payouts'[p] = payouts[p]]_vars

(* A held earning does not stay held: its hold is released (or it is        *)
(* reversed) as long as the job keeps being dispatched.                     *)
HoldIsReleased ==
  \A e \in Earnings : earning[e] = "pending" ~> earning[e] # "pending"

-------------------------------------------------------------------------------
(* Where the ledger says the money is, and who claims it.                   *)
Place(e) ==
  IF posted \cap (EarningEvents \X {e}) = {} THEN "nowhere"
  ELSE CHOOSE b \in Buckets : share[e][b] = 1

ClaimOf(e) ==
  IF \E p \in Payouts : Allocated(e, p)
  THEN CHOOSE p \in Payouts : Allocated(e, p) ELSE None

PhaseOf(st) ==
  CASE st \in OpenStatus -> "open"
    [] st \in VoidStatus -> "void"
    [] OTHER -> st

Book == INSTANCE PayoutBook WITH
          money <- [e \in Earnings |-> Place(e)],
          claim <- [e \in Earnings |-> ClaimOf(e)],
          phase <- [p \in Payouts |-> PhaseOf(payouts[p].status)]

(* Read from the ledger and the allocations alone, the racing commands are  *)
(* atomic moves of whole earnings.                                          *)
BookSpec == Book!Spec

-------------------------------------------------------------------------------
(* The inductive invariant.                                                 *)

(* A key in use tells how far its earning or payout has come. *)
KeysTell ==
  /\ \A e \in Earnings :
       /\ <<"order-success", e>> \in posted <=> earning[e] # "absent"
       /\ <<"hold-release", e>> \in posted => earning[e] \notin {"absent", "pending"}
       /\ <<"earning-reversal", e>> \in posted <=> earning[e] = "reversed"
  /\ \A p \in Payouts :
       /\ <<"payout-lock", p>> \in posted <=> payouts[p].status # "absent"
       /\ <<"payout-paid", p>> \in posted <=> payouts[p].status = "paid"
       /\ <<"payout-unlock", p>> \in posted <=> payouts[p].status \in VoidStatus

(* A payout holds allocations until it is given back. *)
RowOK(row) ==
  /\ row.status = "absent" <=> row.alloc = {}
  /\ row.released <=> row.status \in VoidStatus

(* What a command t in flight relies on, with the earnings' statuses st and *)
(* the payout rows as given.                                                *)
TxSound(t, st, rows) ==
  /\ t.cmd \in {"release", "reverse"} => t.e \in Earnings
  /\ t.cmd = "release" /\ t.step = "commit" => t.saw = "pending"
  /\ t.cmd = "reverse" => t.saw \in {"pending", "available", "paid"}
  /\ t.cmd = "reverse" /\ t.saw = "paid" => st[t.e] = "paid"
  /\ t.cmd = "request" => t.p \in Payouts /\ t.set # {} /\ rows[t.p].status = "absent"
  /\ t.cmd \in ReviewCommands => t.p \in Payouts /\ t.saw \in ValidSources[t.cmd]

(* A payout id drawn by a request in flight is nobody else's. *)
FreshIds ==
  \A v, w \in Procs : tx[v].cmd = "request" /\ tx[w].p = tx[v].p => v = w

IInv ==
  /\ TypeOK
  /\ LedgerAgrees
  /\ ClaimedByOnePayout
  /\ KeysTell
  /\ \A p \in Payouts : RowOK(payouts[p])
  /\ \A w \in Procs : TxSound(tx[w], earning, payouts)
  /\ FreshIds
  /\ \A e \in issues : earning[e] = "paid"

===============================================================================
