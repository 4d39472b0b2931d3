------------------------------- MODULE Lifecycle -------------------------------
(***************************************************************************)
(* The status of a partner under the commands of several administrators:    *)
(* each reads the status, decides, updates the row if it still has the      *)
(* status it read, and writes the audit event in the same transaction.      *)
(***************************************************************************)
EXTENDS Naturals, Sequences

CONSTANTS Admins, MaxMoves   \* bound on the moves of one partner

ASSUME LifecycleAssumption == MaxMoves \in Nat

VARIABLES status, reviewing, trail

lifecycleVars == <<status, reviewing, trail>>

PartnerStatuses == {"pending", "approved", "suspended", "rejected"}

LifecycleCommands == {"approve", "reject", "suspend", "reapprove"}

From == [approve |-> {"pending"}, reject |-> {"pending", "suspended"},
         suspend |-> {"approved"}, reapprove |-> {"suspended"}]

To == [approve |-> "approved", reject |-> "rejected",
       suspend |-> "suspended", reapprove |-> "approved"]

AllowedTransitions == {<<"pending", "approved">>, <<"pending", "rejected">>,
                       <<"approved", "suspended">>,
                       <<"suspended", "approved">>, <<"suspended", "rejected">>}

(* What an administrator has read and decided, or nothing.                  *)
Review == [from : PartnerStatuses, to : PartnerStatuses]

NoReview == [from |-> "pending", to |-> "pending"]

LifecycleInit ==
  /\ status = "pending"
  /\ reviewing = [a \in Admins |-> NoReview]
  /\ trail = <<>>

ResolveLifecycleCommand(command) == status \in From[command]

LoadStatus(a, command) ==
  /\ reviewing[a] = NoReview
  /\ ResolveLifecycleCommand(command)
  /\ <<status, To[command]>> \in AllowedTransitions
  /\ reviewing' = [reviewing EXCEPT ![a] = [from |-> status, to |-> To[command]]]
  /\ UNCHANGED <<status, trail>>

(* Mutant: the update is not conditional on the status that was read. *)
StillExpectedAny(a) == TRUE

StillExpected(a) == status = reviewing[a].from

(* The row, then the audit event; a conflict changes neither.               *)
UpdateStatus(a) ==
  /\ reviewing[a] # NoReview
  /\ Len(trail) < MaxMoves
  /\ IF StillExpected(a)
     THEN status' = reviewing[a].to /\ trail' = Append(trail, reviewing[a])
     ELSE UNCHANGED <<status, trail>>
  /\ reviewing' = [reviewing EXCEPT ![a] = NoReview]

LifecycleNext ==
  \E a \in Admins : UpdateStatus(a) \/ \E command \in LifecycleCommands : LoadStatus(a, command)

LifecycleSpec == LifecycleInit /\ [][LifecycleNext]_lifecycleVars

-------------------------------------------------------------------------------
(* Properties.                                                              *)

LifecycleTypeOK ==
  /\ status \in PartnerStatuses
  /\ reviewing \in [Admins -> Review]
  /\ trail \in Seq(Review)

(* The audit events tell one story: each starts where the one before ended,  *)
(* the last ends at the status the partner has, and no administrator's       *)
(* command overrides what another did after it was decided.                 *)
TrailIsConnected ==
  /\ \A i \in 1..Len(trail) :
       /\ <<trail[i].from, trail[i].to>> \in AllowedTransitions
       /\ trail[i].from = IF i = 1 THEN "pending" ELSE trail[i - 1].to
  /\ status = IF trail = <<>> THEN "pending" ELSE trail[Len(trail)].to

===============================================================================
