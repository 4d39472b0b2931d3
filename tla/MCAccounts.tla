------------------------------ MODULE MCAccounts -------------------------------
(* Small instances of the modules about people and their access, for TLC.    *)
(* The parts share no state, so a behaviour moves one of them, its focus,    *)
(* and leaves the others in their initial states.                           *)
EXTENDS Sessions, Accounts, Lifecycle, RateLimit, AdminAccess, TLC

VARIABLE focus

parts == <<sessionVars, accountVars, lifecycleVars, rateVars, adminVars>>

PeopleInit ==
  /\ focus \in {"sessions", "accounts", "lifecycle", "rates", "admin"}
  /\ SessionsInit /\ AccountsInit /\ LifecycleInit /\ RateInit /\ AdminAccessInit
  /\ focus # "admin" => permissions = Permissions

PeopleNext ==
  /\ UNCHANGED focus
  /\ \/ /\ focus = "sessions" /\ SessionsNext
        /\ UNCHANGED <<accountVars, lifecycleVars, rateVars, adminVars>>
     \/ /\ focus = "accounts" /\ AccountsNext
        /\ UNCHANGED <<sessionVars, lifecycleVars, rateVars, adminVars>>
     \/ /\ focus = "lifecycle" /\ LifecycleNext
        /\ UNCHANGED <<sessionVars, accountVars, rateVars, adminVars>>
     \/ /\ focus = "rates" /\ RateNext
        /\ UNCHANGED <<sessionVars, accountVars, lifecycleVars, adminVars>>
     \/ /\ focus = "admin" /\ AdminAccessNext
        /\ UNCHANGED <<sessionVars, accountVars, lifecycleVars, rateVars>>

PeopleSpec == PeopleInit /\ [][PeopleNext]_<<focus, parts>>

(* A verification link lives longer than a reset link.                      *)
TtlInTicks == [t \in TokenTypes |-> IF t = "password_reset" THEN 1 ELSE 2]

(* The rows, counters, sessions and operations under way of every part have  *)
(* the values their columns and types allow.                                *)
PeopleTypeOK ==
  /\ SessionsTypeOK /\ AccountsTypeOK /\ LifecycleTypeOK /\ RateTypeOK
  /\ AdminAccessTypeOK

(* The workers are interchangeable, and so are the desks.                   *)
Symmetry == Permutations(Workers) \cup Permutations(Desks)

===============================================================================
