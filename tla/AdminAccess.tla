------------------------------ MODULE AdminAccess ------------------------------
(***************************************************************************)
(* An administrator at work: the session, the confirmation of the password   *)
(* that the sight of a raw SMS asks for, the disclosure itself, the          *)
(* recovery of an order by hand, and the audit events that go with them.     *)
(*                                                                         *)
(* The sessions of administrators are those of Sessions on tables of their   *)
(* own.  The confirmation is kept in the memory of the process.  What a      *)
(* recovery command does to an order is OrderLifecycle's; here an order is   *)
(* open or has the terminal status that a command gave it.                  *)
(***************************************************************************)
EXTENDS Naturals, FiniteSets

CONSTANTS
  AdminSessionIds, AdminWorkers, Desks, SmsIds, OrderIds, Nothing,
  AdminIdleTtl, AdminAbsoluteTtl,
  ReauthWindow,
  RecoveryOperations,
  MaxReveals,       \* bound on the audit events of one SMS
  AdminHorizon      \* bound on the clock

ASSUME AdminAssumption ==
  /\ AdminIdleTtl \in Nat \ {0} /\ AdminAbsoluteTtl \in Nat /\ AdminIdleTtl <= AdminAbsoluteTtl
  /\ RecoveryOperations \subseteq {"fail", "cancel", "timeout"}
  /\ ReauthWindow \in Nat /\ MaxReveals \in Nat /\ AdminHorizon \in Nat

VARIABLES
  adminAccount, adminSession, adminReq, adminTime,
  permissions,   \* of the administrator; no code changes them
  reauth,        \* instant of the last confirmation plus 1, or 0
  sms,           \* "kept" or "redacted"
  order,         \* "open", or a terminal status
  desk,          \* an operation under way
  audited, shown,       \* events of "sms.raw_accessed", and disclosures, by SMS
  actions                 \* recoveries audited

adminSessionVars == <<adminAccount, adminSession, adminReq, adminTime>>
workVars == <<sms, order, desk, audited, shown, actions>>
adminVars == <<adminAccount, adminSession, adminReq, adminTime, permissions, reauth,
               sms, order, desk, audited, shown, actions>>

AdminSessions == INSTANCE Sessions WITH
  SessionIds <- AdminSessionIds, Reqs <- AdminWorkers, None <- Nothing,
  Statuses <- {"active", "disabled"}, LoginStatuses <- {"active"},
  IdleTtl <- AdminIdleTtl, AbsoluteTtl <- AdminAbsoluteTtl,
  MaxResets <- 0, MaxTime <- AdminHorizon,
  account <- adminAccount, session <- adminSession, req <- adminReq, now <- adminTime

Permissions == {"sms:raw", "recovery:admin"}
ResultStatus == [fail |-> "failed", cancel |-> "cancelled", timeout |-> "timeout"]

AuditRow == [order : OrderIds, operation : RecoveryOperations, ok : BOOLEAN]

Desk == [pc : {"free", "load", "record", "show", "command", "audit", "answer"},
         sms : SmsIds \cup {Nothing}, order : OrderIds \cup {Nothing},
         operation : RecoveryOperations \cup {"none"}, ok : BOOLEAN]

FreeDesk == [pc |-> "free", sms |-> Nothing, order |-> Nothing, operation |-> "none",
             ok |-> FALSE]

AdminAccessInit ==
  /\ AdminSessions!SessionsInit
  /\ permissions \in (SUBSET Permissions) \ {{}}
  /\ reauth = 0
  /\ sms = [m \in SmsIds |-> "kept"]
  /\ order = [o \in OrderIds |-> "open"]
  /\ desk = [d \in Desks |-> FreeDesk]
  /\ audited = [m \in SmsIds |-> 0] /\ shown = [m \in SmsIds |-> 0]
  /\ actions = {}

-------------------------------------------------------------------------------
(* Sessions and permissions.                                                *)

CanAdminLogin == adminAccount.status = "active"

EvaluateAdminSession(s) == AdminSessions!Evaluate(s)

AdminLogin(q) == AdminSessions!LoginRequest(q)

ResolveAdminSession(q) == \E s \in AdminSessionIds : AdminSessions!Resolve(q, s)

SlideAdminSession(q) == AdminSessions!SlideIdleExpiry(q)

AdminLogout(s) == AdminSessions!Logout(s)

SessionStep ==
  /\ \/ \E q \in AdminWorkers :
          AdminLogin(q) \/ ResolveAdminSession(q) \/ SlideAdminSession(q)
     \/ \E s \in AdminSessionIds : AdminLogout(s)
     \/ AdminSessions!SetStatus("disabled") \/ AdminSessions!TimePasses
  /\ UNCHANGED <<permissions, reauth, workVars>>

(* An operation starts from a session that authenticates, with the           *)
(* permissions the administrator had when it was resolved.                  *)
AuthorizePermission(permission) ==
  /\ CanAdminLogin
  /\ \E s \in AdminSessionIds : EvaluateAdminSession(s)
  /\ permission \in permissions

(* The password is confirmed.                                               *)
Reauthenticate ==
  /\ CanAdminLogin
  /\ \E s \in AdminSessionIds : EvaluateAdminSession(s)
  /\ reauth' = adminTime + 1
  /\ UNCHANGED <<adminSessionVars, permissions, workVars>>

-------------------------------------------------------------------------------
(* The sight of a raw SMS.                                                  *)

AuthorizeRawSmsAccess == reauth # 0 /\ adminTime <= (reauth - 1) + ReauthWindow

Put(d, work) == desk' = [desk EXCEPT ![d] = work]

Reveal(d, m) ==
  /\ desk[d].pc = "free"
  /\ AuthorizePermission("sms:raw")
  /\ AuthorizeRawSmsAccess
  /\ audited[m] < MaxReveals
  /\ Put(d, [FreeDesk EXCEPT !.pc = "load", !.sms = m])
  /\ UNCHANGED <<adminSessionVars, permissions, reauth, sms, order, audited, shown, actions>>

(* A redacted SMS has nothing to show, and nothing is audited for it.       *)
LoadEncryptedSms(d) ==
  /\ desk[d].pc = "load"
  /\ IF sms[desk[d].sms] = "kept" THEN Put(d, [desk[d] EXCEPT !.pc = "record"])
                                  ELSE Put(d, FreeDesk)
  /\ UNCHANGED <<adminSessionVars, permissions, reauth, sms, order, audited, shown, actions>>

RecordsAccess(d) ==
  /\ desk[d].pc = "record" /\ audited[desk[d].sms] < MaxReveals
  /\ audited' = [audited EXCEPT ![desk[d].sms] = @ + 1]
  /\ Put(d, [desk[d] EXCEPT !.pc = "show"])
  /\ UNCHANGED <<adminSessionVars, permissions, reauth, sms, order, shown, actions>>

(* Mutant: what was loaded is shown, and recorded afterwards. *)
ReadyToShowEarly(d) == desk[d].pc \in {"record", "show"}

ReadyToShow(d) == desk[d].pc = "show"

Shows(d) ==
  /\ ReadyToShow(d)
  /\ shown' = [shown EXCEPT ![desk[d].sms] = @ + 1]
  /\ Put(d, FreeDesk)
  /\ UNCHANGED <<adminSessionVars, permissions, reauth, sms, order, audited, actions>>

(* The retention job.                                                       *)
RedactRawSms(m) ==
  /\ sms[m] = "kept"
  /\ sms' = [sms EXCEPT ![m] = "redacted"]
  /\ UNCHANGED <<adminSessionVars, permissions, reauth, order, desk, audited, shown, actions>>

-------------------------------------------------------------------------------
(* The recovery of an order: the command in a transaction of its own, then    *)
(* the audit event, then the answer.                                        *)

Recover(d, o, op) ==
  /\ desk[d].pc = "free"
  /\ AuthorizePermission("recovery:admin")
  /\ Put(d, [FreeDesk EXCEPT !.pc = "command", !.order = o, !.operation = op])
  /\ UNCHANGED <<adminSessionVars, permissions, reauth, sms, order, audited, shown, actions>>

(* The command that was applied already succeeds again.                     *)
CommandApplies(o, op) == order[o] = "open" \/ order[o] = ResultStatus[op]

RunCommand(d) ==
  LET o == desk[d].order  op == desk[d].operation IN
  /\ desk[d].pc = "command"
  /\ order' = IF CommandApplies(o, op) THEN [order EXCEPT ![o] = ResultStatus[op]] ELSE order
  /\ Put(d, [desk[d] EXCEPT !.pc = "audit", !.ok = CommandApplies(o, op)])
  /\ UNCHANGED <<adminSessionVars, permissions, reauth, sms, audited, shown, actions>>

Outcome(d) == [order |-> desk[d].order, operation |-> desk[d].operation, ok |-> desk[d].ok]

(* Success and failure both.                                                *)
Audited(d) == actions \cup {Outcome(d)}

RecordsRecovery(d) ==
  /\ desk[d].pc = "audit"
  /\ actions' = Audited(d)
  /\ Put(d, [desk[d] EXCEPT !.pc = "answer"])
  /\ UNCHANGED <<adminSessionVars, permissions, reauth, sms, order, audited, shown>>

Answers(d) ==
  /\ desk[d].pc = "answer"
  /\ Put(d, FreeDesk)
  /\ UNCHANGED <<adminSessionVars, permissions, reauth, sms, order, audited, shown, actions>>

(* The process restarts: confirmations and operations under way are lost.   *)
Restart ==
  /\ reauth # 0 \/ \E d \in Desks : desk[d] # FreeDesk
  /\ reauth' = 0
  /\ desk' = [d \in Desks |-> FreeDesk]
  /\ UNCHANGED <<adminSessionVars, permissions, sms, order, audited, shown, actions>>

AdminAccessNext ==
  \/ SessionStep \/ Reauthenticate \/ Restart
  \/ \E m \in SmsIds : RedactRawSms(m)
  \/ \E d \in Desks :
       \/ \E m \in SmsIds : Reveal(d, m)
       \/ \E o \in OrderIds, op \in RecoveryOperations : Recover(d, o, op)
       \/ LoadEncryptedSms(d) \/ RecordsAccess(d) \/ Shows(d)
       \/ RunCommand(d) \/ RecordsRecovery(d) \/ Answers(d)

AdminAccessSpec == AdminAccessInit /\ [][AdminAccessNext]_adminVars

-------------------------------------------------------------------------------
(* Properties.                                                              *)

AdminAccessTypeOK ==
  /\ AdminSessions!SessionsTypeOK
  /\ permissions \subseteq Permissions /\ reauth \in 0..(AdminHorizon + 1)
  /\ sms \in [SmsIds -> {"kept", "redacted"}]
  /\ order \in [OrderIds -> {"open"} \cup {ResultStatus[op] : op \in RecoveryOperations}]
  /\ desk \in [Desks -> Desk]
  /\ actions \subseteq AuditRow

(* Every disclosure of an SMS has an audit event of its own, whatever the     *)
(* process does between the two: it may be lost after the event, never       *)
(* before it.                                                               *)
RevealedIsAudited == \A m \in SmsIds : shown[m] <= audited[m]

(* A recovery that the trail says succeeded is what became of the order,     *)
(* whoever else recovered it differently meanwhile.                          *)
AuditIsTrue == \A r \in actions : r.ok => order[r.order] = ResultStatus[r.operation]

(* The administrators' trail holds every disclosure, and no recovery that is  *)
(* not what became of the order.                                             *)
TrailIsTrue == RevealedIsAudited /\ AuditIsTrue

===============================================================================
