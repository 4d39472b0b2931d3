-------------------------------- MODULE Accounts -------------------------------
(***************************************************************************)
(* The members of partners: registration, invitation, changes made by an    *)
(* owner, and the one-time tokens that verify an e-mail or reset a          *)
(* password.  A member is identified by the normalized e-mail, which is     *)
(* unique over all partners.                                                *)
(*                                                                         *)
(* Every command is at least two steps: what it reads (its caller's role,   *)
(* the member, the token), and the transaction that writes.  Statements of  *)
(* other requests come in between.  Validation failures and rate limits     *)
(* (RateLimit) end a command before its first write and are left out.       *)
(***************************************************************************)
EXTENDS Naturals, FiniteSets

CONSTANTS
  Emails, Partners, TokenIds, Workers, Nobody,
  GivenRoles, GivenStatuses,   \* those an owner gives, of all there are
  Ttl,          \* of a token, by its type, in ticks
  MaxVersion,   \* bound on password resets
  LastTick      \* bound on the clock

TokenTypes == {"email_verification", "password_reset"}
MemberRoles == {"owner", "member"}
MemberStatuses == {"pending_verification", "active", "suspended", "disabled"}

ASSUME AccountsAssumption ==
  /\ GivenRoles \subseteq MemberRoles /\ GivenStatuses \subseteq MemberStatuses
  /\ Ttl \in [TokenTypes -> Nat \ {0}]
  /\ MaxVersion \in Nat \ {0} /\ LastTick \in Nat
  /\ Nobody \notin Emails \cup Partners \cup TokenIds

VARIABLES
  partner,   \* the partners that exist
  member,    \* by e-mail
  token,     \* by id
  worker,    \* a request under way
  applied,   \* history: how often each token was redeemed
  tick

accountVars == <<partner, member, token, worker, applied, tick>>

MemberRow == [partner : Partners \cup {Nobody}, role : MemberRoles,
              status : MemberStatuses, verified : BOOLEAN, version : 1..MaxVersion]

TokenRow == [email : Emails \cup {Nobody}, type : TokenTypes, expires : Nat, used : BOOLEAN]

Work == [pc : {"idle", "register", "invite", "update", "issue", "create", "redeem"},
         email : Emails \cup {Nobody}, partner : Partners \cup {Nobody},
         role : MemberRoles, status : MemberStatuses,
         fields : SUBSET {"role", "status"}, type : TokenTypes,
         retire : SUBSET TokenIds, token : TokenIds \cup {Nobody}]

NoMember == [partner |-> Nobody, role |-> "member", status |-> "pending_verification",
             verified |-> FALSE, version |-> 1]

NoToken == [email |-> Nobody, type |-> "password_reset", expires |-> 0, used |-> FALSE]

NoWork == [pc |-> "idle", email |-> Nobody, partner |-> Nobody, role |-> "member",
           status |-> "pending_verification", fields |-> {}, type |-> "password_reset",
           retire |-> {}, token |-> Nobody]

AccountsInit ==
  /\ partner = {}
  /\ member = [e \in Emails |-> NoMember]
  /\ token = [t \in TokenIds |-> NoToken]
  /\ worker = [w \in Workers |-> NoWork]
  /\ applied = [t \in TokenIds |-> 0]
  /\ tick = 0

Exists(e) == member[e].partner # Nobody

Issued(t) == token[t].email # Nobody

(* checkPermission(caller, "manage_members"): only an owner has it.         *)
HasTenantPermission(e) == Exists(e) /\ member[e].role = "owner"

(* A caller has an authenticated session, of an active member.              *)
CallerOwner(e) == HasTenantPermission(e) /\ member[e].status = "active"

Starts(w, work) == worker[w].pc = "idle" /\ worker' = [worker EXCEPT ![w] = work]

Ends(w) == worker' = [worker EXCEPT ![w] = NoWork]

-------------------------------------------------------------------------------
(* Registration: one transaction that inserts the partner, then its owner.  *)

(* The partner's row is inserted and seen by nobody else yet.               *)
CreatePartner(w, e, p) ==
  /\ p \notin partner /\ \A v \in Workers : worker[v].partner # p
  /\ Starts(w, [NoWork EXCEPT !.pc = "register", !.email = e, !.partner = p])
  /\ UNCHANGED <<partner, member, token, applied, tick>>

(* A taken e-mail rolls the whole transaction back.                         *)
Committed(w) == IF Exists(worker[w].email) THEN partner
                                           ELSE partner \cup {worker[w].partner}

CreateOwner(w) ==
  /\ worker[w].pc = "register"
  /\ partner' = Committed(w)
  /\ member' = IF Exists(worker[w].email) THEN member
               ELSE [member EXCEPT ![worker[w].email] =
                       [NoMember EXCEPT !.partner = worker[w].partner, !.role = "owner"]]
  /\ Ends(w)
  /\ UNCHANGED <<token, applied, tick>>

-------------------------------------------------------------------------------
(* What an owner does to other members of the partner.                      *)

InviteReads(w, caller, e, role) ==
  /\ CallerOwner(caller) /\ ~Exists(e)
  /\ Starts(w, [NoWork EXCEPT !.pc = "invite", !.email = e, !.role = role,
                              !.partner = member[caller].partner])
  /\ UNCHANGED <<partner, member, token, applied, tick>>

(* The unique index decides: the invitation that comes second fails.        *)
InviteCreates(w) ==
  /\ worker[w].pc = "invite"
  /\ member' = IF Exists(worker[w].email) THEN member
               ELSE [member EXCEPT ![worker[w].email] =
                       [NoMember EXCEPT !.partner = worker[w].partner,
                                        !.role = worker[w].role]]
  /\ Ends(w)
  /\ UNCHANGED <<partner, token, applied, tick>>

(* Nobody changes the own row.  Also the guard of a revocation.             *)
MayManage(caller, e) ==
  /\ CallerOwner(caller)
  /\ caller # e
  /\ Exists(e) /\ member[e].partner = member[caller].partner

(* A change of role, of status, or of both; what is not given stays as it   *)
(* is in the row when the statement runs.                                   *)
UpdateReads(w, caller, e, role, status, fields) ==
  /\ MayManage(caller, e)
  /\ Starts(w, [NoWork EXCEPT !.pc = "update", !.email = e, !.partner = member[e].partner,
                              !.role = role, !.status = status, !.fields = fields])
  /\ UNCHANGED <<partner, member, token, applied, tick>>

(* A revocation is the update to this status.                               *)
RevokedStatus == "disabled"

RevokeReads(w, caller, e) ==
  UpdateReads(w, caller, e, "member", RevokedStatus, {"status"})

UpdateWrites(w) ==
  LET e == worker[w].email IN
  /\ worker[w].pc = "update"
  /\ member' =
       [member EXCEPT
          ![e].role = IF "role" \in worker[w].fields THEN worker[w].role ELSE @,
          ![e].status = IF "status" \in worker[w].fields THEN worker[w].status ELSE @]
  /\ Ends(w)
  /\ UNCHANGED <<partner, token, applied, tick>>

-------------------------------------------------------------------------------
(* Tokens.                                                                  *)

Asks(w, e, type) ==
  /\ Exists(e)
  /\ Starts(w, [NoWork EXCEPT !.pc = "issue", !.email = e, !.type = type])
  /\ UNCHANGED <<partner, member, token, applied, tick>>

(* A verification is asked for by a pending member, a reset by any.         *)
RequestEmailVerification(w, e) ==
  member[e].status = "pending_verification" /\ Asks(w, e, "email_verification")

RequestPasswordReset(w, e) == Asks(w, e, "password_reset")

LiveTokens(e, type) ==
  {t \in TokenIds : token[t].email = e /\ token[t].type = type /\ ~token[t].used}

(* Rows an open transaction has updated: whoever wants them waits.          *)
LockedTokens == UNION {worker[w].retire : w \in Workers}

(* issue, first statement: retire the member's live tokens of this type.    *)
IssueRetires(w) ==
  LET live == LiveTokens(worker[w].email, worker[w].type) IN
  /\ worker[w].pc = "issue"
  /\ live \cap LockedTokens = {}
  /\ worker' = [worker EXCEPT ![w].pc = "create", ![w].retire = live]
  /\ UNCHANGED <<partner, member, token, applied, tick>>

IssueOneTimeToken(w) ==
  [email |-> worker[w].email, type |-> worker[w].type,
   expires |-> tick + Ttl[worker[w].type], used |-> FALSE]

(* Second statement and commit.  A token that another request inserted       *)
(* since the first statement is not retired.                                *)
IssueCreates(w, t) ==
  /\ worker[w].pc = "create" /\ ~Issued(t)
  /\ token' = [u \in TokenIds |->
                 IF u = t THEN IssueOneTimeToken(w)
                 ELSE IF u \in worker[w].retire THEN [token[u] EXCEPT !.used = TRUE]
                 ELSE token[u]]
  /\ Ends(w)
  /\ UNCHANGED <<partner, member, applied, tick>>

ConsumeOneTimeToken(t, type) ==
  /\ Issued(t) /\ token[t].type = type
  /\ ~token[t].used
  /\ tick < token[t].expires

FindByTokenHash(w, t) ==
  /\ Starts(w, [NoWork EXCEPT !.pc = "redeem", !.token = t, !.type = token[t].type,
                              !.email = token[t].email])
  /\ UNCHANGED <<partner, member, token, applied, tick>>

VerifyEmail(w, t) == ConsumeOneTimeToken(t, "email_verification") /\ FindByTokenHash(w, t)

ResetPasswordReads(w, t) == ConsumeOneTimeToken(t, "password_reset") /\ FindByTokenHash(w, t)

(* Mutant: the token is marked used whatever it was. *)
StillUnusedAny(w) == TRUE

(* updateMany where usedAt is null: the other request may have been first.  *)
StillUnused(w) == ~token[worker[w].token].used

Spend(w) ==
  /\ token' = [token EXCEPT ![worker[w].token].used = TRUE]
  /\ applied' = [applied EXCEPT ![worker[w].token] = @ + 1]

(* Mutant: a verified member becomes active whatever the status. *)
StatusOnceVerifiedAny(e) == "active"

(* Mutant: the column is given a status that it does not have. *)
StatusOnceVerifiedNew(e) == "verified"

(* Only a member that is still pending becomes active.                      *)
StatusOnceVerified(e) ==
  IF member[e].status = "pending_verification" THEN "active" ELSE member[e].status

ApplyEmailVerification(w) ==
  LET e == worker[w].email IN
  /\ worker[w].pc = "redeem" /\ worker[w].type = "email_verification"
  /\ worker[w].token \notin LockedTokens
  /\ IF StillUnused(w)
     THEN /\ Spend(w)
          /\ member' = [member EXCEPT ![e].verified = TRUE, ![e].status = StatusOnceVerified(e)]
     ELSE UNCHANGED <<token, applied, member>>
  /\ Ends(w)
  /\ UNCHANGED <<partner, tick>>

(* The new password, with the version that ends the sessions (Sessions).    *)
ApplyPasswordReset(w) ==
  LET e == worker[w].email IN
  /\ worker[w].pc = "redeem" /\ worker[w].type = "password_reset"
  /\ worker[w].token \notin LockedTokens
  /\ IF StillUnused(w)
     THEN /\ member[e].version < MaxVersion
          /\ Spend(w)
          /\ member' = [member EXCEPT ![e].version = @ + 1]
     ELSE UNCHANGED <<token, applied, member>>
  /\ Ends(w)
  /\ UNCHANGED <<partner, tick>>

(* The process dies: what was not committed is rolled back.                 *)
Dies(w) ==
  /\ worker[w].pc # "idle"
  /\ Ends(w)
  /\ UNCHANGED <<partner, member, token, applied, tick>>

Tick ==
  /\ tick < LastTick
  /\ tick' = tick + 1
  /\ UNCHANGED <<partner, member, token, worker, applied>>

Transacts(w) ==
  \/ CreateOwner(w) \/ InviteCreates(w) \/ UpdateWrites(w)
  \/ IssueRetires(w) \/ \E t \in TokenIds : IssueCreates(w, t)
  \/ ApplyEmailVerification(w) \/ ApplyPasswordReset(w)

(* The forms of the members page.                                           *)
OwnerBegins(w, c, e) ==
  \/ RevokeReads(w, c, e)
  \/ \E role \in GivenRoles :
       \/ InviteReads(w, c, e, role)
       \/ \E status \in GivenStatuses, fields \in SUBSET {"role", "status"} \ {{}} :
            UpdateReads(w, c, e, role, status, fields)

Begins(w) ==
  \/ \E e \in Emails, p \in Partners : CreatePartner(w, e, p)
  \/ \E c, e \in Emails : OwnerBegins(w, c, e)
  \/ \E e \in Emails : RequestEmailVerification(w, e) \/ RequestPasswordReset(w, e)
  \/ \E t \in TokenIds : VerifyEmail(w, t) \/ ResetPasswordReads(w, t)

AccountsNext == Tick \/ \E w \in Workers : Begins(w) \/ Transacts(w) \/ Dies(w)

AccountsSpec == AccountsInit /\ [][AccountsNext]_accountVars

-------------------------------------------------------------------------------
(* Properties.                                                              *)

AccountsTypeOK ==
  /\ partner \subseteq Partners
  /\ member \in [Emails -> MemberRow]
  /\ token \in [TokenIds -> TokenRow]
  /\ worker \in [Workers -> Work]
  /\ tick \in 0..LastTick

(* Two clicks on one link, or two links of one mail opened together, find    *)
(* the token unused both: it is still redeemed once only.                   *)
TokenSpentOnce == \A t \in TokenIds : applied[t] <= 1

(* A member comes back into service only by an owner's update: never by a    *)
(* verification that was under way when the member was disabled or           *)
(* suspended.                                                               *)
OwnerBrings(e) ==
  \E w \in Workers : /\ worker[w].pc = "update" /\ worker[w].email = e
                      /\ "status" \in worker[w].fields

DisabledStaysOut ==
  [][\A e \in Emails :
       member[e].status \in {"suspended", "disabled"} /\ member[e].status # member'[e].status
         => OwnerBrings(e)]_accountVars

===============================================================================
