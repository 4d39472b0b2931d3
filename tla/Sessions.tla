------------------------------- MODULE Sessions --------------------------------
(***************************************************************************)
(* The sessions of one account: a login reads the account, checks the      *)
(* password against what it read and creates the session later; a request   *)
(* finds its session with the account as it is then, and slides the idle    *)
(* expiry afterwards.  A password reset and a change of status may come     *)
(* between any two of these statements.                                     *)
(*                                                                         *)
(* The rate limits of a login are in RateLimit: a limited login changes     *)
(* nothing here, as one with a wrong password does not.  "password" in a    *)
(* session is the one its login presented; the code does not store it.      *)
(***************************************************************************)
EXTENDS Naturals, FiniteSetsExt

CONSTANTS
  SessionIds, Reqs, None,
  Statuses,       \* of an account
  LoginStatuses,  \* those that may log in
  IdleTtl, AbsoluteTtl,
  MaxResets,      \* bound on password resets
  MaxTime         \* bound on the clock

ASSUME SessionsAssumption ==
  /\ LoginStatuses \subseteq Statuses /\ LoginStatuses # {}
  /\ IdleTtl \in Nat \ {0} /\ AbsoluteTtl \in Nat \ {0} /\ IdleTtl <= AbsoluteTtl
  /\ MaxResets \in Nat /\ MaxTime \in Nat
  /\ None \notin SessionIds

VARIABLES account, session, req, now

sessionVars == <<account, session, req, now>>

Earlier(a, b) == IF a <= b THEN a ELSE b

Account == [password : 0..MaxResets, version : 1..(MaxResets + 1), status : Statuses]

Session == [used : BOOLEAN, version : 1..(MaxResets + 1), password : 0..MaxResets,
            expires : Nat, idle : Nat, revoked : BOOLEAN]

Request == [pc : {"idle", "login", "slide"}, version : 1..(MaxResets + 1),
            password : 0..MaxResets, session : SessionIds \cup {None}, to : Nat]

NoSession == [used |-> FALSE, version |-> 1, password |-> 0, expires |-> 0, idle |-> 0,
              revoked |-> FALSE]

Idle == [pc |-> "idle", version |-> 1, password |-> 0, session |-> None, to |-> 0]

SessionsInit ==
  /\ account \in {[password |-> 0, version |-> 1, status |-> st] : st \in LoginStatuses}
  /\ session = [s \in SessionIds |-> NoSession]
  /\ req = [q \in Reqs |-> Idle]
  /\ now = 0

CanLogin(status) == status \in LoginStatuses

-------------------------------------------------------------------------------
(* Login.                                                                   *)

(* Read, verify, decide: the principal carries the version that was read.   *)
LoginReads(q) ==
  /\ req[q].pc = "idle"
  /\ CanLogin(account.status)
  /\ req' = [req EXCEPT ![q] = [Idle EXCEPT !.pc = "login", !.version = account.version,
                                            !.password = account.password]]
  /\ UNCHANGED <<account, session, now>>

(* Mutant: the session is stamped with the account's version of this moment. *)
NewSessionNow(q) ==
  [used |-> TRUE, version |-> account.version, password |-> req[q].password,
   expires |-> now + AbsoluteTtl, idle |-> Earlier(now + IdleTtl, now + AbsoluteTtl),
   revoked |-> FALSE]

(* createSessionRecord                                                      *)
NewSession(q) ==
  [used |-> TRUE, version |-> req[q].version, password |-> req[q].password,
   expires |-> now + AbsoluteTtl, idle |-> Earlier(now + IdleTtl, now + AbsoluteTtl),
   revoked |-> FALSE]

LoginCreates(q, s) ==
  /\ req[q].pc = "login"
  /\ ~session[s].used
  /\ session' = [session EXCEPT ![s] = NewSession(q)]
  /\ req' = [req EXCEPT ![q] = Idle]
  /\ UNCHANGED <<account, now>>

(* One request of the login route: both statements.                         *)
LoginRequest(q) == LoginReads(q) \/ \E s \in SessionIds : LoginCreates(q, s)

-------------------------------------------------------------------------------
(* A request with a session.                                                *)

(* evaluateSession: still active.                                           *)
Evaluate(s) ==
  /\ session[s].used /\ ~session[s].revoked
  /\ now < session[s].expires /\ now < session[s].idle
  /\ session[s].version = account.version

Authenticated(s) == Evaluate(s) /\ CanLogin(account.status)

SlideTo(s) == Earlier(now + IdleTtl, session[s].expires)

Resolve(q, s) ==
  /\ req[q].pc = "idle"
  /\ Authenticated(s)
  /\ req' = [req EXCEPT ![q] = [Idle EXCEPT !.pc = "slide", !.session = s,
                                            !.to = SlideTo(s)]]
  /\ UNCHANGED <<account, session, now>>

(* Conditional on the session not being revoked meanwhile.                  *)
SlideIdleExpiry(q) ==
  LET s == req[q].session IN
  /\ req[q].pc = "slide"
  /\ session' = IF session[s].revoked THEN session
                ELSE [session EXCEPT ![s].idle = req[q].to]
  /\ req' = [req EXCEPT ![q] = Idle]
  /\ UNCHANGED <<account, now>>

RevokeByTokenHash(s) ==
  /\ session[s].used /\ ~session[s].revoked
  /\ session' = [session EXCEPT ![s].revoked = TRUE]

Logout(s) == RevokeByTokenHash(s) /\ UNCHANGED <<account, req, now>>

-------------------------------------------------------------------------------
(* What else writes the account: a reset bumps its version.                 *)

ResetPassword ==
  /\ account.password < MaxResets
  /\ account' = [account EXCEPT !.password = @ + 1, !.version = @ + 1]
  /\ UNCHANGED <<session, req, now>>

SetStatus(status) ==
  /\ account.status # status
  /\ account' = [account EXCEPT !.status = status]
  /\ UNCHANGED <<session, req, now>>

TimePasses ==
  /\ now < MaxTime
  /\ now' = now + 1
  /\ UNCHANGED <<account, session, req>>

SessionsNext ==
  \/ \E q \in Reqs : LoginRequest(q) \/ SlideIdleExpiry(q)
  \/ \E q \in Reqs, s \in SessionIds : Resolve(q, s)
  \/ \E s \in SessionIds : Logout(s)
  \/ ResetPassword
  \/ \E status \in Statuses : SetStatus(status)
  \/ TimePasses

SessionsSpec == SessionsInit /\ [][SessionsNext]_sessionVars

-------------------------------------------------------------------------------
(* Properties.                                                              *)

SessionsTypeOK ==
  /\ account \in Account /\ session \in [SessionIds -> Session]
  /\ req \in [Reqs -> Request] /\ now \in 0..MaxTime

(* A session that still authenticates was opened with the password the      *)
(* account has now: a reset ends every other one, also a session that a     *)
(* login checked before the reset and created after it.                     *)
ResetEndsSessions ==
  \A s \in SessionIds : Authenticated(s) => session[s].password = account.password

===============================================================================
