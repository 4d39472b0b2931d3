----------------------------- MODULE PeopleProofs ------------------------------
(***************************************************************************)
(* The safety properties of the modules about people and their access, for  *)
(* any sessions, members, tokens, administrators, counters and desks.       *)
(*                                                                         *)
(* Each part has an inductive invariant of its own (SessionsInv,            *)
(* AccountsInv, LifecycleInv, RateInv, AdminInv), proved of the             *)
(* specification of that part.  The parts share no state, so PeopleSpec,     *)
(* which TLC runs, is a run of each of them (PeopleSpecIsParts).            *)
(***************************************************************************)
EXTENDS MCAccounts, TLAPS, FiniteSetTheorems

-------------------------------------------------------------------------------
(* Sessions.                                                                *)

(* A version belongs to one password, wherever the two were copied to. *)
Stamped(x) == x.version = x.password + 1

SessionsInv ==
  /\ SessionsTypeOK
  /\ Stamped(account)
  /\ \A s \in SessionIds : session[s].used => Stamped(session[s])
  /\ \A q \in Reqs : req[q].pc = "login" => Stamped(req[q])

LEMMA SessionNulls == NoSession \in Session /\ Idle \in Request /\ Idle.pc = "idle"
  BY SessionsAssumption DEF NoSession, Session, Idle, Request

LEMMA SessionsInitInv == SessionsInit => SessionsInv
<1> SUFFICES ASSUME SessionsInit PROVE SessionsInv
  OBVIOUS
<1>1. SessionsTypeOK
  BY SessionNulls, SessionsAssumption DEF SessionsInit, SessionsTypeOK, Account
<1> QED BY <1>1, SessionsAssumption DEF SessionsInit, SessionsInv, Stamped, NoSession, Idle

(* Steps that write one request, and at most one session. *)
LEMMA SessionsFrame ==
  ASSUME SessionsInv, UNCHANGED <<account, now>>,
         NEW q \in Reqs, NEW r \in Request, req' = [req EXCEPT ![q] = r],
         r.pc = "login" => Stamped(r),
         session' \in [SessionIds -> Session],
         \A s \in SessionIds : session'[s].used => Stamped(session'[s])
  PROVE  SessionsInv'
<1>1. SessionsTypeOK'
  BY DEF SessionsInv, SessionsTypeOK
<1>2. \A p \in Reqs : req'[p].pc = "login" => Stamped(req'[p])
  BY DEF SessionsInv, SessionsTypeOK
<1> QED BY <1>1, <1>2 DEF SessionsInv, Stamped

LEMMA LoginInv ==
  ASSUME SessionsInv, NEW q \in Reqs, LoginRequest(q)
  PROVE  SessionsInv'
<1>0. /\ account \in Account /\ session \in [SessionIds -> Session]
      /\ req \in [Reqs -> Request] /\ req[q] \in Request /\ now \in Nat
  BY SessionsAssumption DEF SessionsInv, SessionsTypeOK
<1>1. CASE LoginReads(q)
  <2> DEFINE r == [Idle EXCEPT !.pc = "login", !.version = account.version,
                               !.password = account.password]
  <2>0. Stamped(account) /\ account.version \in 1..(MaxResets + 1)
        /\ account.password \in 0..MaxResets
    BY <1>0 DEF SessionsInv, Account
  <2>1. r \in Request /\ Stamped(r)
    BY <2>0, SessionNulls DEF Request, Idle, Stamped
  <2>2. req' = [req EXCEPT ![q] = r] /\ UNCHANGED <<account, session, now>>
    BY <1>1 DEF LoginReads
  <2> HIDE DEF r
  <2> QED BY <1>0, <2>1, <2>2, SessionsFrame DEF SessionsInv
<1>2. ASSUME NEW s \in SessionIds, LoginCreates(q, s) PROVE SessionsInv'
  <2> DEFINE rec == NewSession(q)
  <2>1. rec \in Session /\ Stamped(rec)
    <3>1. Earlier(now + IdleTtl, now + AbsoluteTtl) \in Nat /\ now + AbsoluteTtl \in Nat
      BY <1>0, SessionsAssumption DEF Earlier
    <3>2. Stamped(req[q])
      BY <1>2 DEF LoginCreates, SessionsInv
    <3> DEFINE idle == Earlier(now + IdleTtl, now + AbsoluteTtl)
               expires == now + AbsoluteTtl
    <3>3. rec = [used |-> TRUE, version |-> req[q].version, password |-> req[q].password,
                 expires |-> expires, idle |-> idle, revoked |-> FALSE]
      BY DEF NewSession
    <3> HIDE DEF rec, idle, expires
    <3>4. req[q].version \in 1..(MaxResets + 1) /\ req[q].password \in 0..MaxResets
      BY <1>0 DEF Request
    <3>5. idle \in Nat /\ expires \in Nat
      BY <3>1 DEF idle, expires
    <3>6. rec \in Session
      BY <3>3, <3>4, <3>5 DEF Session
    <3> QED BY <3>2, <3>3, <3>6 DEF Stamped
  <2>2. session' = [session EXCEPT ![s] = rec] /\ req' = [req EXCEPT ![q] = Idle]
        /\ UNCHANGED <<account, now>>
    BY <1>2 DEF LoginCreates
  <2> HIDE DEF rec
  <2>3. session' \in [SessionIds -> Session]
    BY <1>0, <2>1, <2>2
  <2>4. \A x \in SessionIds : session'[x].used => Stamped(session'[x])
    <3>1. \A x \in SessionIds : session'[x] = rec \/ session'[x] = session[x]
      BY <1>0, <2>2
    <3> QED BY <2>1, <3>1 DEF SessionsInv
  <2> QED BY <2>2, <2>3, <2>4, SessionNulls, SessionsFrame DEF SessionsInv
<1> QED BY <1>1, <1>2 DEF LoginRequest

LEMMA UseInv ==
  ASSUME SessionsInv, NEW q \in Reqs,
         SlideIdleExpiry(q) \/ \E s \in SessionIds : Resolve(q, s)
  PROVE  SessionsInv'
<1>0. /\ session \in [SessionIds -> Session]
      /\ req \in [Reqs -> Request] /\ req[q] \in Request /\ now \in Nat
  BY SessionsAssumption DEF SessionsInv, SessionsTypeOK
<1>1. CASE SlideIdleExpiry(q)
  <2>1. /\ session' \in [SessionIds -> Session]
        /\ \A x \in SessionIds : session'[x].used = session[x].used
                                 /\ session'[x].version = session[x].version
                                 /\ session'[x].password = session[x].password
    <3>1. CASE session' = session
      BY <1>0, <3>1
    <3>2. CASE session' = [session EXCEPT ![req[q].session].idle = req[q].to]
      <4>1. req[q].to \in Nat
        BY <1>0 DEF Request
      <4>2. ASSUME NEW x \in SessionIds
            PROVE  /\ session'[x] \in Session
                   /\ session'[x].used = session[x].used
                   /\ session'[x].version = session[x].version
                   /\ session'[x].password = session[x].password
        <5>1. \/ session'[x] = session[x]
              \/ session'[x] = [session[x] EXCEPT !.idle = req[q].to]
          BY <1>0, <3>2
        <5>2. session[x] \in Session
          BY <1>0
        <5> QED BY <4>1, <5>1, <5>2 DEF Session
      <4>3. DOMAIN session' = SessionIds /\ session' = [x \in SessionIds |-> session'[x]]
        BY <1>0, <3>2
      <4> QED BY <4>2, <4>3
    <3> QED BY <1>1, <3>1, <3>2 DEF SlideIdleExpiry
  <2>2. \A x \in SessionIds : session'[x].used => Stamped(session'[x])
    BY <2>1 DEF SessionsInv, Stamped
  <2>3. req' = [req EXCEPT ![q] = Idle] /\ UNCHANGED <<account, now>>
    BY <1>1 DEF SlideIdleExpiry
  <2> QED BY <2>1, <2>2, <2>3, SessionNulls, SessionsFrame
<1>2. ASSUME NEW s \in SessionIds, Resolve(q, s) PROVE SessionsInv'
  <2> DEFINE to == SlideTo(s)
             r == [Idle EXCEPT !.pc = "slide", !.session = s, !.to = to]
  <2>1. to \in Nat
    <3>1. session[s].expires \in Nat /\ now + IdleTtl \in Nat
      BY <1>0, SessionsAssumption DEF Session
    <3> QED BY <3>1 DEF SlideTo, Earlier
  <2>2. req' = [req EXCEPT ![q] = r] /\ UNCHANGED <<account, session, now>>
    BY <1>2 DEF Resolve
  <2> HIDE DEF to
  <2>3. r \in Request /\ r.pc = "slide"
    BY <2>1, SessionNulls DEF Request, Idle
  <2> HIDE DEF r
  <2> QED BY <1>0, <2>2, <2>3, SessionsFrame DEF SessionsInv
<1> QED BY <1>1, <1>2

LEMMA AccountInv ==
  ASSUME SessionsInv,
         \/ ResetPassword \/ TimePasses
         \/ \E st \in Statuses : SetStatus(st)
         \/ \E s \in SessionIds : Logout(s)
  PROVE  SessionsInv'
<1>0. account \in Account /\ session \in [SessionIds -> Session] /\ now \in 0..MaxTime
  BY DEF SessionsInv, SessionsTypeOK
<1>1. CASE ResetPassword
  <2> DEFINE p == account.password + 1
             v == account.version + 1
             rec == [account EXCEPT !.password = p, !.version = v]
  <2>1. p \in 0..MaxResets /\ v \in 1..(MaxResets + 1) /\ v = p + 1
    BY <1>0, <1>1, SessionsAssumption DEF ResetPassword, Account, SessionsInv, Stamped
  <2>2. account' = rec /\ UNCHANGED <<session, req, now>>
    BY <1>1 DEF ResetPassword
  <2> HIDE DEF p, v
  <2>3. rec \in Account /\ Stamped(rec)
    BY <1>0, <2>1 DEF Account, Stamped
  <2> HIDE DEF rec
  <2> QED BY <2>2, <2>3 DEF SessionsInv, SessionsTypeOK
<1>2. CASE TimePasses
  BY <1>0, <1>2, SessionsAssumption DEF TimePasses, SessionsInv, SessionsTypeOK, Stamped
<1>3. ASSUME NEW st \in Statuses, SetStatus(st) PROVE SessionsInv'
  <2> DEFINE rec == [account EXCEPT !.status = st]
  <2>1. rec \in Account /\ Stamped(rec)
    BY <1>0 DEF Account, Stamped, SessionsInv
  <2>2. account' = rec /\ UNCHANGED <<session, req, now>>
    BY <1>3 DEF SetStatus
  <2> HIDE DEF rec
  <2> QED BY <2>1, <2>2 DEF SessionsInv, SessionsTypeOK
<1>4. ASSUME NEW s \in SessionIds, Logout(s) PROVE SessionsInv'
  <2>1. session' = [session EXCEPT ![s].revoked = TRUE] /\ UNCHANGED <<account, req, now>>
    BY <1>4 DEF Logout, RevokeByTokenHash
  <2>2. /\ session' \in [SessionIds -> Session]
        /\ \A x \in SessionIds : session'[x].used = session[x].used
                                 /\ session'[x].version = session[x].version
                                 /\ session'[x].password = session[x].password
    BY <1>0, <2>1 DEF Session
  <2> QED BY <2>1, <2>2 DEF SessionsInv, SessionsTypeOK, Stamped
<1> QED BY <1>1, <1>2, <1>3, <1>4

LEMMA SessionsNextInv == SessionsInv /\ [SessionsNext]_sessionVars => SessionsInv'
<1>1. ASSUME SessionsInv, UNCHANGED sessionVars PROVE SessionsInv'
  BY <1>1 DEF sessionVars, SessionsInv, SessionsTypeOK, Stamped
<1> QED BY <1>1, LoginInv, UseInv, AccountInv DEF SessionsNext

(* Accounts, sessions and requests stay well formed, and wherever a session *)
(* or a login carries a version, it is the one of its password.             *)
THEOREM SessionsInvariance == SessionsSpec => []SessionsInv
BY SessionsInitInv, SessionsNextInv, PTL DEF SessionsSpec

(* A session that authenticates was opened with the account's password of   *)
(* now, whatever logins were under way at a reset.                          *)
THEOREM ResetEnds == SessionsSpec => []ResetEndsSessions
<1>1. SessionsInv => ResetEndsSessions
  BY DEF SessionsInv, SessionsTypeOK, Account, Session, Stamped, ResetEndsSessions,
         Authenticated, Evaluate
<1> QED BY <1>1, SessionsInvariance, PTL

-------------------------------------------------------------------------------
(* The status of a partner and its trail.                                   *)

LifecycleInv ==
  /\ LifecycleTypeOK
  /\ \A a \in Admins : reviewing[a] # NoReview =>
       <<reviewing[a].from, reviewing[a].to>> \in AllowedTransitions
  /\ TrailIsConnected

LEMMA LifecycleInitInv == LifecycleInit => LifecycleInv
<1> SUFFICES ASSUME LifecycleInit PROVE LifecycleInv
  OBVIOUS
<1>1. NoReview \in Review
  BY DEF NoReview, Review, PartnerStatuses
<1>2. LifecycleTypeOK
  BY <1>1 DEF LifecycleInit, LifecycleTypeOK, PartnerStatuses
<1>3. TrailIsConnected
  BY DEF LifecycleInit, TrailIsConnected
<1> QED BY <1>2, <1>3 DEF LifecycleInit, LifecycleInv

(* A move that starts at the status the partner has continues the trail. *)
LEMMA TrailGrows ==
  ASSUME LifecycleTypeOK, TrailIsConnected, NEW m \in Review,
         <<m.from, m.to>> \in AllowedTransitions, m.from = status,
         trail' = Append(trail, m), status' = m.to
  PROVE  TrailIsConnected'
<1>1. trail \in Seq(Review) /\ Len(trail) \in Nat
  BY DEF LifecycleTypeOK
<1>2. /\ Len(trail') = Len(trail) + 1 /\ trail' # <<>>
      /\ trail'[Len(trail) + 1] = m
      /\ \A i \in 1..Len(trail) : trail'[i] = trail[i]
  BY <1>1
<1>3. m.from = IF Len(trail) + 1 = 1 THEN "pending" ELSE trail[Len(trail)].to
  <2>1. CASE trail = <<>>
    BY <2>1 DEF TrailIsConnected
  <2>2. CASE trail # <<>>
    <3>1. Len(trail) # 0
      BY <1>1, <2>2
    <3> QED BY <1>1, <2>2, <3>1 DEF TrailIsConnected
  <2> QED BY <2>1, <2>2
<1>4. ASSUME NEW i \in 1..Len(trail')
      PROVE  /\ <<trail'[i].from, trail'[i].to>> \in AllowedTransitions
             /\ trail'[i].from = IF i = 1 THEN "pending" ELSE trail'[i - 1].to
  <2>1. CASE i = Len(trail) + 1
    <3>1. i # 1 => i - 1 \in 1..Len(trail) /\ i - 1 = Len(trail)
      BY <1>1, <1>2, <2>1
    <3> QED BY <1>2, <1>3, <2>1, <3>1
  <2>2. CASE i # Len(trail) + 1
    <3>1. i \in 1..Len(trail) /\ (i # 1 => i - 1 \in 1..Len(trail))
      BY <1>1, <1>2, <2>2
    <3> QED BY <1>2, <3>1 DEF TrailIsConnected
  <2> QED BY <2>1, <2>2
<1>5. status' = trail'[Len(trail')].to
  BY <1>2
<1> QED BY <1>2, <1>4, <1>5 DEF TrailIsConnected

LEMMA LoadStatusInv ==
  ASSUME LifecycleInv, NEW a \in Admins, NEW command \in LifecycleCommands,
         LoadStatus(a, command)
  PROVE  LifecycleInv'
<1> DEFINE m == [from |-> status, to |-> To[command]]
<1>1. m \in Review /\ <<m.from, m.to>> \in AllowedTransitions
  BY DEF LoadStatus, LifecycleInv, LifecycleTypeOK, Review, PartnerStatuses, LifecycleCommands,
         To
<1>2. reviewing' = [reviewing EXCEPT ![a] = m] /\ UNCHANGED <<status, trail>>
  BY DEF LoadStatus
<1> HIDE DEF m
<1> QED BY <1>1, <1>2 DEF LifecycleInv, LifecycleTypeOK, TrailIsConnected

LEMMA UpdateStatusInv ==
  ASSUME LifecycleInv, NEW a \in Admins, UpdateStatus(a)
  PROVE  LifecycleInv'
<1> DEFINE m == reviewing[a]
<1>0. /\ reviewing \in [Admins -> Review] /\ trail \in Seq(Review) /\ m \in Review
      /\ NoReview \in Review /\ reviewing' = [reviewing EXCEPT ![a] = NoReview]
  BY DEF LifecycleInv, LifecycleTypeOK, NoReview, Review, PartnerStatuses, UpdateStatus
<1>1. reviewing' \in [Admins -> Review] /\ \A b \in Admins : reviewing'[b] # NoReview =>
        <<reviewing'[b].from, reviewing'[b].to>> \in AllowedTransitions
  BY <1>0 DEF LifecycleInv
<1>2. CASE StillExpected(a)
  <2>1. status' = m.to /\ trail' = Append(trail, m) /\ m.from = status
        /\ <<m.from, m.to>> \in AllowedTransitions
    BY <1>2 DEF UpdateStatus, StillExpected, LifecycleInv
  <2>2. TrailIsConnected'
    BY <1>0, <2>1, TrailGrows DEF LifecycleInv
  <2>3. status' \in PartnerStatuses /\ trail' \in Seq(Review)
    BY <1>0, <2>1 DEF Review
  <2> QED BY <1>1, <2>2, <2>3 DEF LifecycleInv, LifecycleTypeOK
<1>3. CASE ~StillExpected(a)
  <2>1. UNCHANGED <<status, trail>>
    BY <1>3 DEF UpdateStatus
  <2> QED BY <1>1, <2>1 DEF LifecycleInv, LifecycleTypeOK, TrailIsConnected
<1> QED BY <1>2, <1>3

LEMMA LifecycleNextInv == LifecycleInv /\ [LifecycleNext]_lifecycleVars => LifecycleInv'
<1>1. ASSUME LifecycleInv, UNCHANGED lifecycleVars PROVE LifecycleInv'
  BY <1>1 DEF lifecycleVars, LifecycleInv, LifecycleTypeOK, TrailIsConnected
<1> QED BY <1>1, LoadStatusInv, UpdateStatusInv DEF LifecycleNext

(* Administrators decide on allowed moves only, and the trail is connected. *)
THEOREM LifecycleInvariance == LifecycleSpec => []LifecycleInv
BY LifecycleInitInv, LifecycleNextInv, PTL DEF LifecycleSpec

(* The audit events of a partner tell one story, whatever administrators     *)
(* decide at the same time.                                                 *)
THEOREM TrailConnects == LifecycleSpec => []TrailIsConnected
<1>1. LifecycleInv => TrailIsConnected
  BY DEF LifecycleInv
<1> QED BY <1>1, LifecycleInvariance, PTL

-------------------------------------------------------------------------------
(* Rate limits.                                                             *)

LEMMA MaxOfTwo ==
  ASSUME NEW a \in Int, NEW b \in Int
  PROVE  Max({a, b}) \in {a, b} /\ Max({a, b}) >= a /\ Max({a, b}) >= b
<1>1. \E x \in {a, b} : \A y \in {a, b} : x >= y
  OBVIOUS
<1>2. \A y \in {a, b} : Max({a, b}) >= y
  BY <1>1 DEF Max
<1>3. Max({a, b}) \in {a, b}
  BY <1>1 DEF Max
<1> QED BY <1>2, <1>3

(* A counter that blocks its key has counted something. *)
Counted(k) == k.blocked # 0 => k.count >= 1

RateInv ==
  /\ RateTypeOK
  /\ Counted(row.counter)
  /\ ~row.there => row = NoRow
  /\ \A c \in Callers : caller[c].pc = "adds" => caller[c].counter.count >= 1
  /\ NoEventLost

LEMMA RateNulls ==
  /\ EmptyCounter \in WindowCounter /\ NoRow \in Row /\ Counted(EmptyCounter)
  /\ NoRow.counter = EmptyCounter /\ NoRow.there = FALSE
  BY RateLimitAssumption DEF EmptyCounter, WindowCounter, NoRow, Row, Counted

LEMMA RateInitInv == RateInit => RateInv
<1> SUFFICES ASSUME RateInit PROVE RateInv
  OBVIOUS
<1>1. RateTypeOK
  BY RateNulls, RateLimitAssumption DEF RateInit, RateTypeOK, CallerState
<1> QED BY <1>1, RateNulls DEF RateInit, RateInv, NoEventLost

(* The counter the store answers with. *)
LEMMA GetTyped ==
  ASSUME RateInv
  PROVE  Get \in WindowCounter /\ Counted(Get)
<1>1. row.counter \in WindowCounter
  BY DEF RateInv, RateTypeOK, Row
<1> QED BY <1>1, RateNulls DEF RateInv, Get

(* An event more leaves a well-formed counter with at least one event. *)
LEMMA Registered ==
  ASSUME RateInv, NEW k \in WindowCounter, Counted(k), k.count < MaxCount
  PROVE  RegisterEvent(k) \in WindowCounter /\ RegisterEvent(k).count >= 1
<1> DEFINE active == NormalizeCounter(k)
<1>0. time \in 0..Horizon /\ Horizon \in Nat /\ Cooldown \in Nat /\ MaxCount \in Nat
  BY RateLimitAssumption DEF RateInv, RateTypeOK
<1>1. active \in {k, EmptyCounter}
  BY DEF NormalizeCounter
<1>2. active \in WindowCounter /\ Counted(active)
  BY <1>1, RateNulls
<1>3. active.count < MaxCount
  <2>1. k.count \in 0..MaxCount /\ EmptyCounter.count = 0
    BY DEF WindowCounter, EmptyCounter
  <2> QED BY <1>0, <1>1, <2>1
<1> HIDE DEF active
<1>4. CASE active.blocked # 0
  <2>1. RegisterEvent(k) = active
    BY <1>4 DEF RegisterEvent, active
  <2> QED BY <1>2, <1>4, <2>1 DEF Counted
<1>5. CASE active.blocked = 0
  <2> DEFINE count == active.count + 1
             start == IF active.count = 0 THEN time ELSE active.start
             blocked == IF count >= Limit /\ Cooldown > 0 THEN time + Cooldown ELSE 0
  <2>1. RegisterEvent(k) = [count |-> count, start |-> start, blocked |-> blocked]
    BY <1>5 DEF RegisterEvent, active
  <2>2. active.count \in 0..MaxCount /\ active.start \in 0..Horizon
    BY <1>2 DEF WindowCounter
  <2>3. count \in 0..MaxCount /\ count >= 1 /\ start \in 0..Horizon
        /\ blocked \in 0..(Horizon + Cooldown)
    BY <1>0, <1>3, <2>2
  <2> HIDE DEF count, start, blocked
  <2> QED BY <2>1, <2>3 DEF WindowCounter
<1> QED BY <1>4, <1>5

(* The expiry of a counter is in range. *)
LEMMA ExpiryTyped ==
  ASSUME NEW k \in WindowCounter
  PROVE  ExpiryFor(k) \in 0..(Horizon + Window + Cooldown)
<1>1. k.start \in 0..Horizon /\ k.blocked \in 0..(Horizon + Cooldown)
      /\ Horizon \in Nat /\ Window \in Nat /\ Cooldown \in Nat
  BY RateLimitAssumption DEF WindowCounter
<1> DEFINE a == k.start + Window  b == k.blocked
<1>2. a \in 0..(Horizon + Window + Cooldown) /\ b \in 0..(Horizon + Window + Cooldown)
  BY <1>1
<1>3. a \in Int /\ b \in Int
  BY <1>1
<1>4. Max({a, b}) \in {a, b}
  <2> HIDE DEF a, b
  <2> QED BY <1>3, MaxOfTwo
<1> HIDE DEF a, b
<1> QED BY <1>2, <1>4 DEF ExpiryFor, a, b

(* The merge into a live row: one event more, and no shorter block. *)
LEMMA Merged ==
  ASSUME RateInv, NEW k \in WindowCounter, row.counter.count < MaxCount
  PROVE  LET m == Merge(k, ExpiryFor(k)) IN
         /\ m \in Row /\ m.there
         /\ m.counter.count = row.counter.count + 1
         /\ m.counter.blocked >= row.counter.blocked
<1> DEFINE expires == Max({row.expires, ExpiryFor(k)})
           blocked == Max({row.counter.blocked, k.blocked})
           count == row.counter.count + 1
           counter == [count |-> count, start |-> row.counter.start, blocked |-> blocked]
           m == Merge(k, ExpiryFor(k))
<1>0. row \in Row /\ row.counter \in WindowCounter
  BY DEF RateInv, RateTypeOK, Row
<1>1. /\ row.expires \in 0..(Horizon + Window + Cooldown)
      /\ ExpiryFor(k) \in 0..(Horizon + Window + Cooldown)
      /\ row.counter.blocked \in 0..(Horizon + Cooldown) /\ k.blocked \in 0..(Horizon + Cooldown)
      /\ row.counter.count \in 0..MaxCount /\ row.counter.start \in 0..Horizon
      /\ MaxCount \in Nat
  BY <1>0, ExpiryTyped, RateLimitAssumption DEF Row, WindowCounter
<1>2. expires \in 0..(Horizon + Window + Cooldown)
  <2>0. row.expires \in Int /\ ExpiryFor(k) \in Int
    BY <1>1
  <2>1. expires \in {row.expires, ExpiryFor(k)}
    BY <2>0, MaxOfTwo
  <2> HIDE DEF expires
  <2> QED BY <1>1, <2>1
<1>3. blocked \in 0..(Horizon + Cooldown) /\ blocked >= row.counter.blocked
  <2>1. blocked \in {row.counter.blocked, k.blocked} /\ blocked >= row.counter.blocked
    BY <1>1, MaxOfTwo
  <2> HIDE DEF blocked
  <2> QED BY <1>1, <2>1
<1>4. count \in 0..MaxCount /\ count = row.counter.count + 1
  BY <1>1
<1>5. m = [there |-> TRUE, counter |-> counter, expires |-> expires]
  BY DEF Merge
<1> HIDE DEF expires, blocked, count, m
<1>6. counter \in WindowCounter /\ counter.count = count /\ counter.blocked = blocked
  BY <1>1, <1>3, <1>4 DEF WindowCounter
<1> HIDE DEF counter
<1>7. m \in Row /\ m.there /\ m.counter = counter
  BY <1>2, <1>5, <1>6 DEF Row
<1> QED BY <1>3, <1>4, <1>6, <1>7 DEF m

(* A step that changes one caller only. *)
LEMMA CallerFrame ==
  ASSUME RateInv, NEW c \in Callers, NEW s \in CallerState, caller' = [caller EXCEPT ![c] = s],
         s.pc = "adds" => s.counter.count >= 1,
         UNCHANGED <<row, events, time>>
  PROVE  RateInv'
<1>1. RateTypeOK'
  BY DEF RateInv, RateTypeOK
<1>2. \A d \in Callers : caller'[d].pc = "adds" => caller'[d].counter.count >= 1
  BY DEF RateInv, RateTypeOK
<1> QED BY <1>1, <1>2 DEF RateInv, NoEventLost, Counted

LEMMA ReadsInv ==
  ASSUME RateInv, NEW c \in Callers, Check(c) \/ PenalizeReads(c) \/ ConsumeReads(c)
  PROVE  RateInv'
<1>0. caller \in [Callers -> CallerState] /\ caller[c] \in CallerState
  BY DEF RateInv, RateTypeOK
<1>1. CASE Check(c)
  <2> DEFINE s == [caller[c] EXCEPT !.pc = "checked"]
  <2>1. s \in CallerState /\ s.pc = "checked"
    BY <1>0 DEF CallerState
  <2>2. caller' = [caller EXCEPT ![c] = s] /\ UNCHANGED <<row, events, time>>
    BY <1>0, <1>1 DEF Check
  <2> HIDE DEF s
  <2> QED BY <2>1, <2>2, CallerFrame
<1>2. CASE PenalizeReads(c) \/ ConsumeReads(c)
  <2> DEFINE k == RegisterEvent(Get)
             s == [pc |-> "adds", counter |-> k]
  <2>1. k \in WindowCounter /\ k.count >= 1
    BY <1>2, GetTyped, Registered DEF PenalizeReads, ConsumeReads
  <2>2. caller' = [caller EXCEPT ![c] = s] /\ UNCHANGED <<row, events, time>>
    BY <1>2 DEF PenalizeReads, ConsumeReads
  <2> HIDE DEF k
  <2>3. s \in CallerState /\ s.counter.count >= 1
    BY <2>1 DEF CallerState
  <2> HIDE DEF s
  <2> QED BY <2>2, <2>3, CallerFrame
<1> QED BY <1>1, <1>2

LEMMA AddsEventInv ==
  ASSUME RateInv, NEW c \in Callers, AddsEvent(c)
  PROVE  RateInv'
<1> DEFINE k == caller[c].counter
           s == [pc |-> "idle", counter |-> EmptyCounter]
<1>0. /\ caller \in [Callers -> CallerState] /\ k \in WindowCounter /\ k.count >= 1
      /\ row \in Row /\ row.counter.count \in Nat /\ events \in Nat
  BY DEF RateInv, RateTypeOK, CallerState, AddsEvent, Row, WindowCounter
<1>1. s \in CallerState /\ s.pc = "idle"
  BY RateNulls DEF CallerState
<1>2. caller' = [caller EXCEPT ![c] = s] /\ time' = time /\ row.counter.count < MaxCount /\ Set(k)
  BY DEF AddsEvent
<1> HIDE DEF s, k
<1>3. caller' \in [Callers -> CallerState]
      /\ \A d \in Callers : caller'[d].pc = "adds" => caller'[d].counter.count >= 1
  BY <1>0, <1>1, <1>2 DEF RateInv
<1>4. row' \in Row /\ row'.there /\ events' \in Nat
      /\ row'.counter.count >= events' /\ row'.counter.count >= 1
  <2>1. CASE LiveRow
    <3>1. row' = Merge(k, ExpiryFor(k)) /\ events' = events + 1
      BY <1>2, <2>1 DEF Set
    <3>2. row'.counter.count = row.counter.count + 1 /\ row' \in Row /\ row'.there
      BY <1>0, <1>2, <3>1, Merged
    <3>3. row.counter.count >= events
      BY <2>1 DEF RateInv, NoEventLost, LiveRow
    <3> QED BY <1>0, <3>1, <3>2, <3>3
  <2>2. CASE ~LiveRow
    <3> DEFINE e == ExpiryFor(k)
    <3>1. row' = [there |-> TRUE, counter |-> k, expires |-> e] /\ events' = 1
      BY <1>2, <2>2 DEF Set, Fresh
    <3>2. e \in 0..(Horizon + Window + Cooldown)
      BY <1>0, ExpiryTyped
    <3> HIDE DEF e
    <3> QED BY <1>0, <3>1, <3>2 DEF Row
  <2> QED BY <2>1, <2>2
<1> QED BY <1>2, <1>3, <1>4 DEF RateInv, RateTypeOK, NoEventLost, Counted

LEMMA ClearsInv ==
  ASSUME RateInv, PruneLists \/ PruneDeletes \/ \E c \in Callers : Clear(c)
  PROVE  RateInv'
<1>1. CASE PruneLists
  BY <1>1 DEF PruneLists, RateInv, RateTypeOK, NoEventLost, Counted
<1>2. CASE PruneDeletes
  BY <1>2, RateNulls DEF PruneDeletes, RateInv, RateTypeOK, NoEventLost, Counted
<1>3. ASSUME NEW c \in Callers, Clear(c) PROVE RateInv'
  <2>0. caller \in [Callers -> CallerState] /\ caller[c] \in CallerState
    BY DEF RateInv, RateTypeOK
  <2> DEFINE s == [caller[c] EXCEPT !.pc = "idle"]
  <2>1. s \in CallerState /\ s.pc = "idle"
    BY <2>0 DEF CallerState
  <2>2. caller' = [caller EXCEPT ![c] = s] /\ row' = NoRow /\ events' = 0 /\ time' = time
    BY <1>3, <2>0 DEF Clear
  <2> HIDE DEF s
  <2>3. caller' \in [Callers -> CallerState]
        /\ \A d \in Callers : caller'[d].pc = "adds" => caller'[d].counter.count >= 1
    BY <2>0, <2>1, <2>2 DEF RateInv
  <2> QED BY <2>2, <2>3, RateNulls DEF RateInv, RateTypeOK, NoEventLost, Counted
<1> QED BY <1>1, <1>2, <1>3

LEMMA RateNextInv == RateInv /\ [RateNext]_rateVars => RateInv'
<1>1. ASSUME RateInv, TimeGoesOn PROVE RateInv'
  BY <1>1, RateLimitAssumption DEF TimeGoesOn, RateInv, RateTypeOK, NoEventLost, Counted
<1>2. ASSUME RateInv, UNCHANGED rateVars PROVE RateInv'
  BY <1>2 DEF rateVars, RateInv, RateTypeOK, NoEventLost, Counted
<1> QED BY <1>1, <1>2, ReadsInv, AddsEventInv, ClearsInv DEF RateNext

(* The counter stays well formed, and what a request adds is an event. *)
THEOREM RateInvariance == RateSpec => []RateInv
BY RateInitInv, RateNextInv, PTL DEF RateSpec

(* The row counts every event, however stale what the requests read. *)
THEOREM EventsAreCounted == RateSpec => []NoEventLost
<1>1. RateInv => NoEventLost
  BY DEF RateInv
<1> QED BY <1>1, RateInvariance, PTL

(* No write shortens the block of a live row. *)
THEOREM BlocksHold == RateSpec => BlockHolds
<1>1. RateInv /\ [RateNext]_rateVars =>
        [LiveRow /\ row.counter.blocked > time /\ row'.there
           => row'.counter.blocked >= row.counter.blocked]_rateVars
  <2> SUFFICES ASSUME RateInv, RateNext, LiveRow, row'.there
               PROVE  row'.counter.blocked >= row.counter.blocked
    OBVIOUS
  <2>0. row.counter.blocked \in Nat
    BY RateLimitAssumption DEF RateInv, RateTypeOK, Row, WindowCounter
  <2>1. CASE row' = row
    BY <2>0, <2>1
  <2>2. ASSUME NEW c \in Callers, AddsEvent(c)
        PROVE  row'.counter.blocked >= row.counter.blocked
    <3>1. caller[c].counter \in WindowCounter
      BY DEF RateInv, RateTypeOK, CallerState
    <3> QED BY <2>2, <3>1, Merged DEF AddsEvent, Set
  <2>3. ASSUME PruneDeletes \/ \E c \in Callers : Clear(c) PROVE FALSE
    BY <2>3, RateNulls DEF PruneDeletes, Clear
  <2> QED BY <2>1, <2>2, <2>3
          DEF RateNext, Check, PenalizeReads, ConsumeReads, PruneLists, TimeGoesOn
<1> QED BY <1>1, RateInvariance, PTL DEF RateSpec, BlockHolds

-------------------------------------------------------------------------------
(* Members and their tokens.                                                *)

(* A member that does not exist has no status of its own yet. *)
AbsentIsPending == \A e \in Emails : ~Exists(e) => member[e].status = "pending_verification"

(* A token is some member's. *)
TokensHaveOwners == \A t \in TokenIds : Issued(t) => Exists(token[t].email)

(* A request that found its member, or its token, finds it again. *)
Finds(k) ==
  /\ k.pc \in {"update", "issue", "create", "redeem"} => k.email \in Emails /\ Exists(k.email)
  /\ k.pc = "redeem" => k.token \in TokenIds /\ Issued(k.token)
  /\ k.pc = "register" => k.partner \in Partners

(* A token that was redeemed is issued and used. *)
Redeemed ==
  \A t \in TokenIds : \/ applied[t] = 0
                      \/ Issued(t) /\ token[t].used /\ applied[t] = 1

AccountsInv ==
  /\ AccountsTypeOK
  /\ AbsentIsPending /\ TokensHaveOwners
  /\ \A w \in Workers : Finds(worker[w])
  /\ applied \in [TokenIds -> Nat] /\ Redeemed

LEMMA AccountNulls ==
  /\ NoMember \in MemberRow /\ NoToken \in TokenRow /\ NoWork \in Work
  /\ NoWork.pc = "idle"
<1>1. 1 \in 1..MaxVersion
  BY AccountsAssumption
<1>2. NoMember \in MemberRow
  BY <1>1 DEF NoMember, MemberRow, MemberRoles, MemberStatuses
<1>3. NoToken \in TokenRow
  BY DEF NoToken, TokenRow, TokenTypes
<1>4. NoWork \in Work /\ NoWork.pc = "idle"
  BY DEF NoWork, Work, MemberRoles, MemberStatuses, TokenTypes
<1> QED BY <1>2, <1>3, <1>4

LEMMA AccountsInitInv == AccountsInit => AccountsInv
<1> SUFFICES ASSUME AccountsInit PROVE AccountsInv
  OBVIOUS
<1>1. AccountsTypeOK /\ applied \in [TokenIds -> Nat]
  BY AccountNulls, AccountsAssumption DEF AccountsInit, AccountsTypeOK
<1>2. AbsentIsPending
  BY DEF AccountsInit, AbsentIsPending, NoMember
<1>3. TokensHaveOwners
  BY DEF AccountsInit, TokensHaveOwners, Issued, NoToken
<1>4. \A w \in Workers : Finds(worker[w])
  BY AccountNulls DEF AccountsInit, Finds
<1>5. Redeemed
  <2>1. \A t \in TokenIds : applied[t] = 0
    BY DEF AccountsInit
  <2> QED BY <2>1 DEF Redeemed
<1> QED BY <1>1, <1>2, <1>3, <1>4, <1>5 DEF AccountsInv

(* What a request found stays: members and tokens never go. *)
LEMMA FindsFrame ==
  ASSUME AccountsInv, NEW w \in Workers, NEW k \in Work, worker' = [worker EXCEPT ![w] = k],
         Finds(k)',
         \A e \in Emails : Exists(e) => Exists(e)',
         \A t \in TokenIds : Issued(t) => Issued(t)'
  PROVE  worker' \in [Workers -> Work] /\ \A v \in Workers : Finds(worker[v])'
<1>0. worker \in [Workers -> Work]
  BY DEF AccountsInv, AccountsTypeOK
<1>1. worker' \in [Workers -> Work]
  BY <1>0
<1>2. ASSUME NEW v \in Workers PROVE Finds(worker[v])'
  <2>1. CASE v = w
    BY <1>0, <2>1 DEF Finds
  <2>2. CASE v # w
    <3>1. worker'[v] = worker[v] /\ Finds(worker[v])
      BY <1>0, <2>2 DEF AccountsInv
    <3> QED BY <3>1 DEF Finds
  <2> QED BY <2>1, <2>2
<1> QED BY <1>1, <1>2

(* A step that writes one request only. *)
LEMMA WorkerFrame ==
  ASSUME AccountsInv, NEW w \in Workers, NEW k \in Work, worker' = [worker EXCEPT ![w] = k],
         Finds(k), UNCHANGED <<partner, member, token, applied, tick>>
  PROVE  AccountsInv'
<1>1. Finds(k)'
  BY DEF Finds, Exists, Issued
<1>2. worker' \in [Workers -> Work] /\ \A v \in Workers : Finds(worker[v])'
  BY <1>1, FindsFrame DEF Exists, Issued
<1> QED BY <1>2
        DEF AccountsInv, AccountsTypeOK, AbsentIsPending, TokensHaveOwners, Exists, Issued, Redeemed

(* A step that writes members and ends its request. *)
LEMMA MemberFrame ==
  ASSUME AccountsInv, NEW w \in Workers, Ends(w), partner' \subseteq Partners,
         member' \in [Emails -> MemberRow], UNCHANGED <<token, applied, tick>>,
         \A e \in Emails : Exists(e) => Exists(e)',
         AbsentIsPending'
  PROVE  AccountsInv'
<1>1. \A t \in TokenIds : Issued(t) => Issued(t)'
  BY DEF Issued
<1>2. Finds(NoWork)'
  BY AccountNulls DEF Finds
<1>3. worker' \in [Workers -> Work] /\ \A v \in Workers : Finds(worker[v])'
  BY <1>1, <1>2, AccountNulls, FindsFrame DEF Ends
<1>4. TokensHaveOwners'
  <2> SUFFICES ASSUME NEW t \in TokenIds, Issued(t) PROVE Exists(token[t].email)'
    BY DEF TokensHaveOwners, Issued
  <2>1. token[t].email \in Emails /\ Exists(token[t].email)
    BY DEF AccountsInv, AccountsTypeOK, TokenRow, Issued, TokensHaveOwners
  <2> QED BY <2>1 DEF Exists
<1> QED BY <1>3, <1>4 DEF AccountsInv, AccountsTypeOK, Redeemed, Issued

-------------------------------------------------------------------------------
(* The first step of a request.                                             *)

LEMMA BeginsInv ==
  ASSUME AccountsInv, NEW w \in Workers, Begins(w)
  PROVE  AccountsInv'
<1> DEFINE Rest == UNCHANGED <<partner, member, token, applied, tick>>
<1>0. member \in [Emails -> MemberRow] /\ token \in [TokenIds -> TokenRow]
  BY DEF AccountsInv, AccountsTypeOK
<1>1. ASSUME NEW k \in Work, Starts(w, k), Finds(k), Rest PROVE AccountsInv'
  BY <1>1, WorkerFrame DEF Starts
<1>2. ASSUME NEW e \in Emails, NEW p \in Partners, CreatePartner(w, e, p) PROVE AccountsInv'
  <2> DEFINE k == [NoWork EXCEPT !.pc = "register", !.email = e, !.partner = p]
  <2>1. k \in Work /\ k.pc = "register" /\ k.partner = p
    BY AccountNulls DEF Work
  <2>2. Starts(w, k) /\ Rest
    BY <1>2 DEF CreatePartner
  <2> HIDE DEF k
  <2> QED BY <1>1, <2>1, <2>2 DEF Finds
<1>3. ASSUME NEW c \in Emails, NEW e \in Emails, NEW role \in MemberRoles,
             InviteReads(w, c, e, role)
      PROVE  AccountsInv'
  <2> DEFINE p == member[c].partner
             k == [NoWork EXCEPT !.pc = "invite", !.email = e, !.role = role, !.partner = p]
  <2>1. p \in Partners \cup {Nobody}
    BY <1>0 DEF MemberRow
  <2>2. Starts(w, k) /\ Rest
    BY <1>3 DEF InviteReads
  <2> HIDE DEF p
  <2>3. k \in Work /\ k.pc = "invite"
    BY <2>1, AccountNulls DEF Work
  <2> HIDE DEF k
  <2> QED BY <1>1, <2>2, <2>3 DEF Finds
<1>4. ASSUME NEW c \in Emails, NEW e \in Emails, NEW role \in MemberRoles,
             NEW st \in MemberStatuses, NEW fields \in SUBSET {"role", "status"},
             UpdateReads(w, c, e, role, st, fields)
      PROVE  AccountsInv'
  <2> DEFINE p == member[e].partner
             k == [NoWork EXCEPT !.pc = "update", !.email = e, !.partner = p,
                                 !.role = role, !.status = st, !.fields = fields]
  <2>1. p \in Partners \cup {Nobody}
    BY <1>0 DEF MemberRow
  <2>2. Starts(w, k) /\ Rest /\ Exists(e)
    BY <1>4 DEF UpdateReads, MayManage
  <2> HIDE DEF p
  <2>3. k \in Work /\ k.pc = "update" /\ k.email = e
    BY <2>1, AccountNulls DEF Work
  <2> HIDE DEF k
  <2> QED BY <1>1, <2>2, <2>3 DEF Finds
<1>5. ASSUME NEW e \in Emails, NEW type \in TokenTypes, Asks(w, e, type) PROVE AccountsInv'
  <2> DEFINE k == [NoWork EXCEPT !.pc = "issue", !.email = e, !.type = type]
  <2>1. k \in Work /\ k.pc = "issue" /\ k.email = e
    BY AccountNulls DEF Work
  <2>2. Starts(w, k) /\ Rest /\ Exists(e)
    BY <1>5 DEF Asks
  <2> HIDE DEF k
  <2> QED BY <1>1, <2>1, <2>2 DEF Finds
<1>6. ASSUME NEW t \in TokenIds, Issued(t), FindByTokenHash(w, t) PROVE AccountsInv'
  <2> DEFINE type == token[t].type
             e == token[t].email
             k == [NoWork EXCEPT !.pc = "redeem", !.token = t, !.type = type, !.email = e]
  <2>1. type \in TokenTypes /\ e \in Emails /\ Exists(e)
    BY <1>0, <1>6 DEF TokenRow, Issued, AccountsInv, TokensHaveOwners
  <2>2. Starts(w, k) /\ Rest
    BY <1>6 DEF FindByTokenHash
  <2> HIDE DEF type, e
  <2>3. k \in Work /\ k.pc = "redeem" /\ k.email = e /\ k.token = t
    BY <2>1, AccountNulls DEF Work
  <2> HIDE DEF k
  <2> QED BY <1>1, <1>6, <2>1, <2>2, <2>3 DEF Finds
<1>7. ASSUME NEW c \in Emails, NEW e \in Emails, OwnerBegins(w, c, e) PROVE AccountsInv'
  <2>1. CASE RevokeReads(w, c, e)
    BY <1>4, <2>1 DEF RevokeReads, RevokedStatus, MemberRoles, MemberStatuses
  <2>2. GivenRoles \subseteq MemberRoles /\ GivenStatuses \subseteq MemberStatuses
    BY AccountsAssumption
  <2> QED BY <1>3, <1>4, <1>7, <2>1, <2>2 DEF OwnerBegins
<1>8. ASSUME NEW e \in Emails, RequestEmailVerification(w, e) \/ RequestPasswordReset(w, e)
      PROVE  AccountsInv'
  BY <1>5, <1>8 DEF RequestEmailVerification, RequestPasswordReset, TokenTypes
<1>9. ASSUME NEW t \in TokenIds, VerifyEmail(w, t) \/ ResetPasswordReads(w, t)
      PROVE  AccountsInv'
  BY <1>6, <1>9 DEF VerifyEmail, ResetPasswordReads, ConsumeOneTimeToken
<1> QED BY <1>2, <1>7, <1>8, <1>9 DEF Begins

-------------------------------------------------------------------------------
(* What a request writes.                                                   *)

(* The new member of a registration or an invitation. *)
LEMMA CreatesInv ==
  ASSUME AccountsInv, NEW w \in Workers, CreateOwner(w) \/ InviteCreates(w)
  PROVE  AccountsInv'
<1> DEFINE e == worker[w].email  p == worker[w].partner
<1>0. /\ member \in [Emails -> MemberRow] /\ partner \subseteq Partners
      /\ worker[w] \in Work /\ p \in Partners \cup {Nobody} /\ worker[w].role \in MemberRoles
  BY DEF AccountsInv, AccountsTypeOK, Work
<1>1. PICK role \in MemberRoles :
        member' = IF Exists(e) THEN member
                  ELSE [member EXCEPT ![e] = [NoMember EXCEPT !.partner = p, !.role = role]]
  <2>1. CASE CreateOwner(w)
    BY <2>1 DEF CreateOwner, MemberRoles
  <2>2. CASE InviteCreates(w)
    BY <1>0, <2>2 DEF InviteCreates
  <2> QED BY <2>1, <2>2
<1>2. partner' \subseteq Partners
  <2>1. CASE CreateOwner(w)
    <3>1. w \in Workers /\ worker[w].pc = "register" /\ partner' = Committed(w)
      BY <2>1 DEF CreateOwner
    <3>2. worker[w].partner \in Partners
      BY <3>1 DEF AccountsInv, Finds
    <3> QED BY <1>0, <3>1, <3>2 DEF Committed
  <2>2. CASE InviteCreates(w)
    BY <1>0, <2>2 DEF InviteCreates
  <2> QED BY <2>1, <2>2
<1>3. Ends(w) /\ UNCHANGED <<token, applied, tick>>
  BY DEF CreateOwner, InviteCreates
<1> DEFINE rec == [NoMember EXCEPT !.partner = p, !.role = role]
<1>4. rec \in MemberRow /\ rec.status = "pending_verification"
  BY <1>0, <1>1, AccountNulls DEF MemberRow, NoMember
<1>a. member' = IF Exists(e) THEN member ELSE [member EXCEPT ![e] = rec]
  BY <1>1
<1> HIDE DEF rec
<1>5. /\ member' \in [Emails -> MemberRow]
      /\ \A x \in Emails : \/ member'[x] = member[x]
                           \/ ~Exists(x) /\ member'[x] = rec
  <2>1. CASE Exists(e)
    BY <1>0, <1>a, <2>1
  <2>2. CASE ~Exists(e)
    <3>1. member' = [member EXCEPT ![e] = rec]
      BY <1>a, <2>2
    <3>2. \A x \in Emails : member'[x] = IF x = e THEN rec ELSE member[x]
      BY <1>0, <3>1
    <3> QED BY <1>0, <1>4, <2>2, <3>1, <3>2
  <2> QED BY <2>1, <2>2
<1>6. \A x \in Emails : Exists(x) => Exists(x)'
  BY <1>5 DEF Exists
<1>7. AbsentIsPending'
  BY <1>4, <1>5 DEF AccountsInv, AbsentIsPending, Exists
<1> QED BY <1>2, <1>3, <1>5, <1>6, <1>7, MemberFrame

LEMMA UpdateWritesInv ==
  ASSUME AccountsInv, NEW w \in Workers, UpdateWrites(w)
  PROVE  AccountsInv'
<1> DEFINE k == worker[w]  e == k.email
           role == IF "role" \in k.fields THEN k.role ELSE member[e].role
           st == IF "status" \in k.fields THEN k.status ELSE member[e].status
           rec == [member[e] EXCEPT !.role = role, !.status = st]
<1>0. /\ member \in [Emails -> MemberRow] /\ partner \subseteq Partners
      /\ k \in Work /\ e \in Emails /\ Exists(e)
  BY DEF AccountsInv, AccountsTypeOK, UpdateWrites, Finds
<1>1. role \in MemberRoles /\ st \in MemberStatuses
  BY <1>0 DEF Work, MemberRow
<1>2. member' = [member EXCEPT ![e] = rec]
  BY <1>0 DEF UpdateWrites
<1> HIDE DEF role, st
<1>3. rec \in MemberRow /\ rec.partner = member[e].partner
  BY <1>0, <1>1 DEF MemberRow
<1> HIDE DEF rec
<1>4. /\ member' \in [Emails -> MemberRow]
      /\ \A x \in Emails : /\ member'[x].partner = member[x].partner
                           /\ ~Exists(x) => member'[x] = member[x]
  BY <1>0, <1>2, <1>3 DEF Exists
<1>5. AbsentIsPending' /\ \A x \in Emails : Exists(x) => Exists(x)'
  BY <1>4 DEF AccountsInv, AbsentIsPending, Exists
<1>6. Ends(w) /\ partner' \subseteq Partners /\ UNCHANGED <<token, applied, tick>>
  BY <1>0 DEF UpdateWrites
<1> QED BY <1>4, <1>5, <1>6, MemberFrame

LEMMA IssueRetiresInv ==
  ASSUME AccountsInv, NEW w \in Workers, IssueRetires(w)
  PROVE  AccountsInv'
<1> DEFINE live == LiveTokens(worker[w].email, worker[w].type)
           k == [worker[w] EXCEPT !.pc = "create", !.retire = live]
<1>0. worker \in [Workers -> Work] /\ worker[w] \in Work /\ Finds(worker[w])
      /\ worker[w].pc = "issue"
  BY DEF AccountsInv, AccountsTypeOK, IssueRetires
<1>1. live \in SUBSET TokenIds
  BY DEF LiveTokens
<1>2. worker' = [worker EXCEPT ![w] = k] /\ UNCHANGED <<partner, member, token, applied, tick>>
  BY <1>0 DEF IssueRetires
<1> HIDE DEF live
<1>3. k \in Work /\ k.pc = "create" /\ k.email = worker[w].email
  BY <1>0, <1>1 DEF Work
<1> HIDE DEF k
<1>4. Finds(k)
  BY <1>0, <1>3 DEF Finds
<1> QED BY <1>2, <1>3, <1>4, WorkerFrame

LEMMA IssueCreatesInv ==
  ASSUME AccountsInv, NEW w \in Workers, NEW t \in TokenIds, IssueCreates(w, t)
  PROVE  AccountsInv'
<1> DEFINE k == worker[w]
           expires == tick + Ttl[k.type]
           new == [email |-> k.email, type |-> k.type, expires |-> expires, used |-> FALSE]
<1>0. /\ token \in [TokenIds -> TokenRow] /\ k \in Work /\ k.email \in Emails /\ Exists(k.email)
      /\ ~Issued(t) /\ Ends(w) /\ UNCHANGED <<partner, member, applied, tick>>
  BY DEF AccountsInv, AccountsTypeOK, IssueCreates, Finds
<1>1. expires \in Nat /\ k.type \in TokenTypes
  BY <1>0, AccountsAssumption DEF Work, AccountsInv, AccountsTypeOK
<1>2. token' = [u \in TokenIds |->
                  IF u = t THEN new
                  ELSE IF u \in k.retire THEN [token[u] EXCEPT !.used = TRUE] ELSE token[u]]
  BY DEF IssueCreates, IssueOneTimeToken
<1> HIDE DEF expires
<1>3. new \in TokenRow /\ new.email = k.email
  BY <1>0, <1>1 DEF TokenRow
<1> HIDE DEF new
<1>4. ASSUME NEW u \in TokenIds
      PROVE  /\ token'[u] \in TokenRow
             /\ u = t => token'[u] = new
             /\ u # t => token'[u].email = token[u].email /\ (token[u].used => token'[u].used)
  <2>1. token[u] \in TokenRow /\ [token[u] EXCEPT !.used = TRUE] \in TokenRow
        /\ [token[u] EXCEPT !.used = TRUE].email = token[u].email
        /\ [token[u] EXCEPT !.used = TRUE].used
    BY <1>0 DEF TokenRow
  <2> QED BY <1>2, <1>3, <2>1
<1>5. token' \in [TokenIds -> TokenRow]
  BY <1>2, <1>4
<1>6. \A u \in TokenIds : Issued(u) => u # t /\ Issued(u)'
  BY <1>0, <1>4 DEF Issued
<1>7. TokensHaveOwners'
  BY <1>0, <1>3, <1>4 DEF AccountsInv, TokensHaveOwners, Exists, Issued
<1>8. Redeemed'
  BY <1>0, <1>4, <1>6 DEF AccountsInv, Redeemed
<1>9. Finds(NoWork)'
  BY AccountNulls DEF Finds
<1>10. worker' \in [Workers -> Work] /\ \A v \in Workers : Finds(worker[v])'
  BY <1>0, <1>6, <1>9, AccountNulls, FindsFrame DEF Ends, Exists
<1> QED BY <1>0, <1>5, <1>7, <1>8, <1>10
        DEF AccountsInv, AccountsTypeOK, AbsentIsPending, Exists

(* The redemption of a token that is still unused. *)
LEMMA RedeemInv ==
  ASSUME AccountsInv, NEW w \in Workers, ApplyEmailVerification(w) \/ ApplyPasswordReset(w)
  PROVE  AccountsInv'
<1> DEFINE k == worker[w]  e == k.email  t == k.token
<1>0. /\ member \in [Emails -> MemberRow] /\ token \in [TokenIds -> TokenRow]
      /\ applied \in [TokenIds -> Nat]
      /\ e \in Emails /\ Exists(e) /\ t \in TokenIds /\ Issued(t)
      /\ Ends(w) /\ UNCHANGED <<partner, tick>>
  BY DEF AccountsInv, AccountsTypeOK, ApplyEmailVerification, ApplyPasswordReset, Finds
<1>1. CASE ~StillUnused(w)
  <2>1. UNCHANGED <<token, applied, member>>
    BY <1>1 DEF ApplyEmailVerification, ApplyPasswordReset
  <2> QED BY <1>0, <2>1, MemberFrame DEF AccountsInv, AccountsTypeOK, AbsentIsPending, Exists
<1>2. CASE StillUnused(w)
  <2>1. token' = [token EXCEPT ![t].used = TRUE] /\ applied' = [applied EXCEPT ![t] = @ + 1]
    BY <1>2 DEF ApplyEmailVerification, ApplyPasswordReset, Spend
  <2>2. /\ token' \in [TokenIds -> TokenRow]
        /\ \A u \in TokenIds : token'[u].email = token[u].email
                               /\ (token[u].used \/ u = t => token'[u].used)
    <3> DEFINE rec == [token[t] EXCEPT !.used = TRUE]
    <3>1. rec \in TokenRow /\ rec.email = token[t].email /\ rec.used
      BY <1>0 DEF TokenRow
    <3>2. token' = [token EXCEPT ![t] = rec]
      BY <2>1
    <3> HIDE DEF rec
    <3> QED BY <1>0, <3>1, <3>2
  <2>3. applied[t] = 0
    BY <1>0, <1>2 DEF AccountsInv, Redeemed, StillUnused
  <2>4. /\ applied' \in [TokenIds -> Nat] /\ applied'[t] = 1
        /\ \A u \in TokenIds \ {t} : applied'[u] = applied[u]
    BY <1>0, <2>1, <2>3
  <2>5. Redeemed'
    BY <1>0, <2>2, <2>4 DEF AccountsInv, Redeemed, Issued
  <2>6. PICK rec \in MemberRow : /\ rec.partner = member[e].partner
                                 /\ member' = [member EXCEPT ![e] = rec]
    <3>0. member[e] \in MemberRow
      BY <1>0
    <3>1. CASE ApplyEmailVerification(w)
      <4> DEFINE st == StatusOnceVerified(e)
                 rec == [member[e] EXCEPT !.verified = TRUE, !.status = st]
      <4>1. st \in MemberStatuses
        BY <3>0 DEF StatusOnceVerified, MemberRow, MemberStatuses
      <4>2. member' = [member EXCEPT ![e] = rec]
        BY <1>0, <1>2, <3>1 DEF ApplyEmailVerification
      <4> HIDE DEF st
      <4>3. rec \in MemberRow /\ rec.partner = member[e].partner
        BY <3>0, <4>1 DEF MemberRow
      <4> HIDE DEF rec
      <4> QED BY <4>2, <4>3
    <3>2. CASE ApplyPasswordReset(w)
      <4> DEFINE v == member[e].version + 1
                 rec == [member[e] EXCEPT !.version = v]
      <4>1. v \in 1..MaxVersion
        BY <1>2, <3>0, <3>2, AccountsAssumption DEF ApplyPasswordReset, MemberRow
      <4>2. member' = [member EXCEPT ![e] = rec]
        BY <1>0, <1>2, <3>2 DEF ApplyPasswordReset
      <4> HIDE DEF v
      <4>3. rec \in MemberRow /\ rec.partner = member[e].partner
        BY <3>0, <4>1 DEF MemberRow
      <4> HIDE DEF rec
      <4> QED BY <4>2, <4>3
    <3> QED BY <3>1, <3>2
  <2>7. /\ member' \in [Emails -> MemberRow]
        /\ \A x \in Emails : /\ member'[x].partner = member[x].partner
                             /\ ~Exists(x) => member'[x] = member[x]
    BY <1>0, <2>6 DEF Exists
  <2>8. AbsentIsPending' /\ \A x \in Emails : Exists(x) <=> Exists(x)'
    BY <2>7 DEF AccountsInv, AbsentIsPending, Exists
  <2>9. TokensHaveOwners'
    <3> SUFFICES ASSUME NEW u \in TokenIds, Issued(u)' PROVE Exists(token[u].email)'
      BY DEF TokensHaveOwners
    <3>1. token[u].email \in Emails /\ Exists(token[u].email)
      BY <1>0, <2>2 DEF AccountsInv, TokenRow, Issued, TokensHaveOwners
    <3> QED BY <2>2, <2>7, <3>1 DEF Exists
  <2>10. \A u \in TokenIds : Issued(u) => Issued(u)'
    BY <2>2 DEF Issued
  <2>11. Finds(NoWork)'
    BY AccountNulls DEF Finds
  <2>12. worker' \in [Workers -> Work] /\ \A v \in Workers : Finds(worker[v])'
    BY <1>0, <2>8, <2>10, <2>11, AccountNulls, FindsFrame DEF Ends
  <2> QED BY <1>0, <2>2, <2>4, <2>5, <2>7, <2>8, <2>9, <2>12 DEF AccountsInv, AccountsTypeOK
<1> QED BY <1>1, <1>2

LEMMA AccountsNextInv == AccountsInv /\ [AccountsNext]_accountVars => AccountsInv'
<1>1. ASSUME AccountsInv, Tick PROVE AccountsInv'
  BY <1>1, AccountsAssumption
     DEF Tick, AccountsInv, AccountsTypeOK, AbsentIsPending, TokensHaveOwners, Finds, Exists,
         Issued, Redeemed
<1>2. ASSUME AccountsInv, UNCHANGED accountVars PROVE AccountsInv'
  BY <1>2
     DEF accountVars, AccountsInv, AccountsTypeOK, AbsentIsPending, TokensHaveOwners, Finds,
         Exists, Issued, Redeemed
<1>3. ASSUME AccountsInv, NEW w \in Workers, Dies(w) PROVE AccountsInv'
  BY <1>3, AccountNulls, WorkerFrame DEF Dies, Ends, Finds
<1> QED BY <1>1, <1>2, <1>3, BeginsInv, CreatesInv, UpdateWritesInv, IssueRetiresInv,
           IssueCreatesInv, RedeemInv
        DEF AccountsNext, Transacts

(* Members, tokens and requests stay well formed, members and tokens never   *)
(* go, and a redeemed token is used.                                        *)
THEOREM AccountsInvariance == AccountsSpec => []AccountsInv
BY AccountsInitInv, AccountsNextInv, PTL DEF AccountsSpec

(* A one-time token is redeemed once, however many requests found it unused. *)
THEOREM TokensSpentOnce == AccountsSpec => []TokenSpentOnce
<1>1. AccountsInv => TokenSpentOnce
  BY DEF AccountsInv, Redeemed, TokenSpentOnce
<1> QED BY <1>1, AccountsInvariance, PTL

(* Only an owner's update takes a member out of suspended or disabled. *)
THEOREM DisabledMembersStay == AccountsSpec => DisabledStaysOut
<1>1. AccountsInv /\ [AccountsNext]_accountVars =>
        [\A e \in Emails :
           member[e].status \in {"suspended", "disabled"} /\ member[e].status # member'[e].status
             => OwnerBrings(e)]_accountVars
  <2> SUFFICES ASSUME AccountsInv, AccountsNext, NEW e \in Emails,
                      member[e].status \in {"suspended", "disabled"},
                      member[e].status # member'[e].status
               PROVE  OwnerBrings(e)
    OBVIOUS
  <2>0. member \in [Emails -> MemberRow] /\ Exists(e)
    BY DEF AccountsInv, AccountsTypeOK, AbsentIsPending
  <2>1. ~UNCHANGED member
    OBVIOUS
  <2>2. PICK w \in Workers :
          \/ CreateOwner(w) \/ InviteCreates(w) \/ UpdateWrites(w)
          \/ ApplyEmailVerification(w) \/ ApplyPasswordReset(w)
    <3>1. ~Tick
      BY <2>1 DEF Tick
    <3>2. ASSUME NEW w \in Workers, Begins(w) PROVE FALSE
      BY <2>1, <3>2 DEF Begins, CreatePartner, OwnerBegins, RevokeReads, InviteReads, UpdateReads,
                        RequestEmailVerification, RequestPasswordReset, Asks, VerifyEmail,
                        ResetPasswordReads, FindByTokenHash
    <3>3. ASSUME NEW w \in Workers, \/ Dies(w) \/ IssueRetires(w)
                                    \/ \E t \in TokenIds : IssueCreates(w, t)
          PROVE  FALSE
      BY <2>1, <3>3 DEF Dies, IssueRetires, IssueCreates
    <3> QED BY <3>1, <3>2, <3>3 DEF AccountsNext, Transacts
  <2>3. CASE CreateOwner(w) \/ InviteCreates(w)
    BY <2>0, <2>3 DEF CreateOwner, InviteCreates
  <2>4. CASE UpdateWrites(w)
    <3>1. worker[w].email = e
      BY <2>0, <2>4 DEF UpdateWrites
    <3>2. "status" \in worker[w].fields
      BY <2>0, <2>4, <3>1 DEF UpdateWrites, MemberRow
    <3> QED BY <2>4, <3>1, <3>2 DEF UpdateWrites, OwnerBrings
  <2>5. CASE ApplyEmailVerification(w)
    BY <2>0, <2>5 DEF ApplyEmailVerification, StatusOnceVerified, MemberRow
  <2>6. CASE ApplyPasswordReset(w)
    BY <2>0, <2>6 DEF ApplyPasswordReset, MemberRow
  <2> QED BY <2>2, <2>3, <2>4, <2>5, <2>6
<1> QED BY <1>1, AccountsInvariance, PTL DEF AccountsSpec, DisabledStaysOut

-------------------------------------------------------------------------------
(* The sessions of administrators: only their types matter here.            *)

LEMMA AdminNulls ==
  /\ AdminSessions!NoSession \in AdminSessions!Session
  /\ AdminSessions!Idle \in AdminSessions!Request
  BY DEF AdminSessions!NoSession, AdminSessions!Session, AdminSessions!Idle,
         AdminSessions!Request

LEMMA AdminLoginTyped ==
  ASSUME AdminSessions!SessionsTypeOK, NEW q \in AdminWorkers, AdminSessions!LoginRequest(q)
  PROVE  AdminSessions!SessionsTypeOK'
<1>0. /\ adminAccount \in AdminSessions!Account
      /\ adminSession \in [AdminSessionIds -> AdminSessions!Session]
      /\ adminReq \in [AdminWorkers -> AdminSessions!Request]
      /\ adminReq[q] \in AdminSessions!Request /\ adminTime \in Nat
  BY AdminAssumption DEF AdminSessions!SessionsTypeOK
<1>1. CASE AdminSessions!LoginReads(q)
  <2> DEFINE r == [AdminSessions!Idle EXCEPT !.pc = "login", !.version = adminAccount.version,
                                             !.password = adminAccount.password]
  <2>1. r \in AdminSessions!Request
    BY <1>0 DEF AdminSessions!Request, AdminSessions!Idle, AdminSessions!Account
  <2>2. adminReq' = [adminReq EXCEPT ![q] = r]
        /\ UNCHANGED <<adminAccount, adminSession, adminTime>>
    BY <1>1 DEF AdminSessions!LoginReads
  <2> HIDE DEF r
  <2> QED BY <1>0, <2>1, <2>2 DEF AdminSessions!SessionsTypeOK
<1>2. ASSUME NEW s \in AdminSessionIds, AdminSessions!LoginCreates(q, s)
      PROVE  AdminSessions!SessionsTypeOK'
  <2> DEFINE expires == adminTime + AdminAbsoluteTtl
             idle == AdminSessions!Earlier(adminTime + AdminIdleTtl, expires)
             rec == [used |-> TRUE, version |-> adminReq[q].version,
                     password |-> adminReq[q].password, expires |-> expires, idle |-> idle,
                     revoked |-> FALSE]
  <2>1. expires \in Nat /\ idle \in Nat
    BY <1>0, AdminAssumption DEF AdminSessions!Earlier
  <2>2. adminSession' = [adminSession EXCEPT ![s] = rec]
        /\ adminReq' = [adminReq EXCEPT ![q] = AdminSessions!Idle]
        /\ UNCHANGED <<adminAccount, adminTime>>
    BY <1>2 DEF AdminSessions!LoginCreates, AdminSessions!NewSession
  <2> HIDE DEF expires, idle
  <2>3. rec \in AdminSessions!Session
    BY <1>0, <2>1 DEF AdminSessions!Session, AdminSessions!Request
  <2> HIDE DEF rec
  <2> QED BY <1>0, <2>2, <2>3, AdminNulls DEF AdminSessions!SessionsTypeOK
<1> QED BY <1>1, <1>2 DEF AdminSessions!LoginRequest

LEMMA AdminUseTyped ==
  ASSUME AdminSessions!SessionsTypeOK, NEW q \in AdminWorkers,
         \/ AdminSessions!SlideIdleExpiry(q)
         \/ \E s \in AdminSessionIds : AdminSessions!Resolve(q, s)
  PROVE  AdminSessions!SessionsTypeOK'
<1>0. /\ adminSession \in [AdminSessionIds -> AdminSessions!Session]
      /\ adminReq \in [AdminWorkers -> AdminSessions!Request]
      /\ adminReq[q] \in AdminSessions!Request /\ adminTime \in Nat
  BY AdminAssumption DEF AdminSessions!SessionsTypeOK
<1>1. CASE AdminSessions!SlideIdleExpiry(q)
  <2>1. adminSession' \in [AdminSessionIds -> AdminSessions!Session]
    <3>1. adminReq[q].to \in Nat
      BY <1>0 DEF AdminSessions!Request
    <3>2. \/ adminSession' = adminSession
          \/ adminSession' = [adminSession EXCEPT ![adminReq[q].session].idle = adminReq[q].to]
      BY <1>1 DEF AdminSessions!SlideIdleExpiry
    <3>3. ASSUME NEW x \in AdminSessionIds
          PROVE  [adminSession[x] EXCEPT !.idle = adminReq[q].to] \in AdminSessions!Session
      BY <1>0, <3>1 DEF AdminSessions!Session
    <3> QED BY <1>0, <3>2, <3>3
  <2> QED BY <1>0, <1>1, <2>1, AdminNulls
          DEF AdminSessions!SlideIdleExpiry, AdminSessions!SessionsTypeOK
<1>2. ASSUME NEW s \in AdminSessionIds, AdminSessions!Resolve(q, s)
      PROVE  AdminSessions!SessionsTypeOK'
  <2> DEFINE to == AdminSessions!SlideTo(s)
             r == [AdminSessions!Idle EXCEPT !.pc = "slide", !.session = s, !.to = to]
  <2>1. to \in Nat
    <3>1. adminSession[s].expires \in Nat /\ adminTime + AdminIdleTtl \in Nat
      BY <1>0, AdminAssumption DEF AdminSessions!Session
    <3> QED BY <3>1 DEF AdminSessions!SlideTo, AdminSessions!Earlier
  <2>2. adminReq' = [adminReq EXCEPT ![q] = r]
        /\ UNCHANGED <<adminAccount, adminSession, adminTime>>
    BY <1>2 DEF AdminSessions!Resolve
  <2> HIDE DEF to
  <2>3. r \in AdminSessions!Request
    <3>1. ASSUME NEW i \in AdminSessions!Request
          PROVE  [i EXCEPT !.pc = "slide", !.session = s, !.to = to] \in AdminSessions!Request
      BY <2>1 DEF AdminSessions!Request
    <3> QED BY <3>1, AdminNulls
  <2> HIDE DEF r
  <2> QED BY <1>0, <2>2, <2>3 DEF AdminSessions!SessionsTypeOK
<1> QED BY <1>1, <1>2

LEMMA SessionStepTyped ==
  ASSUME AdminSessions!SessionsTypeOK, SessionStep
  PROVE  AdminSessions!SessionsTypeOK'
<1>0. /\ adminAccount \in AdminSessions!Account /\ adminTime \in 0..AdminHorizon
      /\ adminSession \in [AdminSessionIds -> AdminSessions!Session]
  BY DEF AdminSessions!SessionsTypeOK
<1>1. ASSUME NEW s \in AdminSessionIds, AdminSessions!Logout(s)
      PROVE  AdminSessions!SessionsTypeOK'
  <2>1. adminSession' = [adminSession EXCEPT ![s].revoked = TRUE]
        /\ UNCHANGED <<adminAccount, adminReq, adminTime>>
    BY <1>1 DEF AdminSessions!Logout, AdminSessions!RevokeByTokenHash
  <2>2. adminSession' \in [AdminSessionIds -> AdminSessions!Session]
    BY <1>0, <2>1 DEF AdminSessions!Session
  <2> QED BY <2>1, <2>2 DEF AdminSessions!SessionsTypeOK
<1>2. ASSUME AdminSessions!SetStatus("disabled") PROVE AdminSessions!SessionsTypeOK'
  <2>1. adminAccount' = [adminAccount EXCEPT !.status = "disabled"]
        /\ UNCHANGED <<adminSession, adminReq, adminTime>>
    BY <1>2 DEF AdminSessions!SetStatus
  <2>2. adminAccount' \in AdminSessions!Account
    BY <1>0, <2>1 DEF AdminSessions!Account
  <2> QED BY <2>1, <2>2 DEF AdminSessions!SessionsTypeOK
<1>3. ASSUME AdminSessions!TimePasses PROVE AdminSessions!SessionsTypeOK'
  BY <1>0, <1>3, AdminAssumption DEF AdminSessions!TimePasses, AdminSessions!SessionsTypeOK
<1> QED BY <1>1, <1>2, <1>3, AdminLoginTyped, AdminUseTyped
        DEF SessionStep, AdminLogin, ResolveAdminSession, SlideAdminSession, AdminLogout

-------------------------------------------------------------------------------
(* Administrators at work.                                                  *)

(* The desks that have recorded a sight of the SMS and not shown it yet. *)
Showing(m) == {d \in Desks : desk[d].pc = "show" /\ desk[d].sms = m}

(* What a desk works on, and what the order became if its command succeeded. *)
DeskSound(k) ==
  /\ k.pc \in {"load", "record", "show"} => k.sms \in SmsIds
  /\ k.pc \in {"command", "audit", "answer"} =>
       k.order \in OrderIds /\ k.operation \in RecoveryOperations
  /\ k.pc \in {"audit", "answer"} /\ k.ok => order[k.order] = ResultStatus[k.operation]

(* Every audit event is the one of a disclosure, or of a desk about to       *)
(* disclose.                                                                *)
EventsSuffice ==
  \A m \in SmsIds : /\ IsFiniteSet(Showing(m))
                    /\ shown[m] + Cardinality(Showing(m)) <= audited[m]

AdminInv ==
  /\ AdminAccessTypeOK
  /\ audited \in [SmsIds -> Nat] /\ shown \in [SmsIds -> Nat]
  /\ \A d \in Desks : DeskSound(desk[d])
  /\ EventsSuffice
  /\ AuditIsTrue

LEMMA DeskNulls == FreeDesk \in Desk /\ FreeDesk.pc = "free" /\ DeskSound(FreeDesk)
  BY DEF FreeDesk, Desk, DeskSound

(* No command leaves an order open. *)
LEMMA ResultIsTerminal == \A op \in RecoveryOperations : ResultStatus[op] # "open"
  BY AdminAssumption DEF ResultStatus

LEMMA AdminInitInv == AdminAccessInit => AdminInv
<1> SUFFICES ASSUME AdminAccessInit PROVE AdminInv
  OBVIOUS
<1>1. AdminSessions!SessionsTypeOK
  BY AdminNulls, AdminAssumption
     DEF AdminAccessInit, AdminSessions!SessionsInit, AdminSessions!SessionsTypeOK,
         AdminSessions!Account
<1>2. AdminAccessTypeOK /\ audited \in [SmsIds -> Nat] /\ shown \in [SmsIds -> Nat]
  BY <1>1, DeskNulls, AdminAssumption DEF AdminAccessInit, AdminAccessTypeOK
<1>3. \A d \in Desks : DeskSound(desk[d])
  BY DeskNulls DEF AdminAccessInit
<1>4. EventsSuffice
  <2> SUFFICES ASSUME NEW m \in SmsIds
               PROVE  IsFiniteSet(Showing(m)) /\ shown[m] + Cardinality(Showing(m)) <= audited[m]
    BY DEF EventsSuffice
  <2>1. Showing(m) = {} /\ shown[m] = 0 /\ audited[m] = 0
    BY DeskNulls DEF AdminAccessInit, Showing
  <2> QED BY <2>1, FS_EmptySet
<1>5. AuditIsTrue
  BY DEF AdminAccessInit, AuditIsTrue
<1> QED BY <1>2, <1>3, <1>4, <1>5 DEF AdminInv

(* A step that changes one desk, which has nothing to show before or after. *)
LEMMA DeskFrame ==
  ASSUME AdminInv, NEW d \in Desks, NEW k \in Desk, Put(d, k), DeskSound(k),
         desk[d].pc # "show", k.pc # "show",
         UNCHANGED <<adminSessionVars, permissions, reauth, sms, order, audited, shown, actions>>
  PROVE  AdminInv'
<1>0. desk \in [Desks -> Desk] /\ desk' = [desk EXCEPT ![d] = k]
  BY DEF AdminInv, AdminAccessTypeOK, Put
<1>1. AdminAccessTypeOK'
  <2>1. AdminSessions!SessionsTypeOK'
    BY DEF AdminInv, AdminAccessTypeOK, adminSessionVars, AdminSessions!SessionsTypeOK
  <2> QED BY <1>0, <2>1 DEF AdminInv, AdminAccessTypeOK
<1>2. \A x \in Desks : DeskSound(desk[x])'
  BY <1>0 DEF AdminInv, DeskSound
<1>3. \A m \in SmsIds : Showing(m)' = Showing(m)
  BY <1>0 DEF Showing
<1>4. EventsSuffice'
  BY <1>3 DEF AdminInv, EventsSuffice
<1> QED BY <1>1, <1>2, <1>4 DEF AdminInv, AuditIsTrue

LEMMA RevealInv ==
  ASSUME AdminInv, NEW d \in Desks,
         LoadEncryptedSms(d) \/ \E m \in SmsIds : Reveal(d, m)
  PROVE  AdminInv'
<1>0. desk[d] \in Desk /\ DeskSound(desk[d])
  BY DEF AdminInv, AdminAccessTypeOK
<1>1. ASSUME NEW m \in SmsIds, Reveal(d, m) PROVE AdminInv'
  <2> DEFINE k == [FreeDesk EXCEPT !.pc = "load", !.sms = m]
  <2>1. k \in Desk /\ k.pc = "load" /\ k.sms = m
    BY DEF Desk, FreeDesk
  <2>2. /\ Put(d, k) /\ desk[d].pc = "free"
        /\ UNCHANGED <<adminSessionVars, permissions, reauth, sms, order, audited, shown, actions>>
    BY <1>1 DEF Reveal
  <2> HIDE DEF k
  <2>3. DeskSound(k)
    BY <2>1 DEF DeskSound
  <2> QED BY <2>1, <2>2, <2>3, DeskFrame
<1>2. CASE LoadEncryptedSms(d)
  <2> DEFINE k == [desk[d] EXCEPT !.pc = "record"]
  <2>1. k \in Desk /\ k.pc = "record" /\ k.sms = desk[d].sms
    BY <1>0 DEF Desk
  <2>2. /\ Put(d, k) \/ Put(d, FreeDesk)
        /\ desk[d].pc = "load"
        /\ UNCHANGED <<adminSessionVars, permissions, reauth, sms, order, audited, shown, actions>>
    BY <1>2 DEF LoadEncryptedSms
  <2> HIDE DEF k
  <2>3. DeskSound(k)
    BY <1>0, <2>1, <2>2 DEF DeskSound
  <2> QED BY <2>1, <2>2, <2>3, DeskNulls, DeskFrame
<1> QED BY <1>1, <1>2

(* The audit event comes with the right to show. *)
LEMMA RecordsAccessInv ==
  ASSUME AdminInv, NEW d \in Desks, RecordsAccess(d)
  PROVE  AdminInv'
<1> DEFINE m == desk[d].sms
           k == [desk[d] EXCEPT !.pc = "show"]
<1>0. /\ desk \in [Desks -> Desk] /\ desk[d] \in Desk /\ DeskSound(desk[d])
      /\ desk[d].pc = "record" /\ m \in SmsIds
      /\ audited \in [SmsIds -> Nat] /\ shown \in [SmsIds -> Nat]
  BY DEF AdminInv, AdminAccessTypeOK, RecordsAccess, DeskSound
<1>1. /\ desk' = [desk EXCEPT ![d] = k] /\ audited' = [audited EXCEPT ![m] = audited[m] + 1]
      /\ UNCHANGED <<adminSessionVars, permissions, reauth, sms, order, shown, actions>>
  BY <1>0 DEF RecordsAccess, Put
<1>2. k \in Desk /\ k.pc = "show" /\ k.sms = m
  BY <1>0 DEF Desk
<1> HIDE DEF k
<1>3. DeskSound(k)
  BY <1>0, <1>2 DEF DeskSound
<1>4. AdminAccessTypeOK' /\ audited' \in [SmsIds -> Nat] /\ shown' \in [SmsIds -> Nat]
  <2>1. AdminSessions!SessionsTypeOK'
    BY <1>1 DEF AdminInv, AdminAccessTypeOK, adminSessionVars, AdminSessions!SessionsTypeOK
  <2>2. desk' \in [Desks -> Desk] /\ audited' \in [SmsIds -> Nat]
    BY <1>0, <1>1, <1>2
  <2> QED BY <1>0, <1>1, <2>1, <2>2 DEF AdminInv, AdminAccessTypeOK
<1>5. \A x \in Desks : DeskSound(desk[x])'
  BY <1>0, <1>1, <1>3 DEF AdminInv, DeskSound
<1>6. EventsSuffice'
  <2> SUFFICES ASSUME NEW n \in SmsIds
               PROVE  /\ IsFiniteSet(Showing(n)')
                      /\ shown'[n] + Cardinality(Showing(n)') <= audited'[n]
    BY DEF EventsSuffice
  <2>0. IsFiniteSet(Showing(n)) /\ shown[n] + Cardinality(Showing(n)) <= audited[n]
        /\ Cardinality(Showing(n)) \in Nat
    BY FS_CardinalityType DEF AdminInv, EventsSuffice
  <2>1. CASE n = m
    <3>1. Showing(n)' = Showing(n) \cup {d} /\ d \notin Showing(n)
      BY <1>0, <1>1, <1>2, <2>1 DEF Showing
    <3>2. IsFiniteSet(Showing(n)') /\ Cardinality(Showing(n)') = Cardinality(Showing(n)) + 1
      BY <2>0, <3>1, FS_AddElement
    <3>3. shown'[n] = shown[n] /\ audited'[n] = audited[n] + 1
      BY <1>0, <1>1, <2>1
    <3> QED BY <1>0, <2>0, <3>2, <3>3
  <2>2. CASE n # m
    <3>1. Showing(n)' = Showing(n)
      BY <1>0, <1>1, <1>2, <2>2 DEF Showing
    <3>2. shown'[n] = shown[n] /\ audited'[n] = audited[n]
      BY <1>0, <1>1, <2>2
    <3> QED BY <2>0, <3>1, <3>2
  <2> QED BY <2>1, <2>2
<1>7. AuditIsTrue'
  BY <1>1 DEF AdminInv, AuditIsTrue
<1> QED BY <1>4, <1>5, <1>6, <1>7 DEF AdminInv

LEMMA ShowsInv ==
  ASSUME AdminInv, NEW d \in Desks, Shows(d)
  PROVE  AdminInv'
<1> DEFINE m == desk[d].sms
<1>0. /\ desk \in [Desks -> Desk] /\ desk[d].pc = "show" /\ m \in SmsIds
      /\ audited \in [SmsIds -> Nat] /\ shown \in [SmsIds -> Nat]
  BY DEF AdminInv, AdminAccessTypeOK, Shows, ReadyToShow, DeskSound
<1>1. /\ desk' = [desk EXCEPT ![d] = FreeDesk] /\ shown' = [shown EXCEPT ![m] = shown[m] + 1]
      /\ UNCHANGED <<adminSessionVars, permissions, reauth, sms, order, audited, actions>>
  BY <1>0 DEF Shows, Put
<1>2. AdminAccessTypeOK' /\ audited' \in [SmsIds -> Nat] /\ shown' \in [SmsIds -> Nat]
  <2>1. AdminSessions!SessionsTypeOK'
    BY <1>1 DEF AdminInv, AdminAccessTypeOK, adminSessionVars, AdminSessions!SessionsTypeOK
  <2>2. desk' \in [Desks -> Desk] /\ shown' \in [SmsIds -> Nat]
    BY <1>0, <1>1, DeskNulls
  <2> QED BY <1>0, <1>1, <2>1, <2>2 DEF AdminInv, AdminAccessTypeOK
<1>3. \A x \in Desks : DeskSound(desk[x])'
  BY <1>0, <1>1, DeskNulls DEF AdminInv, DeskSound
<1>4. EventsSuffice'
  <2> SUFFICES ASSUME NEW n \in SmsIds
               PROVE  /\ IsFiniteSet(Showing(n)')
                      /\ shown'[n] + Cardinality(Showing(n)') <= audited'[n]
    BY DEF EventsSuffice
  <2>0. IsFiniteSet(Showing(n)) /\ shown[n] + Cardinality(Showing(n)) <= audited[n]
        /\ Cardinality(Showing(n)) \in Nat
    BY FS_CardinalityType DEF AdminInv, EventsSuffice
  <2>1. CASE n = m
    <3>1. Showing(n)' = Showing(n) \ {d} /\ d \in Showing(n)
      BY <1>0, <1>1, <2>1, DeskNulls DEF Showing
    <3>2. IsFiniteSet(Showing(n)') /\ Cardinality(Showing(n)') = Cardinality(Showing(n)) - 1
      BY <2>0, <3>1, FS_RemoveElement
    <3>3. shown'[n] = shown[n] + 1 /\ audited'[n] = audited[n]
      BY <1>0, <1>1, <2>1
    <3> QED BY <1>0, <2>0, <3>2, <3>3
  <2>2. CASE n # m
    <3>1. Showing(n)' = Showing(n)
      BY <1>0, <1>1, <2>2, DeskNulls DEF Showing
    <3>2. shown'[n] = shown[n] /\ audited'[n] = audited[n]
      BY <1>0, <1>1, <2>2
    <3> QED BY <2>0, <3>1, <3>2
  <2> QED BY <2>1, <2>2
<1>5. AuditIsTrue'
  BY <1>1 DEF AdminInv, AuditIsTrue
<1> QED BY <1>2, <1>3, <1>4, <1>5 DEF AdminInv

(* A restart forgets what was about to be shown; the events stay. *)
LEMMA RestartInv ==
  ASSUME AdminInv, Restart
  PROVE  AdminInv'
<1>0. /\ desk' = [d \in Desks |-> FreeDesk] /\ reauth' = 0
      /\ UNCHANGED <<adminSessionVars, permissions, sms, order, audited, shown, actions>>
  BY DEF Restart
<1>1. AdminAccessTypeOK'
  <2>1. AdminSessions!SessionsTypeOK'
    BY <1>0 DEF AdminInv, AdminAccessTypeOK, adminSessionVars, AdminSessions!SessionsTypeOK
  <2> QED BY <1>0, <2>1, DeskNulls, AdminAssumption DEF AdminInv, AdminAccessTypeOK
<1>2. \A x \in Desks : DeskSound(desk[x])'
  BY <1>0, DeskNulls DEF DeskSound
<1>3. EventsSuffice'
  <2> SUFFICES ASSUME NEW n \in SmsIds
               PROVE  /\ IsFiniteSet(Showing(n)')
                      /\ shown'[n] + Cardinality(Showing(n)') <= audited'[n]
    BY DEF EventsSuffice
  <2>0. IsFiniteSet(Showing(n)) /\ shown[n] + Cardinality(Showing(n)) <= audited[n]
        /\ Cardinality(Showing(n)) \in Nat
    BY FS_CardinalityType DEF AdminInv, EventsSuffice
  <2>1. Showing(n)' = {}
    BY <1>0, DeskNulls DEF Showing
  <2>2. shown[n] \in Nat /\ audited[n] \in Nat
    BY DEF AdminInv
  <2> QED BY <1>0, <2>0, <2>1, <2>2, FS_EmptySet
<1> QED BY <1>0, <1>1, <1>2, <1>3 DEF AdminInv, AuditIsTrue

LEMMA RecoverInv ==
  ASSUME AdminInv, NEW d \in Desks,
         Answers(d) \/ \E o \in OrderIds, op \in RecoveryOperations : Recover(d, o, op)
  PROVE  AdminInv'
<1>1. CASE Answers(d)
  BY <1>1, DeskNulls, DeskFrame DEF Answers
<1>2. ASSUME NEW o \in OrderIds, NEW op \in RecoveryOperations, Recover(d, o, op)
      PROVE  AdminInv'
  <2> DEFINE k == [FreeDesk EXCEPT !.pc = "command", !.order = o, !.operation = op]
  <2>1. k \in Desk /\ k.pc = "command" /\ k.order = o /\ k.operation = op
    BY DEF Desk, FreeDesk
  <2>2. /\ Put(d, k) /\ desk[d].pc = "free"
        /\ UNCHANGED <<adminSessionVars, permissions, reauth, sms, order, audited, shown, actions>>
    BY <1>2 DEF Recover
  <2> HIDE DEF k
  <2>3. DeskSound(k)
    BY <2>1 DEF DeskSound
  <2> QED BY <2>1, <2>2, <2>3, DeskFrame
<1> QED BY <1>1, <1>2

(* A command changes an order that is open, and no other. *)
LEMMA RunCommandInv ==
  ASSUME AdminInv, NEW d \in Desks, RunCommand(d)
  PROVE  AdminInv'
<1> DEFINE o == desk[d].order  op == desk[d].operation
           ok == CommandApplies(o, op)
           k == [desk[d] EXCEPT !.pc = "audit", !.ok = ok]
           Terminal == {ResultStatus[x] : x \in RecoveryOperations}
<1>0. /\ desk \in [Desks -> Desk] /\ desk[d] \in Desk /\ desk[d].pc = "command"
      /\ o \in OrderIds /\ op \in RecoveryOperations
      /\ order \in [OrderIds -> {"open"} \cup Terminal]
  BY DEF AdminInv, AdminAccessTypeOK, RunCommand, DeskSound
<1>1. /\ desk' = [desk EXCEPT ![d] = k]
      /\ order' = IF ok THEN [order EXCEPT ![o] = ResultStatus[op]] ELSE order
      /\ UNCHANGED <<adminSessionVars, permissions, reauth, sms, audited, shown, actions>>
  BY <1>0 DEF RunCommand, Put
<1>2. ok \in BOOLEAN
  BY DEF CommandApplies
<1>3. /\ order' \in [OrderIds -> {"open"} \cup Terminal]
      /\ \A x \in OrderIds : order[x] # "open" => order'[x] = order[x]
      /\ ok => order'[o] = ResultStatus[op]
  <2>1. CASE ok
    <3>1. order[o] = "open" \/ order[o] = ResultStatus[op]
      BY <2>1 DEF CommandApplies
    <3> QED BY <1>0, <1>1, <2>1, <3>1
  <2>2. CASE ~ok
    BY <1>0, <1>1, <2>2
  <2> QED BY <2>1, <2>2
<1> HIDE DEF ok
<1>4. k \in Desk /\ k.pc = "audit" /\ k.order = o /\ k.operation = op /\ k.ok = ok
  BY <1>0, <1>2 DEF Desk
<1> HIDE DEF k, Terminal
<1>5. \A x \in OrderIds, y \in RecoveryOperations :
        order[x] = ResultStatus[y] => order'[x] = ResultStatus[y]
  BY <1>3, ResultIsTerminal
<1>6. ASSUME NEW x \in Desks PROVE DeskSound(desk[x])'
  <2>1. CASE x = d
    BY <1>0, <1>1, <1>3, <1>4, <2>1 DEF DeskSound
  <2>2. CASE x # d
    <3>1. desk'[x] = desk[x] /\ DeskSound(desk[x])
      BY <1>0, <1>1, <2>2 DEF AdminInv
    <3> QED BY <1>5, <3>1 DEF DeskSound
  <2> QED BY <2>1, <2>2
<1>7. AdminAccessTypeOK'
  <2>1. AdminSessions!SessionsTypeOK'
    BY <1>1 DEF AdminInv, AdminAccessTypeOK, adminSessionVars, AdminSessions!SessionsTypeOK
  <2>2. desk' \in [Desks -> Desk]
    BY <1>0, <1>1, <1>4
  <2> QED BY <1>1, <1>3, <2>1, <2>2 DEF AdminInv, AdminAccessTypeOK, Terminal
<1>8. EventsSuffice'
  <2>1. \A m \in SmsIds : Showing(m)' = Showing(m)
    BY <1>0, <1>1, <1>4 DEF Showing
  <2> QED BY <1>1, <2>1 DEF AdminInv, EventsSuffice
<1>9. AuditIsTrue'
  <2> SUFFICES ASSUME NEW r \in actions, r.ok PROVE order'[r.order] = ResultStatus[r.operation]
    BY <1>1 DEF AuditIsTrue
  <2>1. r.order \in OrderIds /\ r.operation \in RecoveryOperations
    BY DEF AdminInv, AdminAccessTypeOK, AuditRow
  <2> QED BY <1>5, <2>1 DEF AdminInv, AuditIsTrue
<1> QED BY <1>1, <1>6, <1>7, <1>8, <1>9 DEF AdminInv

LEMMA RecordsRecoveryInv ==
  ASSUME AdminInv, NEW d \in Desks, RecordsRecovery(d)
  PROVE  AdminInv'
<1> DEFINE r == Outcome(d)
           k == [desk[d] EXCEPT !.pc = "answer"]
<1>0. /\ desk \in [Desks -> Desk] /\ desk[d] \in Desk /\ desk[d].pc = "audit"
      /\ DeskSound(desk[d])
      /\ desk[d].order \in OrderIds /\ desk[d].operation \in RecoveryOperations
  BY DEF AdminInv, AdminAccessTypeOK, RecordsRecovery, DeskSound
<1>1. /\ desk' = [desk EXCEPT ![d] = k] /\ actions' = actions \cup {r}
      /\ UNCHANGED <<adminSessionVars, permissions, reauth, sms, order, audited, shown>>
  BY DEF RecordsRecovery, Audited, Put
<1>2. /\ k \in Desk /\ k.pc = "answer" /\ k.order = desk[d].order
      /\ k.operation = desk[d].operation /\ k.ok = desk[d].ok
  BY <1>0 DEF Desk
<1>3. r \in AuditRow /\ (r.ok => order[r.order] = ResultStatus[r.operation])
  BY <1>0 DEF Outcome, AuditRow, Desk, DeskSound
<1> HIDE DEF k, r
<1>4. DeskSound(k)
  BY <1>0, <1>2 DEF DeskSound
<1>5. AdminAccessTypeOK'
  <2>1. AdminSessions!SessionsTypeOK'
    BY <1>1 DEF AdminInv, AdminAccessTypeOK, adminSessionVars, AdminSessions!SessionsTypeOK
  <2>2. desk' \in [Desks -> Desk] /\ actions' \subseteq AuditRow
    BY <1>0, <1>1, <1>2, <1>3 DEF AdminInv, AdminAccessTypeOK
  <2> QED BY <1>1, <2>1, <2>2 DEF AdminInv, AdminAccessTypeOK
<1>6. \A x \in Desks : DeskSound(desk[x])'
  BY <1>0, <1>1, <1>4 DEF AdminInv, DeskSound
<1>7. EventsSuffice'
  <2>1. \A m \in SmsIds : Showing(m)' = Showing(m)
    BY <1>0, <1>1, <1>2 DEF Showing
  <2> QED BY <1>1, <2>1 DEF AdminInv, EventsSuffice
<1>8. AuditIsTrue'
  BY <1>1, <1>3 DEF AdminInv, AuditIsTrue
<1> QED BY <1>1, <1>5, <1>6, <1>7, <1>8 DEF AdminInv

(* The steps that no desk takes part in. *)
LEMMA AwayFromDesksInv ==
  ASSUME AdminInv, SessionStep \/ Reauthenticate \/ \E m \in SmsIds : RedactRawSms(m)
  PROVE  AdminInv'
<1>1. UNCHANGED <<order, desk, audited, shown, actions, permissions>>
  BY DEF SessionStep, Reauthenticate, RedactRawSms, workVars
<1>2. AdminSessions!SessionsTypeOK'
  <2>1. CASE UNCHANGED adminSessionVars
    BY <2>1 DEF AdminInv, AdminAccessTypeOK, adminSessionVars, AdminSessions!SessionsTypeOK
  <2>2. CASE SessionStep
    BY <2>2, SessionStepTyped DEF AdminInv, AdminAccessTypeOK
  <2> QED BY <2>1, <2>2 DEF Reauthenticate, RedactRawSms
<1>3. reauth' \in 0..(AdminHorizon + 1) /\ sms' \in [SmsIds -> {"kept", "redacted"}]
  <2>0. /\ adminTime \in 0..AdminHorizon /\ reauth \in 0..(AdminHorizon + 1)
        /\ sms \in [SmsIds -> {"kept", "redacted"}]
    BY DEF AdminInv, AdminAccessTypeOK, AdminSessions!SessionsTypeOK
  <2>1. CASE SessionStep
    BY <2>0, <2>1 DEF SessionStep, workVars
  <2>2. CASE Reauthenticate
    BY <2>0, <2>2, AdminAssumption DEF Reauthenticate, workVars
  <2>3. CASE \E m \in SmsIds : RedactRawSms(m)
    BY <2>0, <2>3 DEF RedactRawSms
  <2> QED BY <2>1, <2>2, <2>3
<1>4. AdminAccessTypeOK'
  BY <1>1, <1>2, <1>3 DEF AdminInv, AdminAccessTypeOK
<1> QED BY <1>1, <1>4 DEF AdminInv, DeskSound, EventsSuffice, Showing, AuditIsTrue

LEMMA AdminNextInv == AdminInv /\ [AdminAccessNext]_adminVars => AdminInv'
<1>1. ASSUME AdminInv, UNCHANGED adminVars PROVE AdminInv'
  BY <1>1 DEF adminVars, AdminInv, AdminAccessTypeOK, AdminSessions!SessionsTypeOK, DeskSound,
              EventsSuffice, Showing, AuditIsTrue
<1> QED BY <1>1, AwayFromDesksInv, RestartInv, RevealInv, RecordsAccessInv, ShowsInv, RecoverInv,
           RunCommandInv, RecordsRecoveryInv
        DEF AdminAccessNext

(* What administrators have under way stays well formed, every disclosure     *)
(* made or due has its event, and a command's success is the order's status. *)
THEOREM AdminInvariance == AdminAccessSpec => []AdminInv
BY AdminInitInv, AdminNextInv, PTL DEF AdminAccessSpec

(* No raw SMS is shown without an audit event of its own, and the trail never *)
(* claims a recovery that is not what became of the order.                   *)
THEOREM TrailTrue == AdminAccessSpec => []TrailIsTrue
<1>1. AdminInv => RevealedIsAudited
  <2> SUFFICES ASSUME AdminInv, NEW m \in SmsIds PROVE shown[m] <= audited[m]
    BY DEF RevealedIsAudited
  <2>1. IsFiniteSet(Showing(m)) /\ shown[m] + Cardinality(Showing(m)) <= audited[m]
    BY DEF AdminInv, EventsSuffice
  <2>2. Cardinality(Showing(m)) \in Nat
    BY <2>1, FS_CardinalityType
  <2>3. shown[m] \in Nat /\ audited[m] \in Nat
    BY DEF AdminInv
  <2> QED BY <2>1, <2>2, <2>3
<1>2. AdminInv => AuditIsTrue
  BY DEF AdminInv
<1>3. AdminInv => TrailIsTrue
  BY <1>1, <1>2 DEF TrailIsTrue
<1> QED BY <1>3, AdminInvariance, PTL

-------------------------------------------------------------------------------
(* The parts together.                                                      *)

(* A run of all parts, one at a time, is a run of each. *)
THEOREM PeopleSpecIsParts ==
  PeopleSpec => /\ SessionsSpec /\ AccountsSpec /\ LifecycleSpec /\ RateSpec
                /\ AdminAccessSpec
<1>1. PeopleInit => SessionsInit /\ AccountsInit /\ LifecycleInit /\ RateInit /\ AdminAccessInit
  BY DEF PeopleInit
<1>2. [PeopleNext]_<<focus, parts>> => [SessionsNext]_sessionVars
  BY DEF PeopleNext, parts
<1>3. [PeopleNext]_<<focus, parts>> => [AccountsNext]_accountVars
  BY DEF PeopleNext, parts
<1>4. [PeopleNext]_<<focus, parts>> => [LifecycleNext]_lifecycleVars
  BY DEF PeopleNext, parts
<1>5. [PeopleNext]_<<focus, parts>> => [RateNext]_rateVars
  BY DEF PeopleNext, parts
<1>6. [PeopleNext]_<<focus, parts>> => [AdminAccessNext]_adminVars
  BY DEF PeopleNext, parts
<1> QED BY <1>1, <1>2, <1>3, <1>4, <1>5, <1>6, PTL
        DEF PeopleSpec, SessionsSpec, AccountsSpec, LifecycleSpec, RateSpec, AdminAccessSpec

(* Every row, counter, session and operation of the people modules stays     *)
(* well formed.                                                             *)
THEOREM PeopleTyped == PeopleSpec => []PeopleTypeOK
<1>1. SessionsInv /\ AccountsInv /\ LifecycleInv /\ RateInv /\ AdminInv => PeopleTypeOK
  BY DEF SessionsInv, AccountsInv, LifecycleInv, RateInv, AdminInv, PeopleTypeOK
<1> QED BY <1>1, PeopleSpecIsParts, SessionsInvariance, AccountsInvariance, LifecycleInvariance,
           RateInvariance, AdminInvariance, PTL

===============================================================================
