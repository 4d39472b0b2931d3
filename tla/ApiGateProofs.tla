------------------------------ MODULE ApiGateProofs -----------------------------
(* Proofs about ApiGate: the inductive invariant, the two counts that follow *)
(* from it, and the completeness of a revocation.                            *)
EXTENDS ApiGate, TLAPS

LEMMA GateInitially == GateInit => GateIInv
<1> SUFFICES ASSUME GateInit PROVE GateIInv
  OBVIOUS
<1> USE DEF GateInit
<1>1. GateTypeOK
  BY GateAssumption
     DEF GateTypeOK, Idle, NoCommand, GateStep, CredentialStatus, Parties
<1>2. \A g \in Gates : AtGate(g, "idle")
  BY DEF AtGate, Idle
<1>3. NoncesCount /\ AnswersCount /\ CommandsKnow
  BY DEF NoncesCount, AnswersCount, CommandsKnow, NoCommand
<1> QED BY <1>1, <1>2, <1>3 DEF GateIInv

(* What is left alone stays as it is.                                       *)
LEMMA CommandsKept ==
  ASSUME CommandsKnow, UNCHANGED <<credential, manager>> PROVE CommandsKnow'
  BY DEF CommandsKnow, Issued

LEMMA CountsKept ==
  ASSUME NoncesCount, AnswersCount,
         UNCHANGED <<sent, nonces, accepted, answered, effects>>
  PROVE  NoncesCount' /\ AnswersCount'
  BY DEF NoncesCount, AnswersCount, Principal

LEMMA RequestsKept ==
  ASSUME GateIInv, UNCHANGED <<gate, sent>>
  PROVE  \A g \in Gates : ~AtGate(g, "idle")' => gate'[g].nonce \in Nonces /\ Of(g)' # Nil
  BY DEF GateIInv, AtGate, Of

-------------------------------------------------------------------------------
(* The portal's commands.                                                   *)

(* No command but those that issue makes a credential active, and no issued  *)
(* credential stops being issued.                                           *)
LEMMA RevokingTyped ==
  ASSUME GateTypeOK, NEW m \in Managers
  PROVE  /\ Revoking(m) \in [Credentials -> CredentialStatus]
         /\ \A c \in Credentials :
              /\ Revoking(m)[c] = "active" => credential[c] = "active"
              /\ Revoking(m)[c] = "none" <=> credential[c] = "none"
              /\ c \in manager[m].targets => Revoking(m)[c] # "active"
  BY DEF Revoking, GateTypeOK, CredentialStatus

LEMMA IssuingKeeps ==
  ASSUME GateTypeOK, CommandsKnow, NEW t \in Tokens, t \notin Issued,
         NEW before \in [Credentials -> CredentialStatus],
         \A c \in Credentials : /\ before[c] = "active" => credential[c] = "active"
                                /\ before[c] = "none" <=> credential[c] = "none",
         \/ credential' = before
         \/ credential' = [before EXCEPT ![t] = "active"],
         \A m \in Managers : manager'[m] = manager[m] \/ manager'[m] = NoCommand
  PROVE  CommandsKnow'
<1> SUFFICES ASSUME NEW m \in Managers, manager'[m].pc = "revoking"
             PROVE  /\ manager'[m].issued \subseteq Issued'
                    /\ \A u \in manager'[m].issued :
                         credential'[u] = "active" => u \in manager'[m].targets
  BY DEF CommandsKnow
<1>1. manager'[m] = manager[m]
  BY DEF NoCommand
<1>2. manager[m].issued \subseteq Issued
  BY <1>1 DEF CommandsKnow
<1>3. \A u \in Tokens : u # t => credential'[u] = before[u]
  BY DEF Credentials
<1>4. \A u \in Issued : u \in Tokens /\ u # t /\ credential[u] # "none"
  BY DEF Issued
<1>5. Issued \subseteq Issued'
  BY <1>3, <1>4 DEF Issued, Credentials
<1>6. \A u \in manager[m].issued : credential'[u] = "active" => credential[u] = "active"
  BY <1>2, <1>3, <1>4 DEF Credentials
<1> QED BY <1>1, <1>2, <1>5, <1>6 DEF CommandsKnow

LEMMA PortalKeeps ==
  ASSUME GateIInv,
         \/ \E t \in Tokens : CreateDevice(t)
         \/ \E m \in Managers :
              \/ \E kind \in {"revoke", "rotate"} : CommandBegins(m, kind)
              \/ RevokeCredential(m) \/ \E t \in Tokens : RotateCredential(m, t)
         \/ StatusChanges
  PROVE  GateIInv'
<1> USE DEF GateIInv
<1>1. ASSUME NEW t \in Tokens, CreateDevice(t) PROVE GateIInv'
  <2> USE DEF CreateDevice
  <2>1. GateTypeOK'
    BY <1>1 DEF GateTypeOK, CredentialStatus
  <2>2. CommandsKnow'
    BY <1>1, IssuingKeeps DEF GateTypeOK
  <2> QED BY <1>1, <2>1, <2>2, CountsKept, RequestsKept
<1>2. ASSUME NEW m \in Managers, NEW kind \in {"revoke", "rotate"}, CommandBegins(m, kind)
      PROVE  GateIInv'
  <2> USE DEF CommandBegins
  <2>1. GateTypeOK'
    BY <1>2 DEF GateTypeOK, Targets, Issued
  <2>2. CommandsKnow'
    <3> SUFFICES ASSUME NEW k \in Managers, manager'[k].pc = "revoking"
                 PROVE  /\ manager'[k].issued \subseteq Issued'
                        /\ \A u \in manager'[k].issued :
                             credential'[u] = "active" => u \in manager'[k].targets
      BY DEF CommandsKnow
    <3>1. Issued' = Issued
      BY <1>2 DEF Issued
    <3>2. CASE k = m
      BY <1>2, <3>1, <3>2 DEF GateTypeOK, Issued, Targets
    <3>3. CASE k # m
      BY <1>2, <3>1, <3>3 DEF GateTypeOK, CommandsKnow
    <3> QED BY <3>2, <3>3
  <2> QED BY <1>2, <2>1, <2>2, CountsKept, RequestsKept
<1>3. ASSUME NEW m \in Managers, RevokeCredential(m) PROVE GateIInv'
  <2> USE DEF RevokeCredential
  <2>1. GateTypeOK'
    BY <1>3, RevokingTyped DEF GateTypeOK, NoCommand
  <2>2. CommandsKnow'
    <3> SUFFICES ASSUME NEW k \in Managers, manager'[k].pc = "revoking"
                 PROVE  /\ manager'[k].issued \subseteq Issued'
                        /\ \A u \in manager'[k].issued :
                             credential'[u] = "active" => u \in manager'[k].targets
      BY DEF CommandsKnow
    <3>1. manager'[k] = manager[k]
      BY <1>3 DEF GateTypeOK, NoCommand
    <3>2. \A c \in Credentials : /\ credential'[c] = "active" => credential[c] = "active"
                                 /\ credential'[c] = "none" <=> credential[c] = "none"
      BY <1>3, RevokingTyped
    <3>3. Issued \subseteq Issued'
      BY <3>2 DEF Issued, Credentials
    <3>4. manager[k].issued \subseteq Credentials
      BY <3>1 DEF CommandsKnow, Issued, Credentials
    <3> QED BY <3>1, <3>2, <3>3, <3>4 DEF CommandsKnow
  <2> QED BY <1>3, <2>1, <2>2, CountsKept, RequestsKept
<1>4. ASSUME NEW m \in Managers, NEW t \in Tokens, RotateCredential(m, t) PROVE GateIInv'
  <2> USE DEF RotateCredential
  <2>1. GateTypeOK'
    BY <1>4, RevokingTyped DEF GateTypeOK, NoCommand, CredentialStatus
  <2>2. \A k \in Managers : manager'[k] = manager[k] \/ manager'[k] = NoCommand
    BY <1>4 DEF GateTypeOK
  <2>3. CommandsKnow'
    BY <1>4, <2>2, RevokingTyped, IssuingKeeps
  <2> QED BY <1>4, <2>1, <2>3, CountsKept, RequestsKept
<1>5. ASSUME StatusChanges PROVE GateIInv'
  <2> USE DEF StatusChanges
  <2>1. GateTypeOK'
    BY <1>5 DEF GateTypeOK
  <2> QED BY <1>5, <2>1, CommandsKept, CountsKept, RequestsKept
<1> QED BY <1>1, <1>2, <1>3, <1>4, <1>5

-------------------------------------------------------------------------------
(* Requests.                                                                *)

(* A gate that moves on with the request it has, or leaves it.              *)
LEMMA GateMoves ==
  ASSUME GateIInv, NEW g \in Gates, UNCHANGED sent,
         NEW w \in [pc : GateStep, nonce : Nonces \cup {Nil}, expires : Nat],
         gate' = [gate EXCEPT ![g] = w],
         w.pc # "idle" => w.nonce \in Nonces /\ sent[w.nonce] # Nil
  PROVE  /\ gate' \in [Gates -> [pc : GateStep, nonce : Nonces \cup {Nil}, expires : Nat]]
         /\ \A h \in Gates : ~AtGate(h, "idle")' => gate'[h].nonce \in Nonces /\ Of(h)' # Nil
  BY DEF GateIInv, GateTypeOK, AtGate, Of

LEMMA IdleTyped == Idle \in [pc : GateStep, nonce : Nonces \cup {Nil}, expires : Nat]
  BY DEF Idle, GateStep

LEMMA RequestKeeps ==
  ASSUME GateIInv,
         \/ \E n \in Nonces, c \in Credentials, at \in 0..LastSecond, k \in IdemKeys :
              Sign(n, c, at, k)
         \/ \E g \in Gates :
              \/ \E n \in Nonces : Arrive(g, n)
              \/ ValidateReplay(g) \/ RegisterNonce(g) \/ Handle(g) \/ GateCrash(g)
         \/ SecondPasses
  PROVE  GateIInv'
<1> USE DEF GateIInv
<1>1. ASSUME NEW n \in Nonces, NEW c \in Credentials, NEW at \in 0..LastSecond,
             NEW k \in IdemKeys, Sign(n, c, at, k)
      PROVE  GateIInv'
  <2> USE DEF Sign
  <2> DEFINE r == [cred |-> c, at |-> at, key |-> k]
  <2>1. r \in Request /\ r # Nil
    BY GateAssumption DEF Request
  <2>2. \A o \in Nonces : sent'[o] = IF o = n THEN r ELSE sent[o]
    BY <1>1 DEF GateTypeOK
  <2>3. GateTypeOK'
    BY <1>1, <2>1 DEF GateTypeOK
  <2>4. \A g \in Gates : ~AtGate(g, "idle")' => gate'[g].nonce \in Nonces /\ Of(g)' # Nil
    BY <1>1, <2>1, <2>2 DEF AtGate, Of
  <2>5. NoncesCount'
    <3>1. \A x \in nonces : x.nonce \in Nonces /\ sent'[x.nonce] = sent[x.nonce]
      BY <1>1, <2>2 DEF GateTypeOK, NoncesCount
    <3> QED BY <1>1, <3>1 DEF NoncesCount, Principal
  <2>6. AnswersCount' /\ CommandsKnow'
    BY <1>1, CommandsKept DEF AnswersCount
  <2> QED BY <2>3, <2>4, <2>5, <2>6
<1>2. ASSUME NEW g \in Gates, NEW n \in Nonces, Arrive(g, n) PROVE GateIInv'
  <2> USE DEF Arrive, NotStored
  <2>1. [pc |-> "replay", nonce |-> n, expires |-> 0]
          \in [pc : GateStep, nonce : Nonces \cup {Nil}, expires : Nat]
    BY DEF GateStep
  <2>2. /\ gate' \in [Gates -> [pc : GateStep, nonce : Nonces \cup {Nil}, expires : Nat]]
        /\ \A h \in Gates : ~AtGate(h, "idle")' => gate'[h].nonce \in Nonces /\ Of(h)' # Nil
    BY <1>2, <2>1, GateMoves
  <2>3. GateTypeOK'
    BY <1>2, <2>2 DEF GateTypeOK
  <2> QED BY <1>2, <2>2, <2>3, CommandsKept, CountsKept
<1>3. ASSUME NEW g \in Gates, ValidateReplay(g) PROVE GateIInv'
  <2> USE DEF ValidateReplay, NotStored
  <2>1. gate[g].nonce \in Nonces /\ sent[gate[g].nonce] # Nil
    BY <1>3 DEF AtGate, Of
  <2>2. second + NonceTtl \in Nat
    BY GateAssumption DEF GateTypeOK
  <2> DEFINE w == [gate[g] EXCEPT !.pc = "register", !.expires = second + NonceTtl]
  <2>3. w \in [pc : GateStep, nonce : Nonces \cup {Nil}, expires : Nat] /\ w.nonce = gate[g].nonce
    <3>1. gate[g] \in [pc : GateStep, nonce : Nonces \cup {Nil}, expires : Nat]
      BY DEF GateTypeOK
    <3>2. \A e \in Nat : [gate[g] EXCEPT !.pc = "register", !.expires = e]
                           \in [pc : GateStep, nonce : Nonces \cup {Nil}, expires : Nat]
      BY <3>1 DEF GateStep
    <3> QED BY <2>2, <3>1, <3>2
  <2>4. /\ gate' \in [Gates -> [pc : GateStep, nonce : Nonces \cup {Nil}, expires : Nat]]
        /\ \A h \in Gates : ~AtGate(h, "idle")' => gate'[h].nonce \in Nonces /\ Of(h)' # Nil
    <3>1. CASE WithinSkew(Of(g).at)
      <4>1. gate' = [gate EXCEPT ![g] = w]
        BY <1>3, <3>1 DEF GateTypeOK
      <4> HIDE DEF w
      <4> QED BY <1>3, <2>1, <2>3, <4>1, GateMoves
    <3>2. CASE ~WithinSkew(Of(g).at)
      BY <1>3, <3>2, IdleTyped, GateMoves DEF Leaves, Idle
    <3> QED BY <3>1, <3>2
  <2>5. GateTypeOK'
    BY <1>3, <2>4 DEF GateTypeOK
  <2> QED BY <1>3, <2>4, <2>5, CommandsKept, CountsKept
<1>4. ASSUME NEW g \in Gates, RegisterNonce(g) PROVE GateIInv'
  <2> DEFINE n == gate[g].nonce
             p == Principal(Of(g).cred)
             x == [principal |-> p, nonce |-> n, expires |-> gate[g].expires]
  <2>1. n \in Nonces /\ sent[n] # Nil /\ Of(g) = sent[n]
    BY <1>4 DEF RegisterNonce, AtGate, Of
  <2>2. CommandsKnow' /\ AnswersCount'
    BY <1>4, CommandsKept DEF RegisterNonce, AnswersCount
  <2>3. CASE FreshNonce(p, n)
    <3>1. /\ nonces' = nonces \cup {x}
          /\ accepted' = [accepted EXCEPT ![n] = @ + 1]
          /\ gate' = [gate EXCEPT ![g].pc = "handle"]
          /\ UNCHANGED sent
      BY <1>4, <2>3 DEF RegisterNonce, MovesTo
    <3>2. p \in Parties
      BY DEF Principal, Parties
    <3>3. x \in [principal : Parties, nonce : Nonces, expires : Nat]
      BY <2>1, <3>2 DEF GateTypeOK
    <3>4. ~\E y \in nonces : y.nonce = n
      BY <2>1, <2>3 DEF FreshNonce, NoncesCount
    <3>5. accepted[n] = 0
      BY <2>1, <3>4 DEF NoncesCount
    <3>9. \A o \in Nonces : accepted'[o] = IF o = n THEN 1 ELSE accepted[o]
      <4> HIDE DEF n, x
      <4> QED BY <2>1, <3>1, <3>5 DEF GateTypeOK
    <3>6. NoncesCount'
      <4>1. \A y \in nonces' : sent'[y.nonce] # Nil /\ y.principal = Principal(sent'[y.nonce].cred)
        BY <2>1, <3>1 DEF NoncesCount
      <4>2. ASSUME NEW o \in Nonces
            PROVE accepted'[o] = IF \E y \in nonces' : y.nonce = o THEN 1 ELSE 0
        <5>1. CASE o = n
          <6>1. x \in nonces' /\ x.nonce = o
            BY <3>1, <5>1
          <6>2. \E y \in nonces' : y.nonce = o
            <7> HIDE DEF x
            <7> QED BY <6>1
          <6> HIDE DEF n, x
          <6> QED BY <2>1, <3>9, <5>1, <6>2
        <5>2. CASE o # n
          BY <2>1, <3>1, <3>9, <5>2 DEF NoncesCount
        <5> QED BY <5>1, <5>2
      <4> QED BY <4>1, <4>2 DEF NoncesCount, Principal
    <3>7. /\ gate' \in [Gates -> [pc : GateStep, nonce : Nonces \cup {Nil}, expires : Nat]]
          /\ \A h \in Gates : ~AtGate(h, "idle")' => gate'[h].nonce \in Nonces /\ Of(h)' # Nil
      <4> DEFINE w == [gate[g] EXCEPT !.pc = "handle"]
      <4>1. w \in [pc : GateStep, nonce : Nonces \cup {Nil}, expires : Nat] /\ w.nonce = n
        BY DEF GateTypeOK, GateStep
      <4>2. gate' = [gate EXCEPT ![g] = w]
        BY <3>1 DEF GateTypeOK
      <4> HIDE DEF w, n
      <4> QED BY <2>1, <3>1, <4>1, <4>2, GateMoves
    <3>8. GateTypeOK'
      <4>1. accepted' \in [Nonces -> Nat]
        <5> HIDE DEF n, x
        <5>1. accepted[n] + 1 \in Nat
          BY <3>5
        <5> QED BY <3>1, <5>1 DEF GateTypeOK
      <4>2. nonces' \subseteq [principal : Parties, nonce : Nonces, expires : Nat]
        BY <3>1, <3>3 DEF GateTypeOK
      <4> QED BY <1>4, <3>7, <4>1, <4>2 DEF RegisterNonce, GateTypeOK
    <3> QED BY <2>2, <3>6, <3>7, <3>8
  <2>4. CASE ~FreshNonce(p, n)
    <3>1. gate' = [gate EXCEPT ![g] = Idle] /\ UNCHANGED <<nonces, accepted, sent>>
      BY <1>4, <2>4 DEF RegisterNonce, Leaves
    <3>2. /\ gate' \in [Gates -> [pc : GateStep, nonce : Nonces \cup {Nil}, expires : Nat]]
          /\ \A h \in Gates : ~AtGate(h, "idle")' => gate'[h].nonce \in Nonces /\ Of(h)' # Nil
      BY <3>1, IdleTyped, GateMoves DEF Idle
    <3>3. GateTypeOK'
      BY <1>4, <3>1, <3>2 DEF RegisterNonce, GateTypeOK
    <3>4. NoncesCount'
      BY <3>1 DEF NoncesCount, Principal
    <3> QED BY <2>2, <3>2, <3>3, <3>4
  <2> QED BY <2>3, <2>4
<1>5. ASSUME NEW g \in Gates, Handle(g) PROVE GateIInv'
  <2> DEFINE r == Of(g)
             record == <<Principal(r.cred), r.key>>
  <2>1. r \in Request
    BY <1>5 DEF Handle, AtGate, Of, GateTypeOK
  <2>2. record \in Parties \X IdemKeys /\ record = <<Party(r.cred), r.key>>
    BY <2>1 DEF Request, Principal, Party, Parties
  <2>3. gate' = [gate EXCEPT ![g] = Idle] /\ UNCHANGED <<sent, nonces, accepted, credential, manager>>
    BY <1>5 DEF Handle, Leaves
  <2>4. /\ gate' \in [Gates -> [pc : GateStep, nonce : Nonces \cup {Nil}, expires : Nat]]
        /\ \A h \in Gates : ~AtGate(h, "idle")' => gate'[h].nonce \in Nonces /\ Of(h)' # Nil
    BY <2>3, IdleTyped, GateMoves DEF Idle
  <2>5. /\ answered' \subseteq Parties \X IdemKeys
        /\ effects' \in [Parties \X IdemKeys -> Nat]
        /\ AnswersCount'
    <3>1. CASE record \in answered
      <4>1. answered' = answered /\ effects' = effects
        BY <1>5, <3>1 DEF Handle
      <4> QED BY <4>1 DEF GateTypeOK, AnswersCount
    <3>2. CASE record \notin answered
      <4>1. answered' = answered \cup {record} /\ effects' = [effects EXCEPT ![record] = @ + 1]
        BY <1>5, <2>2, <3>2 DEF Handle
      <4> HIDE DEF record
      <4>2. effects[record] = 0
        BY <2>2, <3>2 DEF AnswersCount
      <4>3. \A y \in Parties \X IdemKeys : effects'[y] = IF y = record THEN 1 ELSE effects[y]
        BY <4>1, <4>2 DEF GateTypeOK
      <4>4. effects' \in [Parties \X IdemKeys -> Nat]
        <5>1. effects[record] + 1 \in Nat
          BY <4>2
        <5> QED BY <4>1, <5>1 DEF GateTypeOK
      <4>5. AnswersCount'
        BY <4>1, <4>3 DEF AnswersCount
      <4> QED BY <2>2, <4>1, <4>4, <4>5 DEF GateTypeOK
    <3> QED BY <3>1, <3>2
  <2>6. GateTypeOK'
    BY <1>5, <2>4, <2>5 DEF Handle, GateTypeOK
  <2>7. NoncesCount' /\ CommandsKnow'
    BY <2>3, CommandsKept DEF NoncesCount, Principal
  <2> QED BY <2>4, <2>5, <2>6, <2>7
<1>6. ASSUME NEW g \in Gates, GateCrash(g) PROVE GateIInv'
  <2> USE DEF GateCrash, NotStored, Leaves
  <2>1. /\ gate' \in [Gates -> [pc : GateStep, nonce : Nonces \cup {Nil}, expires : Nat]]
        /\ \A h \in Gates : ~AtGate(h, "idle")' => gate'[h].nonce \in Nonces /\ Of(h)' # Nil
    BY <1>6, IdleTyped, GateMoves DEF Idle
  <2>2. GateTypeOK'
    BY <1>6, <2>1 DEF GateTypeOK
  <2> QED BY <1>6, <2>1, <2>2, CommandsKept, CountsKept
<1>7. ASSUME SecondPasses PROVE GateIInv'
  <2> USE DEF SecondPasses
  <2>1. GateTypeOK'
    BY <1>7, GateAssumption DEF GateTypeOK
  <2> QED BY <1>7, <2>1, CommandsKept, CountsKept, RequestsKept
<1> QED BY <1>1, <1>2, <1>3, <1>4, <1>5, <1>6, <1>7

LEMMA GateStutters == ASSUME GateIInv, UNCHANGED gateVars PROVE GateIInv'
<1> USE DEF gateVars, GateIInv
<1>1. GateTypeOK'
  BY DEF GateTypeOK
<1> QED BY <1>1, CommandsKept, CountsKept, RequestsKept

LEMMA GateStepKeeps == GateIInv /\ [GateNext]_gateVars => GateIInv'
  BY PortalKeeps, RequestKeeps, GateStutters DEF GateNext

-------------------------------------------------------------------------------
(* Theorems.                                                                *)

(* The inductive invariant holds.                                           *)
THEOREM GateInvariance == GateSpec => []GateIInv
  BY GateInitially, GateStepKeeps, PTL DEF GateSpec

(* The gate lets a request in once, for any number of deliveries, workers   *)
(* and nonces and any skew.                                                 *)
THEOREM RequestAcceptedOnce == GateSpec => []AcceptedOnce
<1>1. GateIInv => AcceptedOnce
  BY DEF GateIInv, NoncesCount, AcceptedOnce
<1> QED BY <1>1, GateInvariance, PTL

(* A request signed again has its effect once, whatever credentials its     *)
(* party held meanwhile.                                                    *)
THEOREM EffectHappensOnce == GateSpec => []EffectOnce
<1>1. GateIInv => EffectOnce
  BY DEF GateIInv, AnswersCount, EffectOnce
<1> QED BY <1>1, GateInvariance, PTL

(* A rotation or revocation that commits leaves no credential active that    *)
(* was issued before it began, for any number of commands and credentials.  *)
THEOREM RevocationCompletes == GateSpec => RevocationIsComplete
<1>1. GateIInv /\ [GateNext]_gateVars => CommandsRevoke
  <2> SUFFICES ASSUME GateIInv, [GateNext]_gateVars, NEW m \in Managers,
                      manager[m].pc = "revoking", manager'[m].pc = "idle",
                      NEW t \in manager[m].issued
               PROVE  credential'[t] # "active"
    BY DEF CommandsRevoke, CommandRevokes
  <2>1. /\ t \in Tokens /\ t \in Credentials /\ t \in Issued
        /\ credential[t] = "active" => t \in manager[m].targets
    BY DEF GateIInv, CommandsKnow, Issued, Credentials
  <2>2. RevokeCredential(m) \/ \E u \in Tokens : RotateCredential(m, u)
    <3>1. manager' # manager
      OBVIOUS
    <3>2. ASSUME NEW k \in Managers, NEW kind \in {"revoke", "rotate"}, CommandBegins(k, kind)
          PROVE  FALSE
      BY <3>2 DEF CommandBegins, GateIInv, GateTypeOK
    <3>3. ASSUME NEW k \in Managers,
                 RevokeCredential(k) \/ \E u \in Tokens : RotateCredential(k, u)
          PROVE  k = m
      BY <3>3 DEF RevokeCredential, RotateCredential, GateIInv, GateTypeOK
    <3> QED BY <3>1, <3>2, <3>3
            DEF GateNext, gateVars, CreateDevice, StatusChanges, Sign, Arrive, ValidateReplay,
                RegisterNonce, Handle, GateCrash, SecondPasses, NotStored
  <2>3. Revoking(m)[t] # "active" /\ Revoking(m) \in [Credentials -> CredentialStatus]
    BY <2>1, RevokingTyped DEF GateIInv
  <2>4. CASE RevokeCredential(m)
    BY <2>3, <2>4 DEF RevokeCredential
  <2>5. CASE \E u \in Tokens : RotateCredential(m, u)
    BY <2>1, <2>3, <2>5 DEF RotateCredential
  <2> QED BY <2>2, <2>4, <2>5
<1> QED BY <1>1, GateInvariance, PTL DEF GateSpec, RevocationIsComplete

===============================================================================
