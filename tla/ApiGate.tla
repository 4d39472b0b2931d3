------------------------------- MODULE ApiGate ---------------------------------
(***************************************************************************)
(* The gate of the Agent API and the Internal API: signed requests that the *)
(* network loses, delays, reorders and delivers again, the checks a request *)
(* passes in order (credential and status, rate limit, clock skew, nonce),  *)
(* the handler behind it, and the device credentials the portal issues,     *)
(* rotates and revokes meanwhile.                                           *)
(*                                                                         *)
(* Abstractions.  A signature or secret that does not verify, a body over   *)
(* the limit, a request over plain HTTP or with malformed headers is never  *)
(* delivered: it changes nothing but the counter of its address.  The rate  *)
(* limit either lets a request pass or refuses it (RateLimit models the     *)
(* counters).  A handler's effect and its idempotency record are one        *)
(* transaction (Reservation models the engine); a request without a key (a  *)
(* heartbeat, a read) has no effect to repeat and is left out.  Seconds are *)
(* those of the server; a client stamps whatever its own clock says.        *)
(***************************************************************************)
EXTENDS Integers, FiniteSets

CONSTANTS
  Tokens,      \* public ids of device credentials
  Keys,        \* key ids of the main site's service credential
  Nonces,      \* nonces clients mint, each for one request
  IdemKeys,    \* idempotency keys
  Nil,
  Gates,       \* requests being handled at a time
  Managers,    \* credential commands under way at a time
  MaxSkew,     \* maxClockSkewSeconds
  NonceTtl,    \* nonceTtlSeconds
  LastSecond   \* bound on the server's clock

Credentials == Tokens \cup Keys
Request == [cred : Credentials, at : 0..LastSecond, key : IdemKeys]

ASSUME GateAssumption ==
  /\ MaxSkew \in Nat /\ NonceTtl \in Nat /\ NonceTtl >= 2 * MaxSkew
  /\ LastSecond \in Nat
  /\ Tokens \cap Keys = {} /\ Nil \notin Request

VARIABLES
  second,      \* the server's clock
  credential,  \* status of every credential row, "none" before it is issued
  configured,  \* the current and the previous key id of the runtime configuration
  gateDevice,  \* effectiveStatus of the device; "none" before it is created
  gatePartner, \* status of its partner
  sent,        \* the request signed with a nonce
  nonces,      \* replay_nonces
  answered,    \* idempotency records
  gate,        \* the requests being handled
  manager,     \* the credential commands under way
  accepted,    \* history: how often the gate let a request in
  effects      \* history: effects per party and idempotency key

gateVars == <<second, credential, configured, gateDevice, gatePartner, sent, nonces,
              answered, gate, manager, accepted, effects>>

Parties == {"device", "service"}
CredentialStatus == {"none", "active", "superseded", "revoked"}
GateStep == {"idle", "replay", "register", "handle"}

Idle == [pc |-> "idle", nonce |-> Nil, expires |-> 0]
NoCommand == [pc |-> "idle", kind |-> "revoke", targets |-> {}, issued |-> {}]

GateInit ==
  /\ second = 0
  /\ credential \in [Credentials -> CredentialStatus]
  /\ \A c \in Tokens : credential[c] = "none"
  /\ configured \in SUBSET Keys /\ Cardinality(configured) \in 1..2
  /\ gateDevice = "none" /\ gatePartner = "approved"
  /\ sent = [n \in Nonces |-> Nil]
  /\ nonces = {} /\ answered = {}
  /\ gate = [g \in Gates |-> Idle]
  /\ manager = [m \in Managers |-> NoCommand]
  /\ accepted = [n \in Nonces |-> 0]
  /\ effects = [x \in Parties \X IdemKeys |-> 0]

-------------------------------------------------------------------------------
(* The portal's commands on a device and its credentials.                   *)

Issued == {c \in Tokens : credential[c] # "none"}

(* Device and first credential, in one transaction.                         *)
CreateDevice(t) ==
  /\ gateDevice = "none" /\ gatePartner = "approved" /\ t \notin Issued
  /\ gateDevice' = "offline"
  /\ credential' = [credential EXCEPT ![t] = "active"]
  /\ UNCHANGED <<second, configured, gatePartner, sent, nonces, answered, gate, manager,
                 accepted, effects>>

(* Mutant: a command revokes one active credential, as if there were one. *)
TargetsOne ==
  IF \E t \in Tokens : credential[t] = "active"
  THEN {CHOOSE t \in Tokens : credential[t] = "active"} ELSE {}

(* The rows revokeActiveCredentials finds: those active as it starts.       *)
Targets == {t \in Tokens : credential[t] = "active"}

CommandBegins(m, kind) ==
  /\ manager[m].pc = "idle" /\ gateDevice # "none"
  /\ manager' = [manager EXCEPT ![m] = [pc |-> "revoking", kind |-> kind,
                                       targets |-> Targets, issued |-> Issued]]
  /\ UNCHANGED <<second, credential, configured, gateDevice, gatePartner, sent, nonces,
                 answered, gate, accepted, effects>>

(* A row another command revoked meanwhile is passed over; one it issued    *)
(* meanwhile is not seen.                                                   *)
Revoking(m) ==
  [c \in Credentials |-> IF c \in manager[m].targets /\ credential[c] = "active"
                         THEN "revoked" ELSE credential[c]]

RevokeCredential(m) ==
  /\ manager[m].pc = "revoking" /\ manager[m].kind = "revoke"
  /\ credential' = Revoking(m)
  /\ manager' = [manager EXCEPT ![m] = NoCommand]
  /\ UNCHANGED <<second, configured, gateDevice, gatePartner, sent, nonces, answered,
                 gate, accepted, effects>>

RotateCredential(m, t) ==
  /\ manager[m].pc = "revoking" /\ manager[m].kind = "rotate" /\ t \notin Issued
  /\ credential' = [Revoking(m) EXCEPT ![t] = "active"]
  /\ manager' = [manager EXCEPT ![m] = NoCommand]
  /\ UNCHANGED <<second, configured, gateDevice, gatePartner, sent, nonces, answered,
                 gate, accepted, effects>>

(* The device is disabled or re-enabled ("online" admits what "offline"     *)
(* admits), its partner suspended or reinstated.                            *)
StatusChanges ==
  /\ \/ /\ gateDevice # "none" /\ gateDevice' \in {"offline", "disabled"} \ {gateDevice}
        /\ UNCHANGED gatePartner
     \/ gatePartner' \in {"approved", "suspended"} \ {gatePartner} /\ UNCHANGED gateDevice
  /\ UNCHANGED <<second, credential, configured, sent, nonces, answered, gate, manager,
                 accepted, effects>>

-------------------------------------------------------------------------------
(* A request.                                                               *)

(* A client signs a request with a fresh nonce; a retry of what it asked    *)
(* before has the same key, and whatever credential it then holds.          *)
Sign(n, c, at, k) ==
  /\ sent[n] = Nil /\ c \in Issued \cup Keys
  /\ sent' = [sent EXCEPT ![n] = [cred |-> c, at |-> at, key |-> k]]
  /\ UNCHANGED <<second, credential, configured, gateDevice, gatePartner, nonces,
                 answered, gate, manager, accepted, effects>>

(* Mutant: the principal is the credential. *)
PrincipalCredential(c) == c

(* The principal of a nonce and of an idempotency record: the device or the *)
(* client, whatever credential signed.                                      *)
Principal(c) == IF c \in Keys THEN "service" ELSE "device"

(* The party that holds a credential.                                       *)
Party(c) == IF c \in Keys THEN "service" ELSE "device"

(* findByPublicId, findCredential and selectSecret.                         *)
Admits(c) ==
  /\ credential[c] = "active"
  /\ IF c \in Keys THEN c \in configured
     ELSE gatePartner = "approved" /\ gateDevice # "disabled"

AtGate(g, pc) == gate[g].pc = pc
MovesTo(g, pc) == gate' = [gate EXCEPT ![g].pc = pc]
Leaves(g) == gate' = [gate EXCEPT ![g] = Idle]
Of(g) == sent[gate[g].nonce]

NotStored ==
  UNCHANGED <<second, credential, configured, gateDevice, gatePartner, sent, nonces,
              answered, manager, accepted, effects>>

(* A delivery, the first or another one, that its budget lets pass: the     *)
(* network keeps what was sent.  A replay spends from the budget like any   *)
(* request, for the nonce is looked at last.                                *)
Arrive(g, n) ==
  /\ AtGate(g, "idle") /\ sent[n] # Nil /\ Admits(sent[n].cred)
  /\ gate' = [gate EXCEPT ![g] = [pc |-> "replay", nonce |-> n, expires |-> 0]]
  /\ NotStored

WithinSkew(at) == second - at <= MaxSkew /\ at - second <= MaxSkew

ValidateReplay(g) ==
  /\ AtGate(g, "replay")
  /\ IF WithinSkew(Of(g).at)
     THEN gate' = [gate EXCEPT ![g].pc = "register", ![g].expires = second + NonceTtl]
     ELSE Leaves(g)
  /\ NotStored

(* Mutant: a row that has expired no longer counts, as if it were swept. *)
FreshNonceSwept(p, n) ==
  ~\E x \in nonces : x.principal = p /\ x.nonce = n /\ x.expires > second

(* The unique constraint on principal and nonce; no row is ever deleted.    *)
FreshNonce(p, n) == ~\E x \in nonces : x.principal = p /\ x.nonce = n

RegisterNonce(g) ==
  LET p == Principal(Of(g).cred) n == gate[g].nonce IN
  /\ AtGate(g, "register")
  /\ \/ /\ FreshNonce(p, n)
        /\ nonces' = nonces \cup {[principal |-> p, nonce |-> n, expires |-> gate[g].expires]}
        /\ accepted' = [accepted EXCEPT ![n] = @ + 1]
        /\ MovesTo(g, "handle")
     \/ ~FreshNonce(p, n) /\ Leaves(g) /\ UNCHANGED <<nonces, accepted>>
  /\ UNCHANGED <<second, credential, configured, gateDevice, gatePartner, sent, answered,
                 manager, effects>>

(* The handler: a key that has its answer gets the answer, any other the    *)
(* effect and its record.                                                   *)
Handle(g) ==
  LET r == Of(g)
      record == <<Principal(r.cred), r.key>>
      apply == record \notin answered
  IN
  /\ AtGate(g, "handle") /\ Leaves(g)
  /\ answered' = IF apply THEN answered \cup {record} ELSE answered
  /\ effects' = IF apply THEN [effects EXCEPT ![<<Party(r.cred), r.key>>] = @ + 1]
                ELSE effects
  /\ UNCHANGED <<second, credential, configured, gateDevice, gatePartner, sent, nonces,
                 manager, accepted>>

(* The process dies, or the effect throws: what was registered stays.       *)
GateCrash(g) == ~AtGate(g, "idle") /\ Leaves(g) /\ NotStored

SecondPasses ==
  /\ second < LastSecond /\ second' = second + 1
  /\ UNCHANGED <<credential, configured, gateDevice, gatePartner, sent, nonces, answered,
                 gate, manager, accepted, effects>>

GateNext ==
  \/ \E t \in Tokens : CreateDevice(t)
  \/ \E m \in Managers :
       \/ \E kind \in {"revoke", "rotate"} : CommandBegins(m, kind)
       \/ RevokeCredential(m) \/ \E t \in Tokens : RotateCredential(m, t)
  \/ StatusChanges
  \/ \E n \in Nonces, c \in Credentials, at \in 0..LastSecond, k \in IdemKeys :
       Sign(n, c, at, k)
  \/ \E g \in Gates :
       \/ \E n \in Nonces : Arrive(g, n)
       \/ ValidateReplay(g) \/ RegisterNonce(g) \/ Handle(g)
       \/ GateCrash(g)
  \/ SecondPasses

GateSpec == GateInit /\ [][GateNext]_gateVars

-------------------------------------------------------------------------------
(* Properties.                                                              *)

GateTypeOK ==
  /\ second \in 0..LastSecond
  /\ credential \in [Credentials -> CredentialStatus]
  /\ configured \subseteq Keys
  /\ gateDevice \in {"none", "offline", "disabled"}
  /\ gatePartner \in {"approved", "suspended"}
  /\ sent \in [Nonces -> Request \cup {Nil}]
  /\ nonces \subseteq [principal : Parties, nonce : Nonces, expires : Nat]
  /\ answered \subseteq Parties \X IdemKeys
  /\ gate \in [Gates -> [pc : GateStep, nonce : Nonces \cup {Nil}, expires : Nat]]
  /\ manager \in [Managers -> [pc : {"idle", "revoking"}, kind : {"revoke", "rotate"},
                              targets : SUBSET Tokens, issued : SUBSET Tokens]]
  /\ accepted \in [Nonces -> Nat] /\ effects \in [Parties \X IdemKeys -> Nat]

(* However often and late a request is delivered, and to however many       *)
(* workers at once, the gate lets it in once.                               *)
AcceptedOnce == \A n \in Nonces : accepted[n] <= 1

(* A request signed again, after a lost answer, a crash or a rotation of    *)
(* the credential it was first signed with, has its effect once.            *)
EffectOnce == \A x \in Parties \X IdemKeys : effects[x] <= 1

(* The inductive invariant of the proofs: a request was let in exactly if its *)
(* nonce is on record, an effect exists exactly if its key has its answer,    *)
(* and a command under way knows every active credential issued before it.    *)
NoncesCount ==
  /\ \A x \in nonces : sent[x.nonce] # Nil /\ x.principal = Principal(sent[x.nonce].cred)
  /\ \A n \in Nonces : accepted[n] = IF \E x \in nonces : x.nonce = n THEN 1 ELSE 0

AnswersCount ==
  \A x \in Parties \X IdemKeys : effects[x] = IF x \in answered THEN 1 ELSE 0

CommandsKnow ==
  \A m \in Managers : manager[m].pc = "revoking" =>
    /\ manager[m].issued \subseteq Issued
    /\ \A t \in manager[m].issued : credential[t] = "active" => t \in manager[m].targets

GateIInv ==
  /\ GateTypeOK
  /\ \A g \in Gates : ~AtGate(g, "idle") => gate[g].nonce \in Nonces /\ Of(g) # Nil
  /\ NoncesCount /\ AnswersCount /\ CommandsKnow

(* When a rotation or revocation commits, no credential issued before it    *)
(* began is active, however the commands on the device overlap.             *)
CommandRevokes(m) ==
  manager[m].pc = "revoking" /\ manager'[m].pc = "idle" =>
    \A t \in manager[m].issued : credential'[t] # "active"

CommandsRevoke == \A m \in Managers : CommandRevokes(m)
RevocationIsComplete == [][CommandsRevoke]_gateVars

===============================================================================
