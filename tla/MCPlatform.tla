------------------------------ MODULE MCPlatform -------------------------------
(* Small instances of the API gate, the offers, the reading of an SMS for a  *)
(* code and the health probe of the scheduler, for TLC.  They share no       *)
(* state; a behaviour moves one of them, and TLC takes the interleavings of  *)
(* gate and offers apart, by what is under way at the same time.            *)
EXTENDS ApiGate, Offers, Otp, CronHealth, TLC

VARIABLE focus

Busy(states) == {x \in DOMAIN states : states[x].pc # "idle"}
AtMostOne(set) == Cardinality(set) <= 1

(* Deliveries of one request overlap; retries of one key follow each other,  *)
(* with rotations between them; credential commands overlap, so that three   *)
(* credentials may have been issued and two of them be active.              *)
GateFocus ==
  /\ focus = "deliveries" =>
       Busy(manager') = {} /\ AtMostOne({n \in Nonces : sent'[n] # Nil})
  /\ focus = "retries" =>
       /\ AtMostOne(Busy(manager')) /\ AtMostOne(Busy(gate'))
       /\ gatePartner' = "approved" /\ gateDevice' # "disabled"
  /\ focus = "commands" => sent' = sent
  /\ focus # "commands" => Cardinality({t \in Tokens : credential'[t] # "none"}) <= 2

(* Prices change around one offer and one command at a time; commands        *)
(* overlap on two offers under one configuration.                           *)
OneOffer == CHOOSE i \in OfferIds : TRUE
OffersFocus ==
  /\ focus = "prices" =>
       /\ AtMostOne(Busy(site')) /\ approved' = approved
       /\ \A i \in OfferIds : offer'[i] # NoOffer => i = OneOffer
  /\ focus = "slots" =>
       <<configOf, catalog, publisher, priced>>' = <<configOf, catalog, publisher, priced>>

PlatformInit ==
  /\ focus \in {"deliveries", "retries", "commands", "prices", "slots", "otp", "health"}
  /\ GateInit /\ OffersInit /\ OtpInit /\ HealthInit
  /\ focus \notin {"deliveries", "retries", "commands"} =>
       credential = [c \in Credentials |-> "none"]
  /\ focus = "retries" => \A c \in Keys : credential[c] = "active"
  /\ focus \notin {"prices", "slots"} => configOf[1] = CHOOSE c \in Configs : TRUE
  /\ focus # "health" => declared = {}

PlatformNext ==
  /\ UNCHANGED focus
  /\ \/ /\ focus \in {"deliveries", "retries", "commands"}
        /\ GateNext /\ GateFocus /\ UNCHANGED <<offerVars, otpVars, healthVars>>
     \/ /\ focus \in {"prices", "slots"}
        /\ OffersNext /\ OffersFocus /\ UNCHANGED <<gateVars, otpVars, healthVars>>
     \/ /\ focus = "otp" /\ OtpNext /\ UNCHANGED <<gateVars, offerVars, healthVars>>
     \/ /\ focus = "health" /\ HealthNext /\ UNCHANGED <<gateVars, offerVars, otpVars>>

PlatformSpec ==
  PlatformInit /\ [][PlatformNext]_<<focus, gateVars, offerVars, otpVars, healthVars>>

(* A markup that is not whole, and a guardrail a later version narrows.      *)
ConfigRows ==
  {[min |-> 500, max |-> 900, fee |-> 100, bps |-> 1500, unit |-> 1],
   [min |-> 501, max |-> 900, fee |-> 100, bps |-> 1500, unit |-> 100]}
OverrideRows == {[NoOverrides EXCEPT !["bps"] = 2000]}
Prices == {500, 501}

(* The code that may come in halves has two digits, the other one three; one *)
(* job runs every tick, the other every second one.                         *)
LengthOf == [s \in Registered |-> IF s \in Grouped THEN 2 ELSE 3]
CadenceOf == [j \in CronJobs |-> IF j = CHOOSE k \in CronJobs : TRUE THEN 1 ELSE 2]

(* Workers and the nonces clients mint are interchangeable.                 *)
Symmetry ==
  UNION {Permutations(Nonces), Permutations(Gates), Permutations(Managers),
         Permutations(Sites)}

===============================================================================
