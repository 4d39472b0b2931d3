-------------------------------- MODULE Pricing --------------------------------
(* The price of an offer: the versioned configuration, the overrides of a    *)
(* catalog dimension, the guardrail and the retail price.  Prices are whole  *)
(* rupiah, the markup is in basis points of the base price.                  *)
EXTENDS Integers

CONSTANT Inherit   \* an override that is null

PriceFields == {"min", "max", "fee", "bps", "unit"}

(* Limits of the INT4 columns.  A product, of a price and its basis points,  *)
(* past 2^53 is refused (INVALID_CONFIG); that refusal is left out, the      *)
(* arithmetic below it is exact.                                             *)
Int4Max == 2147483647

(* validatePlatformConfig, of the fields that price an offer.               *)
ConfigValid(c) ==
  /\ c["min"] > 0 /\ c["max"] >= c["min"]
  /\ c["fee"] >= 0 /\ c["bps"] >= 0 /\ c["unit"] > 0

(* validateDimensionDeclaration: each override alone, and the guardrail only *)
(* when both of its ends are overridden.                                    *)
DeclarationValid(o) ==
  /\ \A f \in PriceFields :
       o[f] # Inherit => o[f] \in (IF f = "unit" THEN 1 ELSE 0)..Int4Max
  /\ o["min"] # Inherit /\ o["max"] # Inherit => o["min"] <= o["max"]

NoOverrides == [f \in PriceFields |-> Inherit]

(* resolveDimensionPricing                                                  *)
DimensionPricing(o, c) == [f \in PriceFields |-> IF o[f] = Inherit THEN c[f] ELSE o[f]]

(* validatePricingConfig and assertBasePriceWithinGuardrail: an override may *)
(* have crossed the other end of the configuration's guardrail.             *)
WithinGuardrail(base, p) == p["min"] <= p["max"] /\ base \in p["min"]..p["max"]

Markup(base, p) == (base * p["bps"] + 9999) \div 10000

CeilTo(value, unit) == ((value + unit - 1) \div unit) * unit

(* calculateAuthoritativePricing; the payout is the base price.             *)
Retail(base, p) == CeilTo(base + p["fee"] + Markup(base, p), p["unit"])

(* What the two roundings amount to: the least multiple of the unit that    *)
(* covers base price, fee and the exact markup.                             *)
LeastRetail(base, p, retail) ==
  /\ retail % p["unit"] = 0
  /\ 10000 * (retail - base - p["fee"]) >= base * p["bps"]
  /\ 10000 * (retail - p["unit"] - base - p["fee"]) < base * p["bps"]

===============================================================================
