------------------------------ MODULE OffersProofs ------------------------------
(* Proofs about Offers: the two roundings of a price, the inductive          *)
(* invariant, and the properties that follow from it.                        *)
EXTENDS Offers, TLAPS

-------------------------------------------------------------------------------
(* Arithmetic.                                                              *)

LEMMA DivBounds ==
  ASSUME NEW a \in Nat, NEW b \in Nat \ {0}
  PROVE  /\ a \div b \in Nat
         /\ (a \div b) * b <= a
         /\ a < (a \div b) * b + b
  OBVIOUS

LEMMA MultipleMod ==
  ASSUME NEW q \in Nat, NEW b \in Nat \ {0}
  PROVE  (q * b) % b = 0
  OBVIOUS

(* The retail price is the least multiple of the rounding unit that covers  *)
(* base price, fee and exact markup, for every price and every pricing.     *)
LEMMA RetailExact ==
  ASSUME NEW base \in Nat, NEW p,
         p["fee"] \in Nat, p["bps"] \in Nat, p["unit"] \in Nat \ {0}
  PROVE  LeastRetail(base, p, Retail(base, p))
<1> DEFINE fee == p["fee"]
           unit == p["unit"]
           exact == base * p["bps"]
           m == (exact + 9999) \div 10000
           v == base + fee + m
           q == (v + unit - 1) \div unit
<1>1. exact \in Nat
  OBVIOUS
<1>2. m \in Nat /\ 10000 * m >= exact /\ 10000 * m <= exact + 9999
  <2> HIDE DEF exact
  <2> QED BY <1>1
<1>3. v \in Nat /\ unit \in Nat \ {0} /\ fee \in Nat
  <2> HIDE DEF m
  <2> QED BY <1>2
<1>4. q \in Nat /\ q * unit <= v + unit - 1 /\ v + unit - 1 < q * unit + unit
  <2> HIDE DEF v, unit
  <2>1. v + unit - 1 \in Nat
    BY <1>3
  <2> QED BY <1>3, <2>1, DivBounds
<1>5. q * unit \in Nat /\ (q * unit) % unit = 0
  <2> HIDE DEF q, unit
  <2> QED BY <1>3, <1>4, MultipleMod
<1> DEFINE r == q * unit
<1>6. r = Retail(base, p)
  BY DEF Retail, CeilTo, Markup
<1>7. r \in Nat /\ r >= v /\ r - unit < v
  <2> HIDE DEF q, v, unit
  <2> QED BY <1>3, <1>4, <1>5
<1>8. 10000 * (r - base - fee) >= exact /\ 10000 * (r - unit - base - fee) < exact
  <2> HIDE DEF r, unit, fee, m, exact
  <2> QED BY <1>1, <1>2, <1>3, <1>7
<1> QED
  <2> HIDE DEF q
  <2> QED BY <1>5, <1>6, <1>8 DEF LeastRetail

-------------------------------------------------------------------------------
(* The newest version, and the prices in force.                             *)

LEMMA NewestIsLast ==
  ASSUME OffersTypeOK
  PROVE  /\ Newest \in Version /\ Newest \in 1..MaxConfigs
         /\ Version = 1..Newest
         /\ configOf[Newest] \in Configs
<1>1. PICK n \in 1..MaxConfigs : Version = 1..n
  BY DEF OffersTypeOK
<1>2. n \in Version /\ \A u \in Version : u <= n
  BY <1>1, OffersAssumption
<1>3. Newest \in Version /\ \A u \in Version : u <= Newest
  BY <1>2 DEF Newest
<1>4. Newest = n
  BY <1>1, <1>2, <1>3, OffersAssumption
<1> QED BY <1>1, <1>2, <1>4 DEF OffersTypeOK

LEMMA PricingTyped ==
  ASSUME NEW c \in Configs, NEW o \in Overrides \cup {NoOverrides}
  PROVE  LET p == DimensionPricing(o, c) IN
         p["fee"] \in Nat /\ p["bps"] \in Nat /\ p["unit"] \in Nat \ {0}
<1>1. c \in [PriceFields -> Nat] /\ c["unit"] > 0
  BY OffersAssumption DEF ConfigValid
<1>2. o \in [PriceFields -> Nat \cup {Inherit}]
  BY OffersAssumption DEF NoOverrides
<1>3. o["unit"] # Inherit => o["unit"] \in 1..Int4Max
  BY OffersAssumption DEF NoOverrides, DeclarationValid, PriceFields
<1>4. \A x \in 1..Int4Max : x \in Nat \ {0}
  OBVIOUS
<1> QED BY <1>1, <1>2, <1>3, <1>4 DEF DimensionPricing, PriceFields

LEMMA InForceTyped ==
  ASSUME OffersTypeOK, NEW d \in Dimensions
  PROVE  LET p == PricingFor(d) IN
         p["fee"] \in Nat /\ p["bps"] \in Nat /\ p["unit"] \in Nat \ {0}
<1>1. configOf[Newest] \in Configs
  BY NewestIsLast
<1>2. CASE Declared /\ Served(d)
  <2>1. catalog[d] \in DimensionRow
    BY <1>2 DEF Served, OffersTypeOK
  <2>2. catalog[d].over \in Overrides \cup {NoOverrides}
    BY <2>1 DEF DimensionRow
  <2> QED BY <1>1, <1>2, <2>2, PricingTyped DEF PricingFor
<1>3. CASE ~(Declared /\ Served(d))
  <2>1. configOf[Newest] \in [PriceFields -> Nat] /\ configOf[Newest]["unit"] > 0
    BY <1>1, OffersAssumption DEF ConfigValid
  <2> QED BY <1>3, <2>1 DEF PricingFor, PriceFields
<1> QED BY <1>2, <1>3

(* A dimension that has a row of its own is priced by it wherever it is      *)
(* served.                                                                  *)
LEMMA DeclaredPricing ==
  ASSUME NEW d \in Dimensions, catalog[d] # NoDim, Served(d)
  PROVE  PricingFor(d) = DimensionPricing(catalog[d].over, configOf[Newest])
  BY DEF PricingFor, Declared

-------------------------------------------------------------------------------
(* Rows.                                                                    *)

LEMMA RowTyped ==
  ASSUME OffersTypeOK, NEW p \in Sellers, NEW d \in Dimensions, NEW b \in BasePrices,
         NEW st \in OfferStatus
  PROVE  /\ Row(p, d, b, st) \in OfferRow
         /\ Row(p, d, b, st) # NoOffer
         /\ KeyMatches(Row(p, d, b, st))
<1>1. Newest \in 1..MaxConfigs
  BY NewestIsLast
<1>2. ActiveDimensionKey(p, d, st) \in (Sellers \X Dimensions) \cup {NoDim}
  BY DEF ActiveDimensionKey
<1>3. Row(p, d, b, st) \in OfferRow
  BY <1>1, <1>2 DEF Row, OfferRow
<1>4. KeyMatches(Row(p, d, b, st))
  BY DEF KeyMatches, Row
<1> QED BY <1>3, <1>4, OffersAssumption

LEMMA OfferTyped ==
  ASSUME OffersTypeOK, NEW i \in OfferIds, offer[i] # NoOffer
  PROVE  /\ offer[i] \in OfferRow
         /\ offer[i].seller \in Sellers /\ offer[i].dim \in Dimensions
         /\ offer[i].base \in BasePrices /\ offer[i].status \in OfferStatus
  BY DEF OffersTypeOK, OfferRow

-------------------------------------------------------------------------------
(* The inductive invariant.                                                 *)

LEMMA OffersInitially == OffersInit => OffersIInv
<1> SUFFICES ASSUME OffersInit PROVE OffersIInv
  OBVIOUS
<1> USE DEF OffersInit
<1>1. OffersTypeOK
  <2>1. DOMAIN configOf = 1..1 /\ \A v \in 1..1 : configOf[v] \in Configs
    OBVIOUS
  <2>2. 1 \in 1..MaxConfigs
    BY OffersAssumption
  <2> QED BY <2>1, <2>2 DEF OffersTypeOK, Version, NoWrite, NotPublishing
<1>2. KeysMatch /\ SlotsAreUnique
  BY DEF KeysMatch, SlotsAreUnique, NoWrite
<1>3. WritesAreReady /\ PublicationsFollow
  BY DEF WritesAreReady, PublicationsFollow, Writes, NoWrite, NotPublishing
<1> QED BY <1>1, <1>2, <1>3 DEF OffersIInv

(* A command that starts puts a row of its own together.                    *)
LEMMA StartsKeeps ==
  ASSUME OffersIInv,
         NEW s \in Sites, NEW kind \in {"create", "price", "activate", "deactivate", "delete"},
         NEW i \in OfferIds \cup {NoOffer}, NEW row \in OfferRow \cup {NoOffer},
         NEW shown \in BOOLEAN, Starts(s, kind, i, row, shown),
         row # NoOffer => KeyMatches(row), kind # "delete" => row # NoOffer
  PROVE  OffersIInv'
<1> USE DEF OffersIInv, Starts
<1> DEFINE w == [pc |-> "write", kind |-> kind, id |-> i, row |-> row, shown |-> shown]
<1>1. \A t \in Sites : site'[t] = IF t = s THEN w ELSE site[t]
  BY DEF OffersTypeOK
<1>2. OffersTypeOK'
  BY DEF OffersTypeOK, Version
<1>3. KeysMatch'
  BY <1>1 DEF KeysMatch, KeyMatches, ActiveDimensionKey
<1>4. SlotsAreUnique'
  BY DEF SlotsAreUnique
<1>5. WritesAreReady'
  BY <1>1 DEF WritesAreReady, Writes
<1>6. PublicationsFollow'
  BY DEF PublicationsFollow, Version
<1>7. \A x \in priced' : PriceStands(x)'
  BY DEF PriceStands, Version
<1> QED BY <1>2, <1>3, <1>4, <1>5, <1>6, <1>7

(* A command that ends writes the row it was given, where its slot is free,  *)
(* or none.                                                                  *)
LEMMA WriteKeeps ==
  ASSUME OffersIInv, NEW s \in Sites, NEW i \in OfferIds, Ends(s),
         NEW row \in OfferRow \cup {NoOffer},
         row # NoOffer => KeyMatches(row) /\ SlotIsFree(i, row.key),
         offer' = [offer EXCEPT ![i] = row],
         UNCHANGED <<configOf, catalog, approved, ordered, publisher, priced>>
  PROVE  OffersIInv'
<1> USE DEF OffersIInv, Ends
<1>1. \A t \in Sites : site'[t] = IF t = s THEN NoWrite ELSE site[t]
  BY DEF OffersTypeOK
<1>2. \A j \in OfferIds : offer'[j] = IF j = i THEN row ELSE offer[j]
  BY DEF OffersTypeOK
<1>3. OffersTypeOK'
  BY DEF OffersTypeOK, Version, NoWrite
<1>4. KeysMatch'
  <2>1. ASSUME NEW j \in OfferIds, offer'[j] # NoOffer PROVE KeyMatches(offer'[j])
    <3>1. CASE j = i
      BY <1>2, <2>1, <3>1
    <3>2. CASE j # i
      BY <1>2, <2>1, <3>2 DEF KeysMatch
    <3> QED BY <3>1, <3>2
  <2>2. ASSUME NEW t \in Sites, site'[t].row # NoOffer PROVE KeyMatches(site'[t].row)
    <3>1. t # s
      BY <1>1, <2>2 DEF NoWrite
    <3> QED BY <1>1, <2>2, <3>1 DEF KeysMatch
  <2> QED BY <2>1, <2>2 DEF KeysMatch, KeyMatches, ActiveDimensionKey
<1>5. SlotsAreUnique'
  <2> SUFFICES ASSUME NEW j \in OfferIds, NEW k \in OfferIds, j # k,
                      offer'[j] # NoOffer, offer'[k] # NoOffer,
                      offer'[j].key = offer'[k].key
               PROVE  offer'[j].key = NoDim
    BY DEF SlotsAreUnique
  <2>1. CASE j = i
    BY <1>2, <2>1 DEF SlotIsFree
  <2>2. CASE k = i
    BY <1>2, <2>2 DEF SlotIsFree
  <2>3. CASE j # i /\ k # i
    BY <1>2, <2>3 DEF SlotsAreUnique
  <2> QED BY <2>1, <2>2, <2>3
<1>6. WritesAreReady'
  BY <1>1 DEF WritesAreReady, Writes, NoWrite
<1>7. PublicationsFollow'
  BY DEF PublicationsFollow, Version
<1>8. \A x \in priced' : PriceStands(x)'
  BY DEF PriceStands, Version
<1> QED BY <1>3, <1>4, <1>5, <1>6, <1>7, <1>8

(* A command that ends without a write.                                     *)
LEMMA EndKeeps ==
  ASSUME OffersIInv, NEW s \in Sites, Ends(s),
         UNCHANGED <<configOf, catalog, offer, approved, ordered, publisher, priced>>
  PROVE  OffersIInv'
<1> USE DEF OffersIInv, Ends
<1>1. \A t \in Sites : site'[t] = IF t = s THEN NoWrite ELSE site[t]
  BY DEF OffersTypeOK
<1>2. OffersTypeOK'
  BY DEF OffersTypeOK, Version, NoWrite
<1>3. KeysMatch'
  BY <1>1 DEF KeysMatch, KeyMatches, ActiveDimensionKey, NoWrite
<1>4. SlotsAreUnique' /\ PublicationsFollow'
  BY DEF SlotsAreUnique, PublicationsFollow, Version
<1>5. WritesAreReady'
  BY <1>1 DEF WritesAreReady, Writes, NoWrite
<1>6. \A x \in priced' : PriceStands(x)'
  BY DEF PriceStands, Version
<1> QED BY <1>2, <1>3, <1>4, <1>5, <1>6

(* What a step outside the portal must keep: types, publications and prices. *)
LEMMA OutsideKeeps ==
  ASSUME OffersIInv, UNCHANGED <<offer, site>>,
         OffersTypeOK', PublicationsFollow', \A x \in priced' : PriceStands(x)'
  PROVE  OffersIInv'
<1>1. KeysMatch' /\ SlotsAreUnique' /\ WritesAreReady'
  BY DEF OffersIInv, KeysMatch, KeyMatches, ActiveDimensionKey, SlotsAreUnique,
         WritesAreReady, Writes
<1> QED BY <1>1 DEF OffersIInv

LEMMA PublishKeeps ==
  ASSUME OffersIInv, NEW a \in Publishers, NEW c \in Configs, Publish(a, c)
  PROVE  OffersIInv'
<1> DEFINE v == publisher[a].next
<1>1. PICK n \in 1..MaxConfigs : Version = 1..n
  BY DEF OffersIInv, OffersTypeOK
<1>2. v \in 1..MaxConfigs /\ v - 1 \in Version
  BY DEF OffersIInv, OffersTypeOK, PublicationsFollow, Publish
<1>3. \A b \in Publishers : publisher'[b] = IF b = a THEN NotPublishing ELSE publisher[b]
  BY DEF OffersIInv, OffersTypeOK, Publish
<1>4. /\ Version \subseteq Version'
      /\ \A u \in Version : configOf'[u] = configOf[u]
      /\ \A u \in Version' : configOf'[u] \in Configs
      /\ \E m \in 1..MaxConfigs : Version' = 1..m
  <2>1. CASE VersionFree(v)
    <3>1. configOf' = [u \in Version \cup {v} |-> IF u = v THEN c ELSE configOf[u]]
      BY <2>1 DEF Publish
    <3>2. v \notin Version
      BY <2>1 DEF VersionFree
    <3>3. Version' = Version \cup {v}
      BY <3>1 DEF Version
    <3>4. v = n + 1
      BY <1>1, <1>2, <3>2, OffersAssumption
    <3>5. Version' = 1..v
      BY <1>1, <3>3, <3>4, OffersAssumption
    <3>6. \A u \in Version : configOf'[u] = configOf[u]
      BY <3>1, <3>2
    <3>7. configOf'[v] = c
      BY <3>1
    <3> QED BY <1>2, <3>3, <3>5, <3>6, <3>7 DEF OffersIInv, OffersTypeOK
  <2>2. CASE ~VersionFree(v)
    BY <2>2 DEF Publish, OffersIInv, OffersTypeOK, Version
  <2> QED BY <2>1, <2>2
<1>5. OffersTypeOK'
  <2>1. publisher' \in [Publishers -> [pc : {"idle", "insert"}, next : 1..MaxConfigs]]
    BY OffersAssumption DEF OffersIInv, OffersTypeOK, Publish, NotPublishing
  <2> QED BY <1>4, <2>1 DEF OffersIInv, OffersTypeOK, Publish
<1>6. PublicationsFollow'
  <2> SUFFICES ASSUME NEW b \in Publishers, publisher'[b].pc = "insert"
               PROVE  publisher'[b].next - 1 \in Version'
    BY DEF PublicationsFollow
  <2>1. b # a
    BY <1>3 DEF NotPublishing
  <2>2. publisher[b].next - 1 \in Version
    BY <1>3, <2>1 DEF OffersIInv, PublicationsFollow
  <2> QED BY <1>3, <1>4, <2>1, <2>2
<1>7. \A x \in priced' : PriceStands(x)'
  BY <1>4 DEF OffersIInv, PriceStands, Publish
<1>8. UNCHANGED <<offer, site>>
  BY DEF Publish
<1> QED BY <1>5, <1>6, <1>7, <1>8, OutsideKeeps

(* A price as it is recorded.                                               *)
LEMMA PriceIsStanding ==
  ASSUME OffersIInv, NEW i \in OfferIds, Sellable(i), UNCHANGED <<configOf, catalog>>,
         NEW x, x = Price(offer[i])
  PROVE  PriceStands(x)'
<1> DEFINE o == offer[i]
<1>1. o.dim \in Dimensions /\ Served(o.dim)
  BY OfferTyped DEF OffersIInv, Sellable
<1>2. Newest \in Version
  BY NewestIsLast DEF OffersIInv
<1>3. catalog[o.dim] # NoDim =>
        PricingFor(o.dim) = DimensionPricing(catalog[o.dim].over, configOf[Newest])
  BY <1>1, DeclaredPricing
<1>4. PriceStands(x)
  <2>1. /\ x.version = Newest /\ x.dim = o.dim /\ x.base = o.base
        /\ x.declared = (catalog[o.dim] # NoDim)
        /\ x.retail = Retail(o.base, PricingFor(o.dim))
    BY DEF Price
  <2> HIDE DEF o
  <2>2. x.declared => catalog[x.dim] # NoDim
    BY <2>1, Zenon
  <2>3. x.declared =>
          x.retail = Retail(x.base, DimensionPricing(catalog[x.dim].over, configOf[x.version]))
    BY <1>3, <2>1, <2>2, Zenon
  <2> QED BY <1>1, <1>2, <2>1, <2>2, <2>3 DEF PriceStands
<1> QED BY <1>4 DEF PriceStands, Version

(* One step per operation.                                                  *)
LEMMA CommandKeeps ==
  ASSUME OffersIInv, NEW s \in Sites,
         \/ \E p \in Sellers, d \in Dimensions, b \in BasePrices, st \in OfferStatus :
              CreateOffer(s, p, d, b, st)
         \/ \E i \in OfferIds :
              \/ \E b \in BasePrices : UpdateOfferBasePrice(s, i, b)
              \/ ActivateOffer(s, i) \/ DeactivateOffer(s, i) \/ DeleteOffer(s, i)
              \/ InsertOffer(s, i)
         \/ UpdateOffer(s) \/ DeleteOfferById(s) \/ RollBack(s)
  PROVE  OffersIInv'
<1>0. OffersTypeOK
  BY DEF OffersIInv
<1>1. ASSUME NEW p \in Sellers, NEW d \in Dimensions, NEW b \in BasePrices,
             NEW st \in OfferStatus, CreateOffer(s, p, d, b, st)
      PROVE  OffersIInv'
  BY <1>0, <1>1, RowTyped, StartsKeeps DEF CreateOffer
<1>2. ASSUME NEW i \in OfferIds, NEW b \in BasePrices, UpdateOfferBasePrice(s, i, b)
      PROVE  OffersIInv'
  <2>1. offer[i] # NoOffer
    BY <1>2 DEF UpdateOfferBasePrice
  <2> QED BY <1>0, <1>2, <2>1, OfferTyped, RowTyped, StartsKeeps DEF UpdateOfferBasePrice
<1>3. ASSUME NEW i \in OfferIds, ActivateOffer(s, i) PROVE OffersIInv'
  <2>1. offer[i] # NoOffer
    BY <1>3 DEF ActivateOffer
  <2>2. "active" \in OfferStatus
    BY DEF OfferStatus
  <2> QED BY <1>0, <1>3, <2>1, <2>2, OfferTyped, RowTyped, StartsKeeps DEF ActivateOffer
<1>4. ASSUME NEW i \in OfferIds, DeactivateOffer(s, i) PROVE OffersIInv'
  <2>1. offer[i] # NoOffer
    BY <1>4 DEF DeactivateOffer
  <2>2. "inactive" \in OfferStatus
    BY DEF OfferStatus
  <2>3. \A b, p : WithinGuardrail(b, p) \in BOOLEAN
    BY DEF WithinGuardrail
  <2> QED BY <1>0, <1>4, <2>1, <2>2, <2>3, OfferTyped, RowTyped, StartsKeeps
          DEF DeactivateOffer
<1>5. ASSUME NEW i \in OfferIds, DeleteOffer(s, i) PROVE OffersIInv'
  <2>1. \A b, p : WithinGuardrail(b, p) \in BOOLEAN
    BY DEF WithinGuardrail
  <2> QED BY <1>0, <1>5, <2>1, StartsKeeps DEF DeleteOffer
<1>6. ASSUME NEW i \in OfferIds, InsertOffer(s, i) PROVE OffersIInv'
  <2>1. site[s].row \in OfferRow /\ KeyMatches(site[s].row)
    BY <1>6 DEF OffersIInv, OffersTypeOK, KeysMatch, WritesAreReady, InsertOffer, Writes
  <2> QED BY <1>6, <2>1, WriteKeeps DEF InsertOffer
<1>7. ASSUME UpdateOffer(s) PROVE OffersIInv'
  <2>1. site[s].row \in OfferRow /\ KeyMatches(site[s].row)
    BY <1>7 DEF OffersIInv, OffersTypeOK, KeysMatch, WritesAreReady, UpdateOffer, Writes
  <2>2. CASE site[s].id \in OfferIds
    BY <1>7, <2>1, <2>2, WriteKeeps DEF UpdateOffer
  <2>3. CASE site[s].id \notin OfferIds
    <3>1. offer' = offer
      BY <1>7, <2>3 DEF UpdateOffer, OffersIInv, OffersTypeOK
    <3> QED BY <1>7, <3>1, EndKeeps DEF UpdateOffer
  <2> QED BY <2>2, <2>3
<1>8. ASSUME DeleteOfferById(s) PROVE OffersIInv'
  <2>2. CASE site[s].id \in OfferIds
    BY <1>8, <2>2, WriteKeeps DEF DeleteOfferById
  <2>3. CASE site[s].id \notin OfferIds
    <3>1. offer' = offer
      BY <1>8, <2>3 DEF DeleteOfferById, OffersIInv, OffersTypeOK
    <3> QED BY <1>8, <3>1, EndKeeps DEF DeleteOfferById
  <2> QED BY <2>2, <2>3
<1>9. ASSUME RollBack(s) PROVE OffersIInv'
  BY <1>9, EndKeeps DEF RollBack
<1> QED BY <1>1, <1>2, <1>3, <1>4, <1>5, <1>6, <1>7, <1>8, <1>9

(* An offer that an administrator disables gives its slot back.              *)
LEMMA DisableKeeps ==
  ASSUME OffersIInv, NEW i \in OfferIds, DisableOffer(i)
  PROVE  OffersIInv'
<1> USE DEF OffersIInv
<1> DEFINE row == [offer[i] EXCEPT !.status = "inactive", !.key = NoDim]
<1>1. offer[i] \in OfferRow /\ UNCHANGED <<configOf, catalog, approved, ordered, site, publisher, priced>>
  BY DEF DisableOffer, OffersTypeOK
<1>2. row \in OfferRow /\ row.status = "inactive" /\ row.key = NoDim
  BY <1>1 DEF OfferRow, OfferStatus
<1>3. offer' = [offer EXCEPT ![i] = row]
  BY DEF DisableOffer
<1> HIDE DEF row
<1>4. \A j \in OfferIds : offer'[j] = IF j = i THEN row ELSE offer[j]
  BY <1>3 DEF OffersTypeOK
<1>5. OffersTypeOK'
  BY <1>1, <1>2, <1>3 DEF OffersTypeOK, Version
<1>6. KeysMatch'
  BY <1>1, <1>2, <1>4 DEF KeysMatch, KeyMatches, ActiveDimensionKey
<1>7. SlotsAreUnique'
  BY <1>2, <1>4 DEF SlotsAreUnique
<1>8. WritesAreReady'
  BY <1>1 DEF WritesAreReady, Writes
<1>9. PublicationsFollow' /\ \A x \in priced' : PriceStands(x)'
  BY <1>1 DEF PublicationsFollow, PriceStands, Version
<1> QED BY <1>5, <1>6, <1>7, <1>8, <1>9

LEMMA OffersStep == OffersIInv /\ [OffersNext]_offerVars => OffersIInv'
<1> SUFFICES ASSUME OffersIInv, [OffersNext]_offerVars PROVE OffersIInv'
  OBVIOUS
<1>1. ASSUME NEW a \in Publishers, BeginPublish(a) PROVE OffersIInv'
  <2> USE DEF BeginPublish
  <2>1. /\ Newest \in 1..MaxConfigs /\ Newest \in Version
    BY NewestIsLast DEF OffersIInv
  <2>2. Newest + 1 \in 1..MaxConfigs /\ (Newest + 1) - 1 = Newest
    BY <1>1, <2>1, OffersAssumption
  <2>3. publisher' = [publisher EXCEPT ![a] = [pc |-> "insert", next |-> Newest + 1]]
    BY <1>1
  <2>4. OffersTypeOK'
    <3> HIDE DEF BeginPublish
    <3>1. publisher' \in [Publishers -> [pc : {"idle", "insert"}, next : 1..MaxConfigs]]
      <4> HIDE DEF Newest
      <4> QED BY <2>2, <2>3 DEF OffersIInv, OffersTypeOK
    <3> QED BY <1>1, <3>1 DEF OffersIInv, OffersTypeOK, Version, BeginPublish
  <2>5. PublicationsFollow'
    <3> SUFFICES ASSUME NEW b \in Publishers, publisher'[b].pc = "insert"
                 PROVE  publisher'[b].next - 1 \in Version'
      BY DEF PublicationsFollow
    <3>1. Version' = Version
      BY <1>1 DEF Version
    <3>2. CASE b = a
      BY <2>1, <2>2, <2>3, <3>1, <3>2 DEF OffersIInv, OffersTypeOK
    <3>3. CASE b # a
      BY <2>3, <3>1, <3>3 DEF OffersIInv, OffersTypeOK, PublicationsFollow
    <3> QED BY <3>2, <3>3
  <2>6. \A x \in priced' : PriceStands(x)'
    BY <1>1 DEF OffersIInv, PriceStands, Version
  <2> QED BY <1>1, <2>4, <2>5, <2>6, OutsideKeeps
<1>2. ASSUME NEW d \in Dimensions, NEW o \in Overrides, NEW e \in BOOLEAN,
             DeclareDimension(d, o, e)
      PROVE  OffersIInv'
  <2>1. [enabled |-> e, over |-> o] \in DimensionRow
    BY DEF DimensionRow
  <2>2. \A c \in Dimensions :
          catalog'[c] = IF c = d THEN [enabled |-> e, over |-> o] ELSE catalog[c]
    BY <1>2 DEF DeclareDimension, Undeclared, OffersIInv, OffersTypeOK
  <2>3. OffersTypeOK'
    BY <1>2, <2>1 DEF DeclareDimension, Undeclared, OffersIInv, OffersTypeOK, Version
  <2>4. PublicationsFollow'
    BY <1>2 DEF DeclareDimension, Undeclared, OffersIInv, PublicationsFollow, Version
  <2>5. \A x \in priced' : PriceStands(x)'
    BY <1>2, <2>2 DEF DeclareDimension, Undeclared, OffersIInv, PriceStands, Version
  <2> QED BY <1>2, <2>3, <2>4, <2>5, OutsideKeeps DEF DeclareDimension, Undeclared
<1>3. ASSUME NEW d \in Dimensions, ToggleDimension(d) PROVE OffersIInv'
  <2>1. catalog[d] \in DimensionRow
    BY <1>3 DEF ToggleDimension, OffersIInv, OffersTypeOK
  <2>2. Toggled(catalog[d]) \in DimensionRow /\ Toggled(catalog[d]).over = catalog[d].over
    BY <2>1 DEF Toggled, DimensionRow
  <2>3. Toggled(catalog[d]) # NoDim
    BY <2>2, OffersAssumption
  <2>4. \A c \in Dimensions : catalog'[c] = IF c = d THEN Toggled(catalog[d]) ELSE catalog[c]
    BY <1>3 DEF ToggleDimension, OffersIInv, OffersTypeOK
  <2>5. OffersTypeOK'
    BY <1>3, <2>2 DEF ToggleDimension, OffersIInv, OffersTypeOK, Version
  <2>6. PublicationsFollow'
    BY <1>3 DEF ToggleDimension, OffersIInv, PublicationsFollow, Version
  <2>7. \A x \in priced' : PriceStands(x)'
    BY <1>3, <2>2, <2>3, <2>4 DEF ToggleDimension, OffersIInv, PriceStands, Version
  <2> QED BY <1>3, <2>5, <2>6, <2>7, OutsideKeeps DEF ToggleDimension
<1>4. ASSUME NEW p \in Sellers, SellerChanges(p) PROVE OffersIInv'
  <2>1. OffersTypeOK'
    BY <1>4 DEF SellerChanges, OffersIInv, OffersTypeOK, Version
  <2>2. PublicationsFollow' /\ \A x \in priced' : PriceStands(x)'
    BY <1>4 DEF SellerChanges, OffersIInv, PublicationsFollow, PriceStands, Version
  <2> QED BY <1>4, <2>1, <2>2, OutsideKeeps DEF SellerChanges
<1>5. ASSUME NEW i \in OfferIds, QueryInventory(i) \/ \E q \in priced : ReserveAtQuote(i, q)
      PROVE  OffersIInv'
  <2> USE DEF QueryInventory, ReserveAtQuote
  <2>1. Sellable(i) /\ UNCHANGED <<configOf, catalog, publisher>>
    BY <1>5
  <2>2. OffersTypeOK'
    BY <1>5 DEF OffersIInv, OffersTypeOK, Version
  <2>3. PublicationsFollow'
    BY <2>1 DEF OffersIInv, PublicationsFollow, Version
  <2>4. priced' = priced \cup {Price(offer[i])}
    BY <1>5
  <2>5. \A x \in priced : PriceStands(x)'
    BY <2>1 DEF OffersIInv, PriceStands, Version
  <2>6. \A x \in priced' : PriceStands(x)'
    BY <2>1, <2>4, <2>5, PriceIsStanding
  <2> QED BY <1>5, <2>2, <2>3, <2>6, OutsideKeeps
<1>6. CASE UNCHANGED offerVars
  <2> USE DEF offerVars
  <2>1. OffersTypeOK'
    BY <1>6 DEF OffersIInv, OffersTypeOK, Version
  <2>2. PublicationsFollow' /\ \A x \in priced' : PriceStands(x)'
    BY <1>6 DEF OffersIInv, PublicationsFollow, PriceStands, Version
  <2> QED BY <1>6, <2>1, <2>2, OutsideKeeps
<1> QED BY <1>1, <1>2, <1>3, <1>4, <1>5, <1>6, CommandKeeps, PublishKeeps, DisableKeeps DEF OffersNext

-------------------------------------------------------------------------------
(* Theorems.                                                                *)

(* The inductive invariant holds.                                           *)
THEOREM OffersInvariance == OffersSpec => []OffersIInv
  BY OffersInitially, OffersStep, PTL DEF OffersSpec

(* At most one active offer per partner and dimension, for any number of    *)
(* offers, partners, dimensions and commands under way.                     *)
THEOREM OneOfferActive == OffersSpec => []OneActiveOffer
<1>1. OffersIInv => OneActiveOffer
  <2> SUFFICES ASSUME OffersIInv, NEW i \in OfferIds, NEW j \in OfferIds,
                      offer[i] # NoOffer, offer[j] # NoOffer,
                      offer[i].status = "active", offer[j].status = "active",
                      offer[i].seller = offer[j].seller, offer[i].dim = offer[j].dim
               PROVE  i = j
    BY DEF OneActiveOffer
  <2> DEFINE slot == <<offer[i].seller, offer[i].dim>>
  <2>1. offer[i].key = slot /\ offer[j].key = slot
    BY DEF OffersIInv, KeysMatch, KeyMatches, ActiveDimensionKey
  <2>2. slot \in Sellers \X Dimensions
    BY OfferTyped DEF OffersIInv
  <2>3. slot # NoDim
    BY <2>2, OffersAssumption
  <2> HIDE DEF slot
  <2> QED BY <2>1, <2>3 DEF OffersIInv, SlotsAreUnique
<1> QED BY <1>1, OffersInvariance, PTL

(* A version pins the price of a declared dimension, for any configurations  *)
(* and overrides.                                                           *)
THEOREM PricePinned == OffersSpec => []PriceIsPinned
<1>1. OffersIInv => PriceIsPinned
  BY DEF OffersIInv, PriceStands, PriceIsPinned
<1> QED BY <1>1, OffersInvariance, PTL

(* Every offer inside its guardrail sells at the least price that covers    *)
(* base price, fee and markup, for every configuration and overrides.       *)
THEOREM RetailLeast == OffersSpec => []RetailIsLeast
<1>1. OffersIInv => RetailIsLeast
  <2> SUFFICES ASSUME OffersIInv, NEW i \in OfferIds, offer[i] # NoOffer
               PROVE  LET p == PricingFor(offer[i].dim) IN
                      LeastRetail(offer[i].base, p, Retail(offer[i].base, p))
    BY DEF RetailIsLeast
  <2>1. OffersTypeOK
    BY DEF OffersIInv
  <2>2. offer[i].base \in Nat /\ offer[i].dim \in Dimensions
    BY <2>1, OfferTyped, OffersAssumption
  <2> QED BY <2>1, <2>2, InForceTyped, RetailExact
<1> QED BY <1>1, OffersInvariance, PTL

===============================================================================
