-------------------------------- MODULE Offers ---------------------------------
(***************************************************************************)
(* Offers of partners on catalog dimensions: the portal's commands, the     *)
(* administrators who publish configuration versions, declare and toggle    *)
(* dimensions and disable offers, and the main site that reads quotes and   *)
(* reserves.                                                                *)
(*                                                                         *)
(* A portal command is one transaction at READ COMMITTED: it reads the      *)
(* offer, the partner, the newest configuration and the catalog, decides,   *)
(* and writes the row by its id without comparing what it read.             *)
(*                                                                         *)
(* Abstractions.  The reads of a command are one step, and so are those of  *)
(* a quote and those of a reservation (Reservation models its races); which *)
(* eligible number a reservation takes is any (Fleet), so any active offer  *)
(* of an approved partner.  Audit rows are written with their command.      *)
(***************************************************************************)
EXTENDS Pricing, FiniteSets

CONSTANTS
  OfferIds, Sellers, Dimensions,
  ConfigDimension,  \* the dimension every configuration version carries
  Sites,            \* portal commands under way at a time
  Publishers,       \* configuration commands under way at a time
  NoOffer, NoDim,
  BasePrices,       \* base prices partners ask
  Configs,          \* edited fields administrators publish
  Overrides,        \* overrides they declare
  MaxConfigs        \* bound on configuration versions

OfferStatus == {"active", "inactive"}

OfferRow == [seller : Sellers, dim : Dimensions, base : BasePrices,
             status : OfferStatus, version : 1..MaxConfigs,
             key : (Sellers \X Dimensions) \cup {NoDim}]

DimensionRow == [enabled : BOOLEAN, over : Overrides \cup {NoOverrides}]

ASSUME OffersAssumption ==
  /\ ConfigDimension \in Dimensions
  /\ Configs \subseteq [PriceFields -> Nat] /\ \A c \in Configs : ConfigValid(c)
  /\ Overrides \subseteq [PriceFields -> Nat \cup {Inherit}]
  /\ \A o \in Overrides : DeclarationValid(o)
  /\ BasePrices \subseteq Nat /\ MaxConfigs \in Nat \ {0}
  /\ NoOffer \notin OfferRow /\ NoDim \notin DimensionRow \cup (Sellers \X Dimensions)

VARIABLES
  configOf,   \* platform_configs: the versions published, in a function of its own range
  catalog,    \* catalog_dimensions; NoDim for a dimension never declared
  offer,      \* partner_offers
  approved,   \* the partners whose status is approved
  ordered,    \* offers an order refers to
  site,       \* the portal commands under way
  publisher,  \* the configuration commands under way
  priced      \* history: the prices quoted and sold at

offerVars == <<configOf, catalog, offer, approved, ordered, site, publisher, priced>>

Version == DOMAIN configOf
Newest == CHOOSE v \in Version : \A u \in Version : u <= v

NoWrite == [pc |-> "idle", kind |-> "delete", id |-> NoOffer, row |-> NoOffer, shown |-> TRUE]
NotPublishing == [pc |-> "idle", next |-> 1]

OffersInit ==
  /\ configOf \in [1..1 -> Configs]
  /\ catalog = [d \in Dimensions |-> NoDim]
  /\ offer = [i \in OfferIds |-> NoOffer]
  /\ approved = Sellers
  /\ ordered = {}
  /\ site = [s \in Sites |-> NoWrite]
  /\ publisher = [a \in Publishers |-> NotPublishing]
  /\ priced = {}

-------------------------------------------------------------------------------
(* The catalog as it is read.                                               *)

Declared == \E d \in Dimensions : catalog[d] # NoDim

(* resolveServedCatalog, resolveServedDimension: an empty catalog serves the *)
(* configuration's own dimension.                                           *)
Served(d) ==
  IF Declared THEN catalog[d] # NoDim /\ catalog[d].enabled ELSE d = ConfigDimension

(* The pricing in force for a dimension: its overrides if it is served, else *)
(* the configuration alone.                                                 *)
PricingFor(d) ==
  IF Declared /\ Served(d) THEN DimensionPricing(catalog[d].over, configOf[Newest])
  ELSE configOf[Newest]

(* What deleteOffer prices with: the row of the dimension, enabled or not.  *)
PricingOfRow(d) ==
  IF catalog[d] = NoDim THEN configOf[Newest]
  ELSE DimensionPricing(catalog[d].over, configOf[Newest])

(* validateOffer                                                            *)
Valid(p, d, base) ==
  p \in approved /\ Served(d) /\ WithinGuardrail(base, PricingFor(d))

-------------------------------------------------------------------------------
(* The portal's commands.                                                   *)

(* Mutant: the slot of the dimension is left empty. *)
ActiveKeyStale(p, d, status) == NoDim

(* activeDimensionKey                                                       *)
ActiveDimensionKey(p, d, status) == IF status = "active" THEN <<p, d>> ELSE NoDim

Row(p, d, base, status) ==
  [seller |-> p, dim |-> d, base |-> base, status |-> status, version |-> Newest,
   key |-> ActiveDimensionKey(p, d, status)]

Starts(s, kind, i, row, shown) ==
  /\ site[s].pc = "idle"
  /\ site' = [site EXCEPT ![s] = [pc |-> "write", kind |-> kind, id |-> i, row |-> row,
                                  shown |-> shown]]
  /\ UNCHANGED <<configOf, catalog, offer, approved, ordered, publisher, priced>>

CreateOffer(s, p, d, base, status) ==
  Valid(p, d, base) /\ Starts(s, "create", NoOffer, Row(p, d, base, status), TRUE)

(* The status goes back as it was read.                                     *)
UpdateOfferBasePrice(s, i, base) ==
  LET o == offer[i] IN
  /\ o # NoOffer /\ Valid(o.seller, o.dim, base)
  /\ Starts(s, "price", i, Row(o.seller, o.dim, base, o.status), TRUE)

ActivateOffer(s, i) ==
  LET o == offer[i] IN
  /\ o # NoOffer /\ Valid(o.seller, o.dim, o.base)
  /\ Starts(s, "activate", i, Row(o.seller, o.dim, o.base, "active"), TRUE)

(* Nothing is validated, but the view the command answers with is priced    *)
(* inside the transaction, and pricing throws outside the guardrail.        *)
DeactivateOffer(s, i) ==
  LET o == offer[i] IN
  /\ o # NoOffer
  /\ Starts(s, "deactivate", i, Row(o.seller, o.dim, o.base, "inactive"),
            WithinGuardrail(o.base, PricingFor(o.dim)))

DeleteOffer(s, i) ==
  LET o == offer[i] IN
  /\ o # NoOffer
  /\ Starts(s, "delete", i, NoOffer, WithinGuardrail(o.base, PricingOfRow(o.dim)))

Ends(s) == site' = [site EXCEPT ![s] = NoWrite]

(* The unique index on activeDimensionKey, for any row but the one written. *)
SlotIsFree(i, key) ==
  key # NoDim =>
    \A j \in OfferIds \ {i} : offer[j] # NoOffer => offer[j].key # key

Writes(s, kinds) == site[s].pc = "write" /\ site[s].kind \in kinds

(* insertOffer; a taken slot is duplicate_active_offer.                     *)
InsertOffer(s, i) ==
  /\ Writes(s, {"create"}) /\ offer[i] = NoOffer /\ i \notin ordered
  /\ SlotIsFree(i, site[s].row.key)
  /\ offer' = [offer EXCEPT ![i] = site[s].row]
  /\ Ends(s)
  /\ UNCHANGED <<configOf, catalog, approved, ordered, publisher, priced>>

(* updateOffer: the row as the command read it, but for what it changes.    *)
UpdateOffer(s) ==
  LET i == site[s].id IN
  /\ Writes(s, {"price", "activate", "deactivate"})
  /\ offer[i] # NoOffer /\ SlotIsFree(i, site[s].row.key) /\ site[s].shown
  /\ offer' = [offer EXCEPT ![i] = site[s].row]
  /\ Ends(s)
  /\ UNCHANGED <<configOf, catalog, approved, ordered, publisher, priced>>

(* deleteOfferById; an order that refers to the offer keeps it.             *)
DeleteOfferById(s) ==
  LET i == site[s].id IN
  /\ Writes(s, {"delete"}) /\ offer[i] # NoOffer /\ i \notin ordered /\ site[s].shown
  /\ offer' = [offer EXCEPT ![i] = NoOffer]
  /\ Ends(s)
  /\ UNCHANGED <<configOf, catalog, approved, ordered, publisher, priced>>

(* The transaction rolls back: the slot is taken, the row is gone or in     *)
(* use, or its view could not be priced.                                    *)
RollBack(s) ==
  LET i == site[s].id IN
  /\ site[s].pc = "write"
  /\ \/ ~site[s].shown
     \/ /\ site[s].kind # "delete"
        /\ ~SlotIsFree(i, site[s].row.key)
     \/ site[s].kind # "create" /\ offer[i] = NoOffer
     \/ site[s].kind = "delete" /\ i \in ordered
  /\ Ends(s)
  /\ UNCHANGED <<configOf, catalog, offer, approved, ordered, publisher, priced>>

-------------------------------------------------------------------------------
(* The administrators.                                                      *)

(* publishNewVersion computes the next version ...                          *)
BeginPublish(a) ==
  /\ publisher[a].pc = "idle" /\ Newest < MaxConfigs
  /\ publisher' = [publisher EXCEPT ![a] = [pc |-> "insert", next |-> Newest + 1]]
  /\ UNCHANGED <<configOf, catalog, offer, approved, ordered, site, priced>>

(* Mutant: nothing keeps two publications from using one version. *)
VersionFreeAlways(v) == TRUE

(* The unique index on version, and rows that are immutable.                *)
VersionFree(v) == v \notin Version

(* ... and inserts it, or fails on a version published meanwhile.           *)
Publish(a, c) ==
  LET v == publisher[a].next IN
  /\ publisher[a].pc = "insert"
  /\ configOf' = IF VersionFree(v)
                 THEN [u \in Version \cup {v} |-> IF u = v THEN c ELSE configOf[u]]
                 ELSE configOf
  /\ publisher' = [publisher EXCEPT ![a] = NotPublishing]
  /\ UNCHANGED <<catalog, offer, approved, ordered, site, priced>>

(* ON CONFLICT DO NOTHING: a dimension that is declared already stays as it *)
(* is.                                                                      *)
Undeclared(d) == catalog[d] = NoDim

DeclareDimension(d, o, enabled) ==
  /\ Undeclared(d)
  /\ catalog' = [catalog EXCEPT ![d] = [enabled |-> enabled, over |-> o]]
  /\ UNCHANGED <<configOf, offer, approved, ordered, site, publisher, priced>>

(* Its enabled flag alone: a trigger holds the overrides.                   *)
Toggled(r) == [r EXCEPT !.enabled = ~@]

ToggleDimension(d) ==
  /\ catalog[d] # NoDim
  /\ catalog' = [catalog EXCEPT ![d] = Toggled(catalog[d])]
  /\ UNCHANGED <<configOf, offer, approved, ordered, site, publisher, priced>>

(* disableOffer: by id alone, whatever its status; every reader takes a     *)
(* disabled row for an inactive one.                                        *)
DisableOffer(i) ==
  /\ offer[i] # NoOffer
  /\ offer' = [offer EXCEPT ![i].status = "inactive", ![i].key = NoDim]
  /\ UNCHANGED <<configOf, catalog, approved, ordered, site, publisher, priced>>

SellerChanges(p) ==
  /\ approved' = IF p \in approved THEN approved \ {p} ELSE approved \cup {p}
  /\ UNCHANGED <<configOf, catalog, offer, ordered, site, publisher, priced>>

-------------------------------------------------------------------------------
(* The main site.                                                           *)

(* A price, with the version that was in force and whether the dimension    *)
(* had a row of its own.                                                    *)
Price(o) ==
  [version |-> Newest, dim |-> o.dim, base |-> o.base, declared |-> catalog[o.dim] # NoDim,
   retail |-> Retail(o.base, PricingFor(o.dim))]

Sellable(i) ==
  /\ offer[i] # NoOffer /\ offer[i].status = "active" /\ offer[i].seller \in approved
  /\ Served(offer[i].dim)

(* queryInventory: it throws when the offer it selects is out of guardrail. *)
QueryInventory(i) ==
  /\ Sellable(i) /\ WithinGuardrail(offer[i].base, PricingFor(offer[i].dim))
  /\ priced' = priced \cup {Price(offer[i])}
  /\ UNCHANGED <<configOf, catalog, offer, approved, ordered, site, publisher>>

(* A reservation at a quote's version, refused as QUOTE_EXPIRED at any      *)
(* version but the newest; the order refers to the offer.                   *)
ReserveAtQuote(i, q) ==
  /\ Sellable(i) /\ WithinGuardrail(offer[i].base, PricingFor(offer[i].dim))
  /\ q \in priced /\ q.version = Newest /\ q.dim = offer[i].dim
  /\ priced' = priced \cup {Price(offer[i])}
  /\ ordered' = ordered \cup {i}
  /\ UNCHANGED <<configOf, catalog, offer, approved, site, publisher>>

OffersNext ==
  \/ \E s \in Sites :
       \/ \E p \in Sellers, d \in Dimensions, b \in BasePrices, st \in OfferStatus :
            CreateOffer(s, p, d, b, st)
       \/ \E i \in OfferIds :
            \/ \E b \in BasePrices : UpdateOfferBasePrice(s, i, b)
            \/ ActivateOffer(s, i) \/ DeactivateOffer(s, i) \/ DeleteOffer(s, i)
            \/ InsertOffer(s, i)
       \/ UpdateOffer(s) \/ DeleteOfferById(s) \/ RollBack(s)
  \/ \E a \in Publishers : BeginPublish(a) \/ \E c \in Configs : Publish(a, c)
  \/ \E d \in Dimensions :
       \/ \E o \in Overrides, e \in BOOLEAN : DeclareDimension(d, o, e)
       \/ ToggleDimension(d)
  \/ \E p \in Sellers : SellerChanges(p)
  \/ \E i \in OfferIds : DisableOffer(i)
  \/ \E i \in OfferIds : QueryInventory(i) \/ \E q \in priced : ReserveAtQuote(i, q)

OffersSpec == OffersInit /\ [][OffersNext]_offerVars

-------------------------------------------------------------------------------
(* Properties.                                                              *)

OffersTypeOK ==
  /\ \E n \in 1..MaxConfigs : Version = 1..n
  /\ \A v \in Version : configOf[v] \in Configs
  /\ catalog \in [Dimensions -> DimensionRow \cup {NoDim}]
  /\ offer \in [OfferIds -> OfferRow \cup {NoOffer}]
  /\ site \in [Sites -> [pc : {"idle", "write"}, id : OfferIds \cup {NoOffer},
                         kind : {"create", "price", "activate", "deactivate", "delete"},
                         row : OfferRow \cup {NoOffer}, shown : BOOLEAN]]
  /\ publisher \in [Publishers -> [pc : {"idle", "insert"}, next : 1..MaxConfigs]]
  /\ approved \subseteq Sellers /\ ordered \subseteq OfferIds

(* However creations, price changes, activations and deactivations of one   *)
(* partner overlap, and whatever stale status each writes back, at most one *)
(* of its offers on a dimension is active.                                  *)
OneActiveOffer ==
  \A i, j \in OfferIds :
    /\ offer[i] # NoOffer /\ offer[j] # NoOffer
    /\ offer[i].status = "active" /\ offer[j].status = "active"
    /\ offer[i].seller = offer[j].seller /\ offer[i].dim = offer[j].dim
    => i = j

(* The version of a quote pins its price: at one version, a declared        *)
(* dimension sells an offer of one base price at one retail price, however  *)
(* often it was toggled and whatever was published and took the version     *)
(* first.                                                                   *)
PriceIsPinned ==
  \A x, y \in priced :
    /\ x.declared /\ y.declared
    /\ x.version = y.version /\ x.dim = y.dim /\ x.base = y.base
    => x.retail = y.retail

(* Every price is the least multiple of the rounding unit that covers base   *)
(* price, fee and markup: the platform's margin is never below its fee.      *)
RetailIsLeast ==
  \A i \in OfferIds :
    offer[i] # NoOffer =>
      LET p == PricingFor(offer[i].dim) IN
      WithinGuardrail(offer[i].base, p) => LeastRetail(offer[i].base, p, Retail(offer[i].base, p))

(* The inductive invariant of the proofs: a slot belongs to the row that     *)
(* holds it, a publication under way follows a version that exists, and a   *)
(* price recorded for a declared dimension is the one its version and its   *)
(* overrides give for ever.                                                 *)
KeyMatches(row) == row.key = ActiveDimensionKey(row.seller, row.dim, row.status)

KeysMatch ==
  /\ \A i \in OfferIds : offer[i] # NoOffer => KeyMatches(offer[i])
  /\ \A s \in Sites : site[s].row # NoOffer => KeyMatches(site[s].row)

SlotsAreUnique ==
  \A i, j \in OfferIds :
    /\ i # j /\ offer[i] # NoOffer /\ offer[j] # NoOffer
    /\ offer[i].key = offer[j].key
    => offer[i].key = NoDim

WritesAreReady ==
  \A s \in Sites : Writes(s, {"create", "price", "activate", "deactivate"})
                   => site[s].row # NoOffer

PublicationsFollow ==
  \A a \in Publishers : publisher[a].pc = "insert" => publisher[a].next - 1 \in Version

PriceStands(x) ==
  /\ x.version \in Version /\ x.dim \in Dimensions
  /\ x.declared =>
       /\ catalog[x.dim] # NoDim
       /\ x.retail = Retail(x.base, DimensionPricing(catalog[x.dim].over, configOf[x.version]))

OffersIInv ==
  /\ OffersTypeOK /\ KeysMatch /\ SlotsAreUnique /\ WritesAreReady /\ PublicationsFollow
  /\ \A x \in priced : PriceStands(x)

(* "Withdrawing supply must always remain possible": a deactivation that     *)
(* ends leaves its offer inactive, or gone.                                  *)
Withdraws(s) ==
  Writes(s, {"deactivate"}) /\ site'[s].pc = "idle" =>
    LET o == offer'[site[s].id] IN o = NoOffer \/ o.status = "inactive"

WithdrawalIsPossible == [][\A s \in Sites : Withdraws(s)]_offerVars

===============================================================================
