----------------------------- MODULE PricingLayers -----------------------------
(***************************************************************************)
(* How a call gets its price (pricing/layers.go, pricing.go): a final      *)
(* amount the provider reports, else the most specific contract of the     *)
(* customer, else the public list, else none; and what a loaded file of    *)
(* contracts must satisfy.                                                 *)
(*                                                                         *)
(* A model's name is the sequence of its parts, cut at the separators of   *)
(* versionSuffix; a part is a version when it starts with a digit.  Names  *)
(* compare as the code compares them, so letter case is left out, and a    *)
(* rate is what the code gets by multiplying its input rate and a          *)
(* multiplier.  Dates are days; 0 is an open end, "" any region or tier.   *)
(***************************************************************************)
EXTENDS Integers, SequencesExt, FiniteSetsExt

CONSTANTS
  Version,   \* parts of model names that start with a digit
  List       \* the public list: a function from model names to
             \*   [price, from, through]

Unscoped == ""
Open(day) == IF day = 0 THEN 9999 ELSE day
InRange(day, from, through) == from <= day /\ day <= Open(through)

\* modelMatches: the name itself, or the name followed by a version.
ModelMatches(configured, observed) ==
  \/ observed = configured
  \/ /\ IsStrictPrefix(configured, observed)
     /\ observed[Len(configured) + 1] \in Version

ContractMatches(c, provider, model, region, tier, day) ==
  /\ c.provider = provider
  /\ ModelMatches(c.model, model)
  /\ InRange(day, c.from, c.through)
  /\ c.region \in {Unscoped, region}
  /\ c.tier \in {Unscoped, tier}

Specificity(c) == 2 + Cardinality({d \in {"region", "tier"} : c[d] # Unscoped})

-----------------------------------------------------------------------------
(* Loading a file of contracts, an order of records.                       *)

\* Fault: selectors overlap only when they are written alike.
OverlapLiterally(a, b) == a = b

ModelSelectorsOverlap(a, b) == ModelMatches(a, b) \/ ModelMatches(b, a)

SameSelector(a, b) ==
  /\ a.provider = b.provider
  /\ ModelSelectorsOverlap(a.model, b.model)
  /\ a.region = b.region /\ a.tier = b.tier

RangesOverlap(a, b) == a.from <= Open(b.through) /\ b.from <= Open(a.through)

\* validateModels for one price.
ValidPrice(p) ==
  /\ IF p.free THEN p.rates = [in |-> 0, out |-> 0, read |-> 0, write |-> 0] /\ p.threshold = 0
               ELSE p.rates.in > 0 /\ p.rates.out > 0
  /\ p.threshold > 0 => p.longIn > 0 /\ p.longOut > 0

ValidContracts(file) ==
  /\ \A i \in DOMAIN file :
       /\ file[i].from > 0 /\ file[i].from <= Open(file[i].through)
       /\ ValidPrice(file[i].price)
  /\ \A i, j \in DOMAIN file : i # j =>
       /\ file[i].id # file[j].id
       /\ ~ /\ Specificity(file[i]) = Specificity(file[j])
            /\ SameSelector(file[i], file[j])
            /\ RangesOverlap(file[i], file[j])

-----------------------------------------------------------------------------
(* Resolving a call: model, provider, region, tier, day, and the amount of *)
(* the final-cost header: NoFinal without one, BadFinal when it is not an  *)
(* amount.                                                                 *)

NoFinal == -1
BadFinal == -2

\* The first contract of the highest specificity, in the order of the file.
Winner(file, call) ==
  LET Matches(i) == ContractMatches(file[i], call.provider, call.model, call.region, call.tier, call.day)
      matching == {i \in DOMAIN file : Matches(i)}
      best == {i \in matching : \A j \in matching : Specificity(file[j]) <= Specificity(file[i])}
  IN  IF best = {} THEN 0 ELSE Min(best)

\* lookupWithKey: the exact name, else the longest key it is a version of.
ListKey(model) ==
  IF model \in DOMAIN List THEN {model}
  ELSE LET keys == {k \in DOMAIN List : ModelMatches(k, model)}
       IN  {k \in keys : \A other \in keys : Len(other) <= Len(k)}

Unpriced == [source |-> "unknown"]

Resolve(file, call) ==
  LET w == Winner(file, call)
      listed == {k \in ListKey(call.model) : InRange(call.day, List[k].from, List[k].through)}
  IN  CASE call.final >= 0 -> [source |-> "provider_final", amount |-> call.final]
        [] call.final = BadFinal -> Unpriced
        [] call.final = NoFinal /\ w # 0 ->
             [source |-> "contract", ref |-> file[w].id, price |-> file[w].price,
              coversRegion |-> file[w].region # Unscoped, coversTier |-> file[w].tier # Unscoped]
        [] call.final = NoFinal /\ w = 0 /\ listed # {} ->
             [source |-> "public_list", ref |-> CHOOSE k \in listed : TRUE,
              price |-> List[CHOOSE k \in listed : TRUE].price,
              coversRegion |-> FALSE, coversTier |-> FALSE]
        [] OTHER -> Unpriced

-----------------------------------------------------------------------------
(* The price of usage, in tenths.                                          *)

TierPriced(tier) == tier \in {"", "standard"}
GeoKnown(geo) == geo \in {"", "us"}
GeoTenths(geo) == IF geo = "us" THEN 11 ELSE 10

LongIn(p, tokens) == IF p.threshold > 0 /\ tokens > p.threshold THEN p.longIn ELSE 1
LongOut(p, tokens) == IF p.threshold > 0 /\ tokens > p.threshold THEN p.longOut ELSE 1

\* Cost, and what costUsage adds for writes kept an hour: these are at twice
\* the input rate.
Cost(p, u) ==
  LET input == u.in + u.read + u.write
      hour == Min({u.hour, u.write})
  IN    LongIn(p, input) * ( u.in * p.rates.in + u.read * p.rates.read
                           + u.write * p.rates.write + hour * (2 * p.rates.in - p.rates.write) )
      + LongOut(p, input) * u.out * p.rates.out

\* costResolvedUsage: a contract for a region is that region's rate already.
ResolvedCost(r, u, geo) ==
  Max({0, Cost(r.price, u)}) * IF r.coversRegion THEN 10 ELSE GeoTenths(geo)
================================================================================
