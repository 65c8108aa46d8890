-------------------------------- MODULE Pricing --------------------------------
(***************************************************************************)
(* What a model call is reserved at: the shipped ceilings, the floor under *)
(* them that was last observed of the providers (model-price-floor.ts), an *)
(* operator's override (cost-budget.ts), and the script that reads the     *)
(* catalog and writes the floor (openrouter-check-prices.ts).              *)
(*                                                                         *)
(* Rates are naturals, of one axis: input and output are two like it.  A   *)
(* reading is the ascending sequence of the providers' rates for a model,  *)
(* empty when there is none or the answer cannot be read.                  *)
(***************************************************************************)
EXTENDS Naturals, Sequences, FiniteSets

CONSTANTS
    PricedModels, \* models the configuration declares
    Readings,     \* what the catalog may answer for a model
    Ceilings,     \* rates the table may ship
    Pins,         \* rates an operator may pin a model to
    Unpriced,     \* no price
    Malformed,    \* an override that is not two rates
    FloorTtl,     \* days an observation is trusted
    LastDay,      \* days (a bound of the model)
    MaxTurnsOfMarket \* changes of catalog, table and environment (a bound)

ASSUME PricingAssumption ==
    /\ <<>> \in Readings /\ Readings \subseteq Seq(Nat)
    /\ \A r \in Readings : \A i, j \in DOMAIN r : i < j => r[i] <= r[j]
    /\ Ceilings \subseteq Nat /\ Pins \subseteq Nat
    /\ FloorTtl \in Nat /\ LastDay \in Nat /\ MaxTurnsOfMarket \in Nat
    /\ Unpriced \notin Nat /\ Malformed \notin Nat \cup {Unpriced}

VARIABLES
    catalog,     \* what the providers ask now
    shipped,     \* modelPriceTable
    pinned,      \* DF_MODEL_PRICE_<model>
    priceFloor,  \* priceFloorRecord
    check,       \* the refresh script
    today,
    marketTurns,       \* changes so far
    asRead,      \* history: the reading behind each observation of the floor
    writtenUnder \* history: the ceilings the floor was written under

pricingVars == <<catalog, shipped, pinned, priceFloor, check, today, marketTurns,
                 asRead, writtenUnder>>

Rates == Nat \cup {Unpriced}
DearestObservation == [rate : Nat, declined : Rates, providers : Nat]

PricingTypeOK ==
    /\ catalog \in [PricedModels -> Readings]
    /\ shipped \in [PricedModels -> Rates]
    /\ pinned \in [PricedModels -> Rates \cup {Malformed}]
    /\ priceFloor.verifiedAt \in 0..LastDay
    /\ \A m \in DOMAIN priceFloor.observed :
          m \in PricedModels /\ priceFloor.observed[m] \in DearestObservation
    /\ check.at \in {"idle", "fetch", "compare"} /\ check.exit \in {0, 1}
    /\ DOMAIN check.observed \subseteq PricedModels
    /\ today \in 0..LastDay /\ marketTurns \in 0..MaxTurnsOfMarket

-----------------------------------------------------------------------------
(* The rule                                                                *)

PRICE_OUTLIER_MULTIPLE == 3

\* The rate at ceil(tenths / 10 * n) of the n, in ascending order.
NearestRank(rates, tenths) == rates[(tenths * Len(rates) + 9) \div 10]

P90(rates) == NearestRank(rates, 9)
Dearest(rates) == rates[Len(rates)]

\* A single provider has no peers to be an outlier against.
IsOutlier(rate, rates) == Len(rates) >= 2 /\ rate > PRICE_OUTLIER_MULTIPLE * P90(rates)

\* What may be adopted of the rates, and what was declined.
CapRate(rates) ==
    IF IsOutlier(Dearest(rates), rates)
    THEN [rate |-> PRICE_OUTLIER_MULTIPLE * P90(rates), declined |-> Dearest(rates),
          providers |-> Len(rates)]
    ELSE [rate |-> Dearest(rates), declined |-> Unpriced, providers |-> Len(rates)]

Larger(a, b) == IF a > b THEN a ELSE b

\* Mutant: the floor is not consulted.
ApplyTableOnly(ceiling, m) == ceiling

\* The floor can only raise what is reserved.
ApplyPriceFloor(ceiling, m) ==
    IF m \in DOMAIN priceFloor.observed
    THEN Larger(ceiling, priceFloor.observed[m].rate) ELSE ceiling

\* An override stands over both; one that cannot be read prices nothing, and
\* what has no price is refused.
ResolvePrice(m) ==
    IF pinned[m] = Malformed THEN Unpriced
    ELSE IF pinned[m] # Unpriced THEN pinned[m]
    ELSE IF shipped[m] = Unpriced THEN Unpriced
    ELSE ApplyPriceFloor(shipped[m], m)

\* The TTL counts from the verification.
IsFloorStale == today - priceFloor.verifiedAt > FloorTtl

Ended(code) == [at |-> "idle", noticed |-> FALSE, table |-> <<>>, observed |-> <<>>,
                readings |-> <<>>, exit |-> code]

\* The first record: every ceiling as it was observed.
PricingInit ==
    /\ catalog \in [PricedModels -> Readings \ {<<>>}]
    /\ \A m \in PricedModels : Len(catalog[m]) = 1
    /\ shipped = [m \in PricedModels |-> Dearest(catalog[m])]
    /\ pinned = [m \in PricedModels |-> Unpriced]
    /\ priceFloor = [verifiedAt |-> 0, observed |-> [m \in PricedModels |-> CapRate(catalog[m])]]
    /\ check = Ended(0)
    /\ today = 0 /\ marketTurns = 0
    /\ asRead = catalog
    /\ writtenUnder = shipped

-----------------------------------------------------------------------------
(* The world                                                               *)

Turn == marketTurns < MaxTurnsOfMarket /\ marketTurns' = marketTurns + 1

\* Providers come, go and reprice.
Reprice(m) ==
    /\ Turn
    /\ \E r \in Readings : catalog' = [catalog EXCEPT ![m] = r]
    /\ UNCHANGED <<shipped, pinned, priceFloor, check, today, asRead, writtenUnder>>

\* A release with another ceiling, or none.
Ship(m) ==
    /\ Turn
    /\ \E c \in Ceilings \cup {Unpriced} : shipped' = [shipped EXCEPT ![m] = c]
    /\ UNCHANGED <<catalog, pinned, priceFloor, check, today, asRead, writtenUnder>>

Pin(m) ==
    /\ Turn
    /\ \E c \in Pins \cup {Unpriced, Malformed} : pinned' = [pinned EXCEPT ![m] = c]
    /\ UNCHANGED <<catalog, shipped, priceFloor, check, today, asRead, writtenUnder>>

NextDay ==
    /\ today < LastDay
    /\ today' = today + 1
    /\ UNCHANGED <<catalog, shipped, pinned, priceFloor, check,
                   marketTurns, asRead, writtenUnder>>

-----------------------------------------------------------------------------
(* openrouter-check-prices                                                 *)

\* The table is the checkout's, whatever is shipped meanwhile.
StartCheck ==
    /\ check.at = "idle"
    /\ check' = [Ended(0) EXCEPT !.at = "fetch", !.noticed = IsFloorStale,
                                 !.table = shipped]
    /\ UNCHANGED <<catalog, shipped, pinned, priceFloor, today,
                   marketTurns, asRead, writtenUnder>>

\* f with the entry of m, which had none.
WithModel(f, m, entry) ==
    [n \in DOMAIN f \cup {m} |-> IF n = m THEN entry ELSE f[n]]

\* Mutant: a model that cannot be verified is left out.
FetchPassing(m) ==
    /\ check.at = "fetch"
    /\ m \in PricedModels \ DOMAIN check.observed
    /\ check' = [check EXCEPT
          !.at = IF \/ catalog[m] = <<>>
                    \/ DOMAIN check.observed \cup {m} = PricedModels THEN "compare" ELSE "fetch",
          !.observed = IF catalog[m] = <<>> THEN @ ELSE WithModel(@, m, CapRate(catalog[m])),
          !.readings = IF catalog[m] = <<>> THEN @ ELSE WithModel(@, m, catalog[m])]
    /\ UNCHANGED <<catalog, shipped, pinned, priceFloor, today,
                   marketTurns, asRead, writtenUnder>>

\* fetchDearestRate, a model at a time; one that cannot be read ends the check.
Fetch(m) ==
    /\ check.at = "fetch"
    /\ m \in PricedModels \ DOMAIN check.observed
    /\ IF catalog[m] = <<>> THEN check' = Ended(1)
       ELSE check' = [check EXCEPT
              !.at = IF DOMAIN check.observed \cup {m} = PricedModels THEN "compare" ELSE "fetch",
              !.observed = WithModel(@, m, CapRate(catalog[m])),
              !.readings = WithModel(@, m, catalog[m])]
    /\ UNCHANGED <<catalog, shipped, pinned, priceFloor, today,
                   marketTurns, asRead, writtenUnder>>

\* A network that fails, as an answer that cannot be read.
FetchFails ==
    /\ check.at = "fetch"
    /\ check' = Ended(1)
    /\ UNCHANGED <<catalog, shipped, pinned, priceFloor, today,
                   marketTurns, asRead, writtenUnder>>

\* ceilingsBelowObserved: an observation nothing is priced for, or below it.
Drifted == {m \in DOMAIN check.observed :
              \/ check.table[m] = Unpriced
              \/ check.table[m] < check.observed[m].rate}

\* With --write, but no record the ceilings do not cover.
Conclude ==
    /\ check.at = "compare"
    /\ check' = Ended(IF Drifted = {} THEN 0 ELSE 1)
    /\ \/ /\ Drifted = {}
          /\ priceFloor' = [verifiedAt |-> today, observed |-> check.observed]
          /\ asRead' = check.readings
          /\ writtenUnder' = check.table
       \/ UNCHANGED <<priceFloor, asRead, writtenUnder>>
    /\ UNCHANGED <<catalog, shipped, pinned, today, marketTurns>>

PricingNext ==
    \/ \E m \in PricedModels : Reprice(m) \/ Ship(m) \/ Pin(m) \/ Fetch(m)
    \/ NextDay \/ StartCheck \/ FetchFails \/ Conclude

PricingSpec == PricingInit /\ [][PricingNext]_pricingVars

-----------------------------------------------------------------------------
(* What must hold                                                          *)

\* However the table is lowered, the market moves and checks are begun, fail
\* half-way and overlap with releases: unless its operator pinned it, a model
\* with a price is reserved at no less than any provider asked at the last
\* verification, the outliers apart, and is raised above its ceiling by no
\* outlier.
ReservationCoversPeers ==
    \A m \in PricedModels : pinned[m] = Unpriced /\ shipped[m] # Unpriced =>
        /\ \A i \in DOMAIN asRead[m] :
              ~IsOutlier(asRead[m][i], asRead[m]) => ResolvePrice(m) >= asRead[m][i]
        /\ ResolvePrice(m) > shipped[m] => ~IsOutlier(ResolvePrice(m), asRead[m])

\* A record holds every declared model or was not written, under ceilings that
\* covered it; a provider it did not adopt is named in it.  The rank of nine
\* tenths is the dearest of up to nine, so among so few nothing is declined.
RecordIsWhole ==
    /\ DOMAIN priceFloor.observed = PricedModels
    /\ \A m \in PricedModels :
          LET observed == priceFloor.observed[m]
          IN /\ writtenUnder[m] # Unpriced /\ observed.rate <= writtenUnder[m]
             /\ Dearest(asRead[m]) > observed.rate => observed.declined = Dearest(asRead[m])
             /\ observed.declined # Unpriced => observed.providers >= 10

PriceIsSound == RecordIsWhole /\ ReservationCoversPeers
=============================================================================
