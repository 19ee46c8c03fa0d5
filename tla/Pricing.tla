------------------------------ MODULE Pricing ------------------------------
(***************************************************************************)
(* internal/configsvc, the price half: which published rate a model of a   *)
(* provider is billed at, and what an unpriced model borrows.  A cost is   *)
(* one token rate: 0 states no rate, a negative one is invalid, and one    *)
(* above MaxSaneTokenRate is implausible.  A price list maps catalog ids   *)
(* to maps from models to costs.  Numbers order models as names do.        *)
(***************************************************************************)
EXTENDS Integers, FiniteSets

CONSTANTS
    CatalogIds,         \* the providers of the hand-written catalogue
    NoCatalog,          \* what a row made from the "Custom" tile names
    Mapped,             \* those models.dev has a list for (providerFor)
    Rehosts,            \* those that resell other makers' models
    IdRank,             \* the alphabetical rank of every catalog id there ever was
    Undated,            \* a dated build's undated model; any other, itself
    MaxSaneTokenRate

ASSUME PricingAssumption ==
    /\ NoCatalog \notin CatalogIds
    /\ Mapped \subseteq CatalogIds /\ Rehosts \subseteq CatalogIds
    /\ CatalogIds \subseteq DOMAIN IdRank
    /\ \A a \in DOMAIN IdRank : IdRank[a] \in Nat
    /\ \A a, b \in DOMAIN IdRank : IdRank[a] = IdRank[b] => a = b

Price(cost, source) == [cost |-> cost, source |-> source]

PriceMetersZero(p) == p.cost = 0
PriceRateImplausible(p) == p.cost > MaxSaneTokenRate

Lists(list, id, m) == id \in DOMAIN list /\ m \in DOMAIN list[id]

(* LookupIDs: a dated build's own rate, else the rate of the model it is a
   build of. *)
Finds(list, id, m) == Lists(list, id, m) \/ Lists(list, id, Undated[m])
Rate(list, id, m) == list[id][IF Lists(list, id, m) THEN m ELSE Undated[m]]

(* anyProviderOrder: makers before re-hosts, alphabetical within each. *)
Before(a, b) ==
    \/ a \notin Rehosts /\ b \in Rehosts
    \/ (a \in Rehosts <=> b \in Rehosts) /\ IdRank[a] < IdRank[b]

(* feedAnyModelPrice, catalogAnyModelPrice: a guess skips a list that states
   no rate for the model. *)
Guesses(list, m) == {id \in DOMAIN list : Finds(list, id, m) /\ Rate(list, id, m) # 0}

Guess(list, m) ==
    LET first == CHOOSE id \in Guesses(list, m) :
                     \A other \in Guesses(list, m) \ {id} : Before(id, other)
    IN  Rate(list, first, m)

(* effectivePrice: the first source that answers.  src.pinned is the
   hand-written catalogue alone, src.catalog the merged one. *)
EffectivePrice(id, m, row, src) ==
    IF row.override THEN Price(row.cost, "override")
    ELSE IF Finds(src.pinned, id, m) THEN Price(Rate(src.pinned, id, m), "catalog")
    ELSE IF Finds(src.feed, id, m) THEN Price(Rate(src.feed, id, m), "feed")
    ELSE IF Finds(src.catalog, id, m) THEN Price(Rate(src.catalog, id, m), "catalog")
    ELSE IF Guesses(src.feed, m) # {} THEN Price(Guess(src.feed, m), "feed")
    ELSE IF Guesses(src.catalog, m) # {} THEN Price(Guess(src.catalog, m), "catalog")
    ELSE Price(row.cost, IF row.cost = 0 THEN "unpriced" ELSE "stored")

(* fallbackPrice: the siblings an unpriced model may borrow from, and the
   dearest of them. *)
Lenders(table, m) ==
    {o \in DOMAIN table \ {m} :
        /\ ~PriceMetersZero(table[o])
        /\ ~PriceRateImplausible(table[o])
        /\ table[o].source # "fallback"}

Dearest(table, S) ==
    CHOOSE o \in S : \A x \in S \ {o} :
        \/ table[x].cost < table[o].cost
        \/ table[x].cost = table[o].cost /\ o < x

WithFallback(table, m) ==
    IF table[m].source = "unpriced" /\ Lenders(table, m) # {}
    THEN Price(table[Dearest(table, Lenders(table, m))].cost, "fallback")
    ELSE table[m]

(* The price table every vendor of a provider carries. *)
PriceTable(id, models, src) ==
    LET published == [m \in DOMAIN models |-> EffectivePrice(id, m, models[m], src)]
    IN  [m \in DOMAIN models |-> WithFallback(published, m)]

-----------------------------------------------------------------------------
(* The lists themselves: the embedded catalogue and the refreshed feed. *)

(* merge: a hand-written rate replaces the generated one. *)
Merge(gen, man) ==
    [id \in DOMAIN gen \cup DOMAIN man |->
        [m \in {x \in DOMAIN Undated : Lists(gen, id, x) \/ Lists(man, id, x)} |->
            IF Lists(man, id, m) THEN man[id][m] ELSE gen[id][m]]]

(* modelsdev.Generate: an id nobody maps and a pinned model are skipped. *)
Generate(upstream, pinned) ==
    [id \in DOMAIN upstream \cap Mapped |->
        [m \in {x \in DOMAIN upstream[id] : ~Lists(pinned, id, x)} |-> upstream[id][m]]]

(* The rows a refresh keeps: those of a plausible scale. *)
Plausible(list) ==
    [id \in DOMAIN list |->
        [m \in {x \in DOMAIN list[id] : list[id][x] <= MaxSaneTokenRate} |-> list[id][m]]]

Rows(list) == UNION {{<<id, m>> : m \in DOMAIN list[id]} : id \in DOMAIN list}
Implausible(list) == Rows(list) \ Rows(Plausible(list))

Rewritten(previous, generated) ==
    {r \in Rows(Plausible(generated)) :
        r \notin Rows(previous) \/ previous[r[1]][r[2]] # generated[r[1]][r[2]]}

(* refresh's moved: a kept rate that is new or changed, and (countDropped) a
   stored one that was not generated. *)
Moved_OnlyRewrites(previous, generated) == Rewritten(previous, generated)
Moved(previous, generated) ==
    Rewritten(previous, generated) \cup (Rows(previous) \ Rows(generated))
=============================================================================
