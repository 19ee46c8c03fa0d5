---------------------------- MODULE AffinityMap ----------------------------
(***************************************************************************)
(* The map of internal/router/affinity.go as operators on its value: which *)
(* vendor each session key is pinned to, and how long ago it was set.      *)
(* Ages are in ticks and stop at StickyTTL, past which an entry is stale   *)
(* whatever its age.                                                       *)
(***************************************************************************)
EXTENDS Integers, FiniteSets

CONSTANTS
    StickyTTL,      \* idle ticks after which a pin is stale
    StickyMax,      \* hard cap on the number of entries
    SweepInterval,  \* ticks between sweeps
    NoVendor        \* the empty vendor name: no pin

ASSUME StickyBounds ==
    /\ StickyTTL \in Nat \ {0}
    /\ StickyMax \in Nat \ {0}
    /\ SweepInterval \in Nat \ {0}

EmptyMap == [k \in {} |-> [vendor |-> NoVendor, age |-> 0]]

(* newAffinity *)
NewAffinity == [entries |-> EmptyMap, sweepIn |-> SweepInterval]

Keep(entries, keys) == [k \in keys |-> entries[k]]

Stale(e) == e.age >= StickyTTL

(* sweepLocked, run first by get and by set *)
Swept(m) ==
    IF m.sweepIn > 0 THEN m
    ELSE [entries |-> Keep(m.entries, {k \in DOMAIN m.entries : ~Stale(m.entries[k])}),
          sweepIn |-> SweepInterval]

(* get: a stale entry reads as no pin, whether or not it was swept. *)
Lookup(m, key) ==
    IF key \in DOMAIN m.entries /\ ~Stale(m.entries[key])
    THEN m.entries[key].vendor ELSE NoVendor

(* evictLocked: the maps that may be left, the least recently set entries  *)
(* gone; sort.Slice settles ties as it likes.                              *)
Evictions_NewestFirst(entries) ==
    IF Cardinality(DOMAIN entries) <= StickyMax THEN {entries}
    ELSE {Keep(entries, keys) : keys \in
            {K \in SUBSET DOMAIN entries :
                /\ Cardinality(K) = StickyMax
                /\ \A k \in K, out \in DOMAIN entries \ K : entries[k].age >= entries[out].age}}
Evictions(entries) ==
    IF Cardinality(DOMAIN entries) <= StickyMax THEN {entries}
    ELSE {Keep(entries, keys) : keys \in
            {K \in SUBSET DOMAIN entries :
                /\ Cardinality(K) = StickyMax
                /\ \A k \in K, out \in DOMAIN entries \ K : entries[k].age <= entries[out].age}}

(* set: the maps that pinning key to vendor may leave *)
Pinned(m, key, vendor) ==
    LET swept == Swept(m)
        with == [k \in DOMAIN swept.entries \cup {key} |->
                    IF k = key THEN [vendor |-> vendor, age |-> 0] ELSE swept.entries[k]]
    IN {[swept EXCEPT !.entries = entries] : entries \in Evictions(with)}

(* One tick of the clock. *)
Older(m) ==
    [entries |-> [k \in DOMAIN m.entries |->
                    [m.entries[k] EXCEPT !.age = IF @ < StickyTTL THEN @ + 1 ELSE @]],
     sweepIn |-> IF m.sweepIn > 0 THEN m.sweepIn - 1 ELSE 0]
=============================================================================
