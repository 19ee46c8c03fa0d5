---------------------------- MODULE RouterProofs ----------------------------
(***************************************************************************)
(* What Router promises of stickiness, of parking and of the affinity map, *)
(* for every fleet, request and size of the map.  The map needs one        *)
(* relation to the history of answers: an entry is as old as the answer    *)
(* that set it, so that whoever evicts an entry has kept StickyMax others  *)
(* that were seen as recently.  The selection needs the sort: finite sets  *)
(* can be put in the order of their keys, and the first target the proxy   *)
(* keeps is then the least of those it can use.                            *)
(***************************************************************************)
EXTENDS Router, SumTheorems

Pins == Vendors \cup {NoVendor}
Ranking == [phase : {"ranking"}, request : Requests, pin : Pins, last : Pins, assured : BOOLEAN]
Sent == [phase : {"sent", "reported"}, request : Requests, vendor : Vendors]

SlotsOK == slots \in [Slots -> {Idle} \cup Ranking \cup Sent]

(* What Select reads of the pin is the vendor that served the session last *)
(* or nothing, and not nothing while the pin is assured.                   *)
PinsAreServed ==
    \A a \in Slots : slots[a].phase = "ranking" =>
        /\ slots[a].pin \in {slots[a].last, NoVendor}
        /\ slots[a].assured => slots[a].pin = slots[a].last

(* What holds of a map m and a history sv of the answers. *)
Warm(sv) == {k \in Keys : sv[k].since < StickyTTL}
Answers == [vendor : Pins, since : 0..StickyTTL]
Entries == [vendor : Pins, age : 0..StickyTTL]

HistoryOK(sv) == sv \in [Keys -> Answers] /\ IsFiniteSet(Warm(sv))

MapOK(m) ==
    /\ m = [entries |-> m.entries, sweepIn |-> m.sweepIn]
    /\ m.sweepIn \in Nat
    /\ DOMAIN m.entries \in SUBSET Keys
    /\ IsFiniteSet(DOMAIN m.entries)
    /\ m.entries \in [DOMAIN m.entries -> Entries]

(* An entry is as old as the answer that set it ... *)
AgesMatch(m, sv) ==
    \A k \in DOMAIN m.entries :
        /\ m.entries[k].age = sv[k].since
        /\ sv[k].since < StickyTTL => m.entries[k].vendor = sv[k].vendor

(* ... and one that is gone was stale, or StickyMax others are as recent.  *)
AsRecent(sv, k) == {j \in Keys \ {k} : sv[j].since <= sv[k].since}
AssuredIn(sv, k) == sv[k].since < StickyTTL /\ Cardinality(AsRecent(sv, k)) < StickyMax
Remembers(m, sv) == \A k \in Keys : AssuredIn(sv, k) => k \in DOMAIN m.entries

Follows(m, sv) == HistoryOK(sv) /\ MapOK(m) /\ AgesMatch(m, sv) /\ Remembers(m, sv)

RouterInv == SlotsOK /\ Follows(affinity, served) /\ PinsAreServed

-----------------------------------------------------------------------------
(* The affinity map *)

LEMMA KeyOfRequest ==
    ASSUME NEW q \in Requests
    PROVE  /\ q.session # NoSession => AffinityKey(q) \in Keys
           /\ q.session = NoSession => AffinityKey(q) \notin Keys
<1>1. q.session # NoSession => AffinityKey(q) \in Keys
  BY DEF Keys
<1>2. ASSUME q.session = NoSession, NEW r \in Requests, r.session # NoSession
      PROVE  AffinityKey(q) # AffinityKey(r)
  BY <1>2 DEF AffinityKey
<1>3. QED BY <1>1, <1>2 DEF Keys

LEMMA AsRecentFinite ==
    ASSUME NEW sv, HistoryOK(sv), NEW k \in Keys, sv[k].since < StickyTTL
    PROVE  IsFiniteSet(AsRecent(sv, k)) /\ Cardinality(AsRecent(sv, k)) \in Nat
<1>1. AsRecent(sv, k) \in SUBSET Warm(sv)
  BY StickyBounds DEF AsRecent, Warm, HistoryOK, Answers
<1>2. QED BY <1>1, FS_Subset, FS_CardinalityType DEF HistoryOK

(* The promise of the map reads off the invariant. *)
LEMMA PinReads ==
    ASSUME Follows(affinity, served), NEW k \in Keys
    PROVE  /\ Lookup(affinity, k) \in
                {served[k].vendor} \cup (IF Assured(k) THEN {} ELSE {NoVendor})
           /\ Lookup(affinity, k) \in Pins
<1>1. CASE k \in DOMAIN affinity.entries /\ ~Stale(affinity.entries[k])
  <2>1. Lookup(affinity, k) = affinity.entries[k].vendor
    BY <1>1 DEF Lookup
  <2>2. served[k].since < StickyTTL /\ affinity.entries[k] \in Entries
    BY <1>1, StickyBounds DEF Stale, Follows, AgesMatch, HistoryOK, MapOK, Answers
  <2>3. QED BY <2>1, <2>2, <1>1 DEF Follows, AgesMatch, Entries
<1>2. CASE ~(k \in DOMAIN affinity.entries /\ ~Stale(affinity.entries[k]))
  <2>1. Lookup(affinity, k) = NoVendor
    BY <1>2 DEF Lookup
  <2>2. ASSUME Assured(k) PROVE FALSE
    <3>1. k \in DOMAIN affinity.entries
      BY <2>2 DEF Assured, Follows, Remembers, AssuredIn, AsRecent
    <3>2. affinity.entries[k].age < StickyTTL
      BY <3>1, <2>2 DEF Assured, Follows, AgesMatch
    <3>3. affinity.entries[k] \in Entries
      BY <3>1 DEF Follows, MapOK
    <3>4. QED BY <3>1, <3>2, <3>3, <1>2, StickyBounds DEF Stale, Entries
  <2>3. QED BY <2>1, <2>2 DEF Pins
<1>3. QED BY <1>1, <1>2

LEMMA NewFollows ==
    ASSUME NEW sv, sv = [k \in Keys |-> Unserved]
    PROVE  Follows(NewAffinity, sv)
<1>1. \A k \in Keys : sv[k].since = StickyTTL /\ sv[k] \in Answers
  BY StickyBounds DEF Unserved, Answers, Pins
<1>2. Warm(sv) = {}
  BY <1>1, StickyBounds DEF Warm
<1>3. HistoryOK(sv)
  BY <1>1, <1>2, FS_EmptySet DEF HistoryOK
<1>4. MapOK(NewAffinity)
  BY FS_EmptySet, StickyBounds DEF MapOK, NewAffinity, EmptyMap
<1>5. AgesMatch(NewAffinity, sv)
  BY DEF AgesMatch, NewAffinity, EmptyMap
<1>6. Remembers(NewAffinity, sv)
  BY <1>1, StickyBounds DEF Remembers, AssuredIn
<1>7. QED BY <1>3, <1>4, <1>5, <1>6 DEF Follows

(* A sweep drops stale entries only. *)
LEMMA SweptFollows ==
    ASSUME NEW m, NEW sv, Follows(m, sv)
    PROVE  Follows(Swept(m), sv)
<1>1. CASE m.sweepIn > 0
  BY <1>1 DEF Swept
<1>2. CASE ~(m.sweepIn > 0)
  <2> DEFINE K == {k \in DOMAIN m.entries : ~Stale(m.entries[k])}
  <2>1. Swept(m) = [entries |-> [k \in K |-> m.entries[k]], sweepIn |-> SweepInterval]
    BY <1>2 DEF Swept, Keep
  <2>2. K \in SUBSET DOMAIN m.entries /\ IsFiniteSet(K)
    BY FS_Subset DEF Follows, MapOK
  <2>3. MapOK(Swept(m))
    BY <2>1, <2>2, StickyBounds DEF Follows, MapOK
  <2>4. AgesMatch(Swept(m), sv)
    BY <2>1, <2>2 DEF Follows, AgesMatch
  <2>5. ASSUME NEW k \in Keys, AssuredIn(sv, k) PROVE k \in K
    <3>1. k \in DOMAIN m.entries /\ m.entries[k].age < StickyTTL
      BY <2>5 DEF Follows, Remembers, AgesMatch, AssuredIn
    <3>2. m.entries[k] \in Entries
      BY <3>1 DEF Follows, MapOK
    <3>3. QED BY <3>1, <3>2, StickyBounds DEF Stale, Entries
  <2>6. Remembers(Swept(m), sv)
    BY <2>1, <2>5 DEF Remembers
  <2>7. QED BY <2>3, <2>4, <2>6 DEF Follows
<1>3. QED BY <1>1, <1>2

(* What a tick does to the history. *)
Aged(sv, tv) ==
    /\ tv \in [Keys -> Answers]
    /\ \A k \in Keys :
          /\ tv[k].since = IF sv[k].since + 1 < StickyTTL THEN sv[k].since + 1 ELSE StickyTTL
          /\ tv[k].since < StickyTTL => tv[k].vendor = sv[k].vendor

LEMMA TickAges ==
    ASSUME NEW sv, sv \in [Keys -> Answers], NEW tv,
           tv = [k \in Keys |-> IF sv[k].since + 1 < StickyTTL
                                THEN [sv[k] EXCEPT !.since = @ + 1] ELSE Unserved]
    PROVE  Aged(sv, tv)
<1>1. ASSUME NEW k \in Keys
      PROVE  /\ tv[k] \in Answers
             /\ tv[k].since = IF sv[k].since + 1 < StickyTTL THEN sv[k].since + 1 ELSE StickyTTL
             /\ tv[k].since < StickyTTL => tv[k].vendor = sv[k].vendor
  <2>1. PICK p \in Pins, n \in 0..StickyTTL : sv[k] = [vendor |-> p, since |-> n]
    BY DEF Answers
  <2>2. tv[k] = IF n + 1 < StickyTTL THEN [vendor |-> p, since |-> n + 1]
                ELSE [vendor |-> NoVendor, since |-> StickyTTL]
    BY <2>1 DEF Unserved
  <2>3. QED BY <2>1, <2>2, StickyBounds DEF Answers, Pins
<1>2. tv = [k \in Keys |-> tv[k]]
  OBVIOUS
<1>3. tv \in [Keys -> Answers]
  BY <1>1, <1>2
<1>4. QED BY <1>1, <1>3 DEF Aged

(* Time brings no two answers out of order, and keeps entry and answer in  *)
(* step until both are stale.                                              *)
LEMMA OlderFollows ==
    ASSUME NEW m, NEW sv, Follows(m, sv), NEW tv, Aged(sv, tv)
    PROVE  Follows(Older(m), tv)
<1>1. ASSUME NEW k \in Keys
      PROVE  /\ tv[k] \in Answers
             /\ tv[k].since = IF sv[k].since + 1 < StickyTTL THEN sv[k].since + 1 ELSE StickyTTL
             /\ tv[k].since < StickyTTL => tv[k].vendor = sv[k].vendor
  BY DEF Aged
<1>2. \A k \in Keys : sv[k].since \in 0..StickyTTL
  BY DEF Follows, HistoryOK, Answers
<1>3. HistoryOK(tv)
  <2>1. Warm(tv) \in SUBSET Warm(sv)
    BY <1>1, <1>2, StickyBounds DEF Warm
  <2>2. QED BY <2>1, FS_Subset DEF HistoryOK, Follows, Aged
<1>4. ASSUME NEW k \in DOMAIN m.entries
      PROVE  /\ Older(m).entries[k] \in Entries
             /\ Older(m).entries[k].vendor = m.entries[k].vendor
             /\ Older(m).entries[k].age =
                    IF m.entries[k].age < StickyTTL THEN m.entries[k].age + 1 ELSE m.entries[k].age
  <2>1. m.entries[k] \in Entries
    BY DEF Follows, MapOK
  <2>2. PICK p \in Pins, n \in 0..StickyTTL : m.entries[k] = [vendor |-> p, age |-> n]
    BY <2>1 DEF Entries
  <2>3. Older(m).entries[k] = [vendor |-> p, age |-> IF n < StickyTTL THEN n + 1 ELSE n]
    BY <2>2 DEF Older
  <2>4. QED BY <2>2, <2>3, StickyBounds DEF Entries
<1>5. /\ DOMAIN Older(m).entries = DOMAIN m.entries
      /\ Older(m).entries = [k \in DOMAIN m.entries |-> Older(m).entries[k]]
      /\ Older(m) = [entries |-> Older(m).entries, sweepIn |-> Older(m).sweepIn]
      /\ Older(m).sweepIn \in Nat
  BY DEF Older, Follows, MapOK
<1>6. MapOK(Older(m))
  BY <1>4, <1>5 DEF MapOK, Follows
<1>7. AgesMatch(Older(m), tv)
  <2>1. ASSUME NEW k \in DOMAIN m.entries
        PROVE  /\ Older(m).entries[k].age = tv[k].since
               /\ tv[k].since < StickyTTL => Older(m).entries[k].vendor = tv[k].vendor
    <3>1. k \in Keys /\ m.entries[k].age = sv[k].since
          /\ (sv[k].since < StickyTTL => m.entries[k].vendor = sv[k].vendor)
      BY DEF Follows, MapOK, AgesMatch
    <3>2. QED BY <3>1, <1>1, <1>2, <1>4, StickyBounds
  <2>2. QED BY <2>1, <1>5 DEF AgesMatch
<1>8. ASSUME NEW k \in Keys, AssuredIn(tv, k) PROVE AssuredIn(sv, k)
  <2>1. tv[k].since < StickyTTL /\ sv[k].since < StickyTTL
    BY <1>8, <1>1, <1>2, StickyBounds DEF AssuredIn
  <2>2. AsRecent(sv, k) \in SUBSET AsRecent(tv, k)
    BY <1>1, <1>2, StickyBounds DEF AsRecent
  <2>3. IsFiniteSet(AsRecent(tv, k)) /\ Cardinality(AsRecent(tv, k)) \in Nat
        /\ Cardinality(AsRecent(sv, k)) \in Nat
    BY <2>1, <1>3, AsRecentFinite DEF Follows
  <2>4. Cardinality(AsRecent(sv, k)) <= Cardinality(AsRecent(tv, k))
    BY <2>2, <2>3, FS_Subset
  <2>5. QED BY <2>1, <2>3, <2>4, <1>8, StickyBounds DEF AssuredIn
<1>9. Remembers(Older(m), tv)
  BY <1>8, <1>5 DEF Remembers, Follows
<1>10. QED BY <1>3, <1>6, <1>7, <1>9 DEF Follows

(* What an answer does to the history. *)
Answered(sv, key, v) == [k \in Keys |-> IF k = key THEN [vendor |-> v, since |-> 0] ELSE sv[k]]
With(entries, key, v) ==
    [k \in DOMAIN entries \cup {key} |->
        IF k = key THEN [vendor |-> v, age |-> 0] ELSE entries[k]]

LEMMA SetFollows ==
    ASSUME NEW m, NEW sv, Follows(m, sv), NEW key \in Keys, NEW v \in Pins
    PROVE  Follows([entries |-> With(m.entries, key, v), sweepIn |-> m.sweepIn],
                   Answered(sv, key, v))
<1> DEFINE tv == Answered(sv, key, v)
           n == [entries |-> With(m.entries, key, v), sweepIn |-> m.sweepIn]
<1>1. ASSUME NEW k \in Keys
      PROVE  /\ tv[k] \in Answers /\ sv[k].since \in 0..StickyTTL
             /\ k # key => tv[k] = sv[k]
             /\ k = key => tv[k].since = 0 /\ tv[k].vendor = v
  BY StickyBounds DEF Answered, Follows, HistoryOK, Answers
<1>2. tv \in [Keys -> Answers]
  <2>1. tv = [k \in Keys |-> tv[k]]
    BY DEF Answered
  <2>2. QED BY <2>1, <1>1
<1>3. IsFiniteSet(Warm(tv))
  <2>1. Warm(tv) \in SUBSET (Warm(sv) \cup {key})
    BY <1>1 DEF Warm
  <2>2. IsFiniteSet(Warm(sv) \cup {key})
    BY FS_AddElement DEF Follows, HistoryOK
  <2>3. QED BY <2>1, <2>2, FS_Subset
<1>4. /\ n.entries = With(m.entries, key, v) /\ n.sweepIn = m.sweepIn
      /\ DOMAIN n.entries = DOMAIN m.entries \cup {key}
  BY DEF With
<1>5. ASSUME NEW k \in DOMAIN n.entries
      PROVE  /\ n.entries[k] \in Entries /\ k \in Keys
             /\ k # key => n.entries[k] = m.entries[k] /\ k \in DOMAIN m.entries
             /\ k = key => n.entries[k].age = 0 /\ n.entries[k].vendor = v
  BY <1>4, StickyBounds DEF With, Follows, MapOK, Entries
<1>6. MapOK(n)
  <2>1. IsFiniteSet(DOMAIN n.entries)
    BY <1>4, FS_AddElement DEF Follows, MapOK
  <2>2. n.entries \in [DOMAIN n.entries -> Entries]
    <3>1. n.entries = [k \in DOMAIN n.entries |-> n.entries[k]]
      BY <1>4 DEF With
    <3>2. QED BY <3>1, <1>5
  <2>3. QED BY <2>1, <2>2, <1>4, <1>5 DEF Follows, MapOK
<1>7. AgesMatch(n, tv)
  BY <1>1, <1>5 DEF AgesMatch, Follows
<1>8. ASSUME NEW k \in Keys, k # key, AssuredIn(tv, k) PROVE AssuredIn(sv, k)
  <2>1. tv[k].since < StickyTTL /\ sv[k].since = tv[k].since
    BY <1>8, <1>1 DEF AssuredIn
  <2>2. AsRecent(sv, k) \in SUBSET AsRecent(tv, k)
    BY <1>1, <2>1 DEF AsRecent
  <2>3. HistoryOK(tv)
    BY <1>2, <1>3 DEF HistoryOK
  <2> HIDE DEF tv
  <2>4. IsFiniteSet(AsRecent(tv, k)) /\ Cardinality(AsRecent(tv, k)) \in Nat
        /\ Cardinality(AsRecent(sv, k)) \in Nat
    BY <2>1, <2>3, AsRecentFinite DEF Follows
  <2>5. Cardinality(AsRecent(sv, k)) <= Cardinality(AsRecent(tv, k))
    BY <2>2, <2>4, FS_Subset
  <2>6. QED BY <2>1, <2>4, <2>5, <1>8, StickyBounds DEF AssuredIn
<1>9. Remembers(n, tv)
  BY <1>8, <1>4 DEF Remembers, Follows
<1>10. QED BY <1>2, <1>3, <1>6, <1>7, <1>9 DEF Follows, HistoryOK

(* Who is evicted leaves StickyMax others that were seen as recently. *)
LEMMA EvictedFollows ==
    ASSUME NEW m, NEW sv, Follows(m, sv), NEW e \in Evictions(m.entries)
    PROVE  Follows([entries |-> e, sweepIn |-> m.sweepIn], sv)
<1>1. CASE Cardinality(DOMAIN m.entries) <= StickyMax
  <2>1. e = m.entries
    BY <1>1 DEF Evictions
  <2>2. QED BY <2>1 DEF Follows, MapOK
<1>2. CASE ~(Cardinality(DOMAIN m.entries) <= StickyMax)
  <2>1. PICK K \in SUBSET DOMAIN m.entries :
           /\ Cardinality(K) = StickyMax
           /\ \A k \in K, out \in DOMAIN m.entries \ K : m.entries[k].age <= m.entries[out].age
           /\ e = [k \in K |-> m.entries[k]]
    BY <1>2 DEF Evictions, Keep
  <2> DEFINE n == [entries |-> e, sweepIn |-> m.sweepIn]
  <2>2. IsFiniteSet(K) /\ DOMAIN e = K
    BY <2>1, FS_Subset DEF Follows, MapOK
  <2>3. MapOK(n)
    BY <2>1, <2>2 DEF Follows, MapOK
  <2>4. AgesMatch(n, sv)
    BY <2>1, <2>2 DEF Follows, AgesMatch
  <2>5. ASSUME NEW k \in Keys, AssuredIn(sv, k) PROVE k \in K
    <3>1. SUFFICES ASSUME k \notin K PROVE FALSE
      OBVIOUS
    <3>2. k \in DOMAIN m.entries
      BY <2>5 DEF Follows, Remembers
    <3>3. K \in SUBSET AsRecent(sv, k)
      <4>1. ASSUME NEW j \in K PROVE j \in AsRecent(sv, k)
        <5>1. j \in Keys /\ j # k /\ m.entries[j].age <= m.entries[k].age
          BY <2>1, <3>1, <3>2 DEF Follows, MapOK
        <5>2. m.entries[j].age = sv[j].since /\ m.entries[k].age = sv[k].since
          BY <3>2, <2>1 DEF Follows, AgesMatch
        <5>3. QED BY <5>1, <5>2 DEF AsRecent
      <4>2. QED BY <4>1
    <3>4. IsFiniteSet(AsRecent(sv, k)) /\ Cardinality(AsRecent(sv, k)) \in Nat
      BY <2>5, AsRecentFinite DEF Follows, AssuredIn
    <3>5. StickyMax <= Cardinality(AsRecent(sv, k))
      BY <3>3, <3>4, <2>1, FS_Subset
    <3>6. QED BY <3>4, <3>5, <2>5, StickyBounds DEF AssuredIn
  <2>6. Remembers(n, sv)
    BY <2>5, <2>2 DEF Remembers
  <2>7. QED BY <2>3, <2>4, <2>6 DEF Follows
<1>3. QED BY <1>1, <1>2

LEMMA PinnedFollows ==
    ASSUME NEW m, NEW sv, Follows(m, sv), NEW key \in Keys, NEW v \in Pins,
           NEW n \in Pinned(m, key, v)
    PROVE  Follows(n, Answered(sv, key, v))
<1> DEFINE swept == Swept(m)
           set == [entries |-> With(swept.entries, key, v), sweepIn |-> swept.sweepIn]
<1>1. Follows(swept, sv)
  BY SweptFollows
<1>2. swept = [entries |-> swept.entries, sweepIn |-> swept.sweepIn]
  BY <1>1 DEF Follows, MapOK
<1>3. PICK e \in Evictions(With(swept.entries, key, v)) : n = [swept EXCEPT !.entries = e]
  BY DEF Pinned, With
<1> HIDE DEF swept
<1>4. n = [entries |-> e, sweepIn |-> swept.sweepIn]
  BY <1>2, <1>3
<1>5. Follows(set, Answered(sv, key, v))
  BY <1>1, SetFollows
<1>6. set.entries = With(swept.entries, key, v) /\ set.sweepIn = swept.sweepIn
  OBVIOUS
<1> HIDE DEF set
<1>7. e \in Evictions(set.entries)
  BY <1>3, <1>6
<1>8. Follows([entries |-> e, sweepIn |-> set.sweepIn], Answered(sv, key, v))
  BY <1>5, <1>7, EvictedFollows
<1>9. QED BY <1>4, <1>6, <1>8

-----------------------------------------------------------------------------
(* The order *)

(* A strict total order of a set, as the pairs in order. *)
OrderOf(S, L) ==
    /\ \A x \in S : <<x, x>> \notin L
    /\ \A x, y, z \in S : <<x, y>> \in L /\ <<y, z>> \in L => <<x, z>> \in L
    /\ \A x, y \in S : x = y \/ <<x, y>> \in L \/ <<y, x>> \in L

LEMMA GreatestExists ==
    ASSUME NEW S, IsFiniteSet(S), NEW L, OrderOf(S, L), NEW R \in SUBSET S, R # {}
    PROVE  \E g \in R : \A x \in R \ {g} : <<x, g>> \in L
<1> DEFINE B == {T \in SUBSET S : T # {} /\ ~ \E g \in T : \A x \in T \ {g} : <<x, g>> \in L}
<1> SUFFICES ASSUME B # {} PROVE FALSE
  OBVIOUS
<1>1. PICK T \in B : \A U \in B : U \subseteq T => U = T
  <2>1. B \subseteq SUBSET S
    OBVIOUS
  <2> HIDE DEF B
  <2>2. QED BY <2>1, MinimalSubset
<1>2. PICK t \in T : TRUE
  BY <1>1
<1>3. CASE T = {t}
  BY <1>1, <1>3
<1>4. CASE T # {t}
  <2>1. T \ {t} \in SUBSET S /\ T \ {t} # {} /\ T \ {t} # T
    BY <1>1, <1>2, <1>4
  <2>2. PICK g \in T \ {t} : \A x \in (T \ {t}) \ {g} : <<x, g>> \in L
    BY <2>1, <1>1
  <2>3. t \in S /\ g \in S /\ t # g /\ T \subseteq S
    BY <1>1, <2>2
  <2>4. CASE <<t, g>> \in L
    <3>1. \A x \in T \ {g} : <<x, g>> \in L
      BY <2>2, <2>4
    <3>2. QED BY <3>1, <2>2, <1>1
  <2>5. CASE <<g, t>> \in L
    <3>1. ASSUME NEW x \in T \ {t} PROVE <<x, t>> \in L
      <4>1. CASE x = g
        BY <4>1, <2>5
      <4>2. CASE x # g
        <5>1. <<x, g>> \in L /\ x \in S
          BY <4>2, <2>2, <2>3
        <5>2. QED BY <5>1, <2>5, <2>3 DEF OrderOf
      <4>3. QED BY <4>1, <4>2
    <3>2. QED BY <3>1, <1>1, <1>2
  <2>6. QED BY <2>3, <2>4, <2>5 DEF OrderOf
<1>5. QED BY <1>3, <1>4

InLine(S, L, o) ==
    /\ o \in SetToSeqs(S)
    /\ \A j \in DOMAIN o : \A i \in 1..(j - 1) : <<o[i], o[j]>> \in L

(* Every finite set can be put in its order: the greatest goes last. *)
LEMMA LineExists ==
    ASSUME NEW S, IsFiniteSet(S), NEW L, OrderOf(S, L)
    PROVE  \E o : InLine(S, L, o)
<1> DEFINE B == {T \in SUBSET S : ~ \E o : InLine(T, L, o)}
<1> SUFFICES ASSUME B # {} PROVE FALSE
  <2>1. S \in SUBSET S
    OBVIOUS
  <2>2. QED BY <2>1
<1>1. PICK T \in B : \A U \in B : U \subseteq T => U = T
  <2>1. B \subseteq SUBSET S
    OBVIOUS
  <2> HIDE DEF B
  <2>2. QED BY <2>1, MinimalSubset
<1>2. T \in SUBSET S /\ IsFiniteSet(T)
  BY <1>1, FS_Subset
<1>3. CASE T = {}
  <2>1. Cardinality(T) = 0
    BY <1>3, FS_EmptySet
  <2> DEFINE o == [i \in 1..0 |-> i]
  <2>2. o \in [1..0 -> T]
    OBVIOUS
  <2>3. InLine(T, L, o)
    BY <2>1, <2>2 DEF InLine, SetToSeqs
  <2>4. QED BY <2>3, <1>1
<1>4. CASE T # {}
  <2>1. PICK g \in T : \A x \in T \ {g} : <<x, g>> \in L
    BY <1>2, <1>4, GreatestExists
  <2>2. T \ {g} \in SUBSET S /\ T \ {g} # T
    BY <1>2
  <2>3. PICK o : InLine(T \ {g}, L, o)
    BY <2>2, <1>1
  <2>4. PICK n \in Nat : Cardinality(T) = n + 1 /\ Cardinality(T \ {g}) = n
    <3>1. IsFiniteSet(T \ {g}) /\ Cardinality(T \ {g}) = Cardinality(T) - 1
      BY <1>2, FS_RemoveElement
    <3>2. Cardinality(T) \in Nat /\ Cardinality(T \ {g}) \in Nat
      BY <3>1, <1>2, FS_CardinalityType
    <3>3. QED BY <3>1, <3>2
  <2>5. /\ o \in [1..n -> T \ {g}]
        /\ \A i, j \in 1..n : i # j => o[i] # o[j]
        /\ \A j \in 1..n : \A i \in 1..(j - 1) : <<o[i], o[j]>> \in L
    BY <2>3, <2>4 DEF InLine, SetToSeqs
  <2> DEFINE l == [i \in 1..(n + 1) |-> IF i = n + 1 THEN g ELSE o[i]]
  <2>6. ASSUME NEW i \in 1..(n + 1)
        PROVE  i = n + 1 \/ (i \in 1..n /\ l[i] = o[i] /\ o[i] \in T \ {g})
    BY <2>5
  <2>7. l[n + 1] = g /\ DOMAIN l = 1..(n + 1)
    OBVIOUS
  <2>8. l \in [1..(n + 1) -> T]
    BY <2>6
  <2> HIDE DEF l
  <2>9. \A i, j \in 1..(n + 1) : i # j => l[i] # l[j]
    BY <2>5, <2>6, <2>7
  <2>10. \A j \in 1..(n + 1) : \A i \in 1..(j - 1) : <<l[i], l[j]>> \in L
    <3>1. ASSUME NEW j \in 1..(n + 1), NEW i \in 1..(j - 1) PROVE <<l[i], l[j]>> \in L
      <4>1. i \in 1..n /\ i \in 1..(n + 1) /\ i # n + 1
        OBVIOUS
      <4>2. l[i] = o[i] /\ o[i] \in T \ {g}
        BY <4>1, <2>6
      <4>3. CASE j = n + 1
        BY <4>2, <4>3, <2>1, <2>7
      <4>4. CASE j # n + 1
        <5>1. j \in 1..n /\ l[j] = o[j]
          BY <4>4, <2>6
        <5>2. QED BY <5>1, <4>2, <2>5
      <4>5. QED BY <4>3, <4>4
    <3>2. QED BY <3>1
  <2>11. InLine(T, L, l)
    BY <2>4, <2>7, <2>8, <2>9, <2>10 DEF InLine, SetToSeqs
  <2>12. QED BY <2>11, <1>1
<1>5. QED BY <1>3, <1>4

(* An ordering of a set has every member of it, and what comes at a lower  *)
(* place comes first.                                                      *)
LEMMA LineIsComplete ==
    ASSUME NEW S, IsFiniteSet(S), NEW L, NEW o, InLine(S, L, o)
    PROVE  /\ DOMAIN o \in SUBSET Nat
           /\ \A i \in DOMAIN o : o[i] \in S
           /\ \A x \in S : \E i \in DOMAIN o : o[i] = x
           /\ \A i, j \in DOMAIN o : i < j => <<o[i], o[j]>> \in L
<1>1. PICK n \in Nat : Cardinality(S) = n
  BY FS_CardinalityType
<1>2. /\ o \in [1..n -> S]
      /\ \A i, j \in 1..n : i # j => o[i] # o[j]
      /\ \A j \in DOMAIN o : \A i \in 1..(j - 1) : <<o[i], o[j]>> \in L
  BY <1>1 DEF InLine, SetToSeqs
<1>3. o \in Injection(1..n, S)
  BY <1>2 DEF Injection, IsInjective
<1>4. Cardinality(1..n) = n
  BY FS_Interval
<1>5. o \in Surjection(1..n, S)
  BY <1>1, <1>3, <1>4, FS_Injection
<1>6. QED BY <1>2, <1>5 DEF Surjection

-----------------------------------------------------------------------------
(* Select *)

LEMMA FleetIsFinite == IsFiniteSet(Vendors) /\ IsFiniteSet(Creds)
<1>1. PICK n \in Nat : Declared \in [1..n -> Vendors]
  BY FleetDeclared
<1>2. IsFiniteSet(1..n)
  BY FS_Interval
<1>3. Declared \in Surjection(1..n, Vendors)
  BY <1>1 DEF Vendors, Range, Surjection
<1>4. IsFiniteSet(Vendors)
  BY <1>2, <1>3, FS_Surjection
<1> DEFINE f == [v \in Vendors |-> CredOf[v]]
<1>5. f \in Surjection(Vendors, Creds)
  BY DEF Surjection, Creds
<1>6. QED BY <1>4, <1>5, FS_Surjection

LEMMA DrawsBelowParked ==
    ASSUME NEW draw \in Draws, NEW v \in Vendors
    PROVE  draw[CredOf[v]] \in Int /\ draw[CredOf[v]] < Parked /\ Parked \in Int
<1>1. PICK n \in Nat : Cardinality(Creds) = n
  BY FleetIsFinite, FS_CardinalityType
<1>2. CredOf[v] \in Creds
  BY DEF Creds
<1>3. draw \in [Creds -> 1..n]
  BY <1>1 DEF Draws, Bijection, Injection
<1>4. draw[CredOf[v]] \in 1..n
  BY <1>2, <1>3
<1>5. QED BY <1>1, <1>4 DEF Parked

LEMMA TierTyped ==
    ASSUME NEW q, NEW v \in Vendors
    PROVE  Tier(v, q).priority \in Int /\ Tier(v, q).weight \in Nat
<1>1. CASE q.scope # "all" /\ Configured(v, q)
  BY <1>1, WeightsNotNegative DEF Tier, Configured
<1>2. CASE ~(q.scope # "all" /\ Configured(v, q))
  BY <1>2, WeightsNotNegative DEF Tier
<1>3. QED BY <1>1, <1>2

LEMMA DeclaredOnce ==
    ASSUME NEW v \in Vendors
    PROVE  Decl(v) \in Int /\ Declared[Decl(v)] = v
<1>1. \E i \in DOMAIN Declared : Declared[i] = v
  BY DEF Vendors, Range
<1>2. DOMAIN Declared \subseteq Int
  BY FleetDeclared
<1>3. QED BY <1>1, <1>2 DEF Decl

LEMMA RanksAreOrdered == \A v, q : RankFor(v, q) \in Int
BY DEF RankFor, HealthRank, Live, Cooling, Dead

StickyRank(v, pin) == IF v = pin THEN 0 ELSE 1

(* What puts v before w. *)
Precedes(v, w, q, pin, draw) ==
    \/ RankFor(v, q) < RankFor(w, q)
    \/ /\ RankFor(v, q) = RankFor(w, q)
       /\ \/ StickyRank(v, pin) < StickyRank(w, pin)
          \/ /\ StickyRank(v, pin) = StickyRank(w, pin)
             /\ \/ Tier(v, q).priority < Tier(w, q).priority
                \/ /\ Tier(v, q).priority = Tier(w, q).priority
                   /\ \/ DrawOf(v, q, draw) < DrawOf(w, q, draw)
                      \/ DrawOf(v, q, draw) = DrawOf(w, q, draw) /\ Decl(v) < Decl(w)

LEMMA DrawTyped ==
    ASSUME NEW draw \in Draws, NEW q, NEW v \in Vendors
    PROVE  DrawOf(v, q, draw) \in Int
BY DrawsBelowParked DEF DrawOf

LEMMA KeysPrecede ==
    ASSUME NEW draw \in Draws, NEW q, NEW pin, NEW v \in Vendors, NEW w \in Vendors
    PROVE  Before(SortKey(v, q, pin, draw), SortKey(w, q, pin, draw))
              <=> Precedes(v, w, q, pin, draw)
<1>1. /\ RankFor(v, q) \in Int /\ RankFor(w, q) \in Int
      /\ StickyRank(v, pin) \in Int /\ StickyRank(w, pin) \in Int
      /\ Tier(v, q).priority \in Int /\ Tier(w, q).priority \in Int
      /\ DrawOf(v, q, draw) \in Int /\ DrawOf(w, q, draw) \in Int
      /\ Decl(v) \in Int /\ Decl(w) \in Int
  BY RanksAreOrdered, TierTyped, DrawTyped, DeclaredOnce DEF StickyRank
<1>2. /\ SortKey(v, q, pin, draw) = <<RankFor(v, q), StickyRank(v, pin), Tier(v, q).priority,
                                      DrawOf(v, q, draw), Decl(v)>>
      /\ SortKey(w, q, pin, draw) = <<RankFor(w, q), StickyRank(w, pin), Tier(w, q).priority,
                                      DrawOf(w, q, draw), Decl(w)>>
  BY DEF SortKey, StickyRank
<1>3. PICK a1 \in Int : a1 = RankFor(v, q)
  BY <1>1
<1>4. PICK a2 \in Int : a2 = StickyRank(v, pin)
  BY <1>1
<1>5. PICK a3 \in Int : a3 = Tier(v, q).priority
  BY <1>1
<1>6. PICK a4 \in Int : a4 = DrawOf(v, q, draw)
  BY <1>1
<1>7. PICK a5 \in Int : a5 = Decl(v)
  BY <1>1
<1>8. PICK b1 \in Int : b1 = RankFor(w, q)
  BY <1>1
<1>9. PICK b2 \in Int : b2 = StickyRank(w, pin)
  BY <1>1
<1>10. PICK b3 \in Int : b3 = Tier(w, q).priority
  BY <1>1
<1>11. PICK b4 \in Int : b4 = DrawOf(w, q, draw)
  BY <1>1
<1>12. PICK b5 \in Int : b5 = Decl(w)
  BY <1>1
<1>13. Before(<<a1, a2, a3, a4, a5>>, <<b1, b2, b3, b4, b5>>) <=>
              \/ a1 < b1
              \/ a1 = b1 /\ a2 < b2
              \/ a1 = b1 /\ a2 = b2 /\ a3 < b3
              \/ a1 = b1 /\ a2 = b2 /\ a3 = b3 /\ a4 < b4
              \/ a1 = b1 /\ a2 = b2 /\ a3 = b3 /\ a4 = b4 /\ a5 < b5
  <2> DEFINE x == <<a1, a2, a3, a4, a5>>
             y == <<b1, b2, b3, b4, b5>>
             At(i) == x[i] < y[i] /\ \A j \in 1..(i - 1) : x[j] = y[j]
  <2>1. Before(x, y) <=> \E i \in 1..5 : At(i)
    BY DEF Before
  <2>2. At(1) <=> a1 < b1
    OBVIOUS
  <2>3. At(2) <=> a1 = b1 /\ a2 < b2
    <3>1. 1..(2 - 1) = {1}
      OBVIOUS
    <3>2. QED BY <3>1
  <2>4. At(3) <=> a1 = b1 /\ a2 = b2 /\ a3 < b3
    <3>1. 1..(3 - 1) = {1, 2}
      OBVIOUS
    <3>2. QED BY <3>1
  <2>5. At(4) <=> a1 = b1 /\ a2 = b2 /\ a3 = b3 /\ a4 < b4
    <3>1. 1..(4 - 1) = {1, 2, 3}
      OBVIOUS
    <3>2. QED BY <3>1
  <2>6. At(5) <=> a1 = b1 /\ a2 = b2 /\ a3 = b3 /\ a4 = b4 /\ a5 < b5
    <3>1. 1..(5 - 1) = {1, 2, 3, 4}
      OBVIOUS
    <3>2. QED BY <3>1
  <2> HIDE DEF At
  <2>7. (\E i \in 1..5 : At(i)) <=> (At(1) \/ At(2) \/ At(3) \/ At(4) \/ At(5))
    <3>1. \A i \in 1..5 : i = 1 \/ i = 2 \/ i = 3 \/ i = 4 \/ i = 5
      OBVIOUS
    <3>2. QED BY <3>1
  <2>8. QED BY <2>1, <2>2, <2>3, <2>4, <2>5, <2>6, <2>7
<1>14. /\ SortKey(v, q, pin, draw) = <<a1, a2, a3, a4, a5>>
       /\ SortKey(w, q, pin, draw) = <<b1, b2, b3, b4, b5>>
  BY <1>2, <1>3, <1>4, <1>5, <1>6, <1>7, <1>8, <1>9, <1>10, <1>11, <1>12
<1>15. Precedes(v, w, q, pin, draw) <=>
              \/ a1 < b1
              \/ a1 = b1 /\ a2 < b2
              \/ a1 = b1 /\ a2 = b2 /\ a3 < b3
              \/ a1 = b1 /\ a2 = b2 /\ a3 = b3 /\ a4 < b4
              \/ a1 = b1 /\ a2 = b2 /\ a3 = b3 /\ a4 = b4 /\ a5 < b5
  BY <1>3, <1>4, <1>5, <1>6, <1>7, <1>8, <1>9, <1>10, <1>11, <1>12 DEF Precedes
<1>16. QED BY <1>13, <1>14, <1>15

InOrder(S, key) == {p \in S \X S : Before(key[p[1]], key[p[2]])}

LEMMA KeysAreAnOrder ==
    ASSUME NEW draw \in Draws, NEW q, NEW pin, NEW S \in SUBSET Vendors, NEW key,
           key = [v \in S |-> SortKey(v, q, pin, draw)]
    PROVE  /\ \A v, w \in S : <<v, w>> \in InOrder(S, key) <=> Precedes(v, w, q, pin, draw)
           /\ OrderOf(S, InOrder(S, key))
<1>1. \A v, w \in S : <<v, w>> \in InOrder(S, key) <=> Precedes(v, w, q, pin, draw)
  <2>1. ASSUME NEW v \in S, NEW w \in S
        PROVE  <<v, w>> \in InOrder(S, key) <=> Precedes(v, w, q, pin, draw)
    <3>1. <<v, w>> \in InOrder(S, key) <=> Before(key[v], key[w])
      BY DEF InOrder
    <3>2. key[v] = SortKey(v, q, pin, draw) /\ key[w] = SortKey(w, q, pin, draw)
      OBVIOUS
    <3>3. QED BY <3>1, <3>2, KeysPrecede
  <2>2. QED BY <2>1
<1>2. \A v \in S : /\ RankFor(v, q) \in Int /\ StickyRank(v, pin) \in Int
                   /\ Tier(v, q).priority \in Int /\ DrawOf(v, q, draw) \in Int
                   /\ Decl(v) \in Int /\ Declared[Decl(v)] = v
  BY RanksAreOrdered, TierTyped, DrawTyped, DeclaredOnce DEF StickyRank
<1>3. \A v \in S : ~Precedes(v, v, q, pin, draw)
  BY <1>2 DEF Precedes
<1>4. ASSUME NEW x \in S, NEW y \in S, NEW z \in S,
             Precedes(x, y, q, pin, draw), Precedes(y, z, q, pin, draw)
      PROVE  Precedes(x, z, q, pin, draw)
  BY <1>2, <1>4 DEF Precedes
<1>5. ASSUME NEW x \in S, NEW y \in S
      PROVE  x = y \/ Precedes(x, y, q, pin, draw) \/ Precedes(y, x, q, pin, draw)
  BY <1>2 DEF Precedes
<1>6. QED BY <1>1, <1>3, <1>4, <1>5 DEF OrderOf

(* Select is the candidates in their order, none dropped. *)
LEMMA SelectIsInLine ==
    ASSUME NEW draw \in Draws, NEW q, NEW pin
    PROVE  /\ DOMAIN Select(q, pin, draw) \in SUBSET Nat
           /\ \A i \in DOMAIN Select(q, pin, draw) : Select(q, pin, draw)[i] \in Candidates(q)
           /\ \A x \in Candidates(q) :
                 \E i \in DOMAIN Select(q, pin, draw) : Select(q, pin, draw)[i] = x
           /\ \A i, j \in DOMAIN Select(q, pin, draw) : i < j =>
                 Precedes(Select(q, pin, draw)[i], Select(q, pin, draw)[j], q, pin, draw)
<1> DEFINE S == Candidates(q)
           key == [v \in S |-> SortKey(v, q, pin, draw)]
           L == InOrder(S, key)
<1>1. S \in SUBSET Vendors
  BY DEF Candidates
<1>2. IsFiniteSet(S)
  BY <1>1, FleetIsFinite, FS_Subset
<1>3. /\ \A v, w \in S : <<v, w>> \in L <=> Precedes(v, w, q, pin, draw)
      /\ OrderOf(S, L)
  BY <1>1, KeysAreAnOrder
<1>4. \A o \in SetToSeqs(S) : InLine(S, L, o) <=>
        \A j \in DOMAIN o : \A i \in 1..(j - 1) : Before(key[o[i]], key[o[j]])
  <2>1. ASSUME NEW o \in SetToSeqs(S), NEW j \in DOMAIN o, NEW i \in 1..(j - 1)
        PROVE  <<o[i], o[j]>> \in L <=> Before(key[o[i]], key[o[j]])
    <3>1. DOMAIN o = 1..Cardinality(S) /\ o \in [1..Cardinality(S) -> S] /\ Cardinality(S) \in Nat
      BY <1>2, FS_CardinalityType DEF SetToSeqs
    <3>2. o[i] \in S /\ o[j] \in S
      BY <3>1
    <3> HIDE DEF S, key
    <3>3. QED BY <3>2 DEF InOrder
  <2> HIDE DEF L, key, S
  <2>2. QED BY <2>1 DEF InLine
<1>5. PICK o : InLine(S, L, o)
  <2> HIDE DEF S, L
  <2>1. QED BY <1>2, <1>3, LineExists
<1>6. Select(q, pin, draw) = CHOOSE l \in SetToSeqs(S) :
        \A j \in DOMAIN l : \A i \in 1..(j - 1) : Before(key[l[i]], key[l[j]])
  BY DEF Select, Sorted
<1>7. InLine(S, L, Select(q, pin, draw))
  <2> HIDE DEF S, key, L
  <2>1. o \in SetToSeqs(S)
    BY <1>5 DEF InLine
  <2>2. /\ Select(q, pin, draw) \in SetToSeqs(S)
        /\ \A j \in DOMAIN Select(q, pin, draw) : \A i \in 1..(j - 1) :
              Before(key[Select(q, pin, draw)[i]], key[Select(q, pin, draw)[j]])
    BY <2>1, <1>4, <1>5, <1>6
  <2>3. QED BY <2>2, <1>4
<1>8. QED
  <2> DEFINE l == Select(q, pin, draw)
  <2> HIDE DEF S, L, l
  <2>1. /\ DOMAIN l \in SUBSET Nat
        /\ \A i \in DOMAIN l : l[i] \in S
        /\ \A x \in S : \E i \in DOMAIN l : l[i] = x
        /\ \A i, j \in DOMAIN l : i < j => <<l[i], l[j]>> \in L
    BY <1>2, <1>7, LineIsComplete DEF l
  <2>2. \A i, j \in DOMAIN l : i < j => Precedes(l[i], l[j], q, pin, draw)
    BY <2>1, <1>3
  <2>3. QED BY <2>1, <2>2 DEF l, S

(* The target the proxy dispatches to is the least of those it can use. *)
LEMMA FirstKeptIsBest ==
    ASSUME NEW draw \in Draws, NEW q, NEW pin, NEW order, order = Select(q, pin, draw),
           Kept(order, q) # {}
    PROVE  /\ order[Min(Kept(order, q))] \in Usable(q)
           /\ \A w \in Usable(q) : \/ w = order[Min(Kept(order, q))]
                                  \/ Precedes(order[Min(Kept(order, q))], w, q, pin, draw)
<1>1. /\ DOMAIN order \in SUBSET Nat
      /\ \A i \in DOMAIN order : order[i] \in Candidates(q)
      /\ \A x \in Candidates(q) : \E i \in DOMAIN order : order[i] = x
      /\ \A i, j \in DOMAIN order : i < j => Precedes(order[i], order[j], q, pin, draw)
  BY SelectIsInLine
<1>2. PICK n \in Kept(order, q) : n = Min(Kept(order, q)) /\ \A j \in Kept(order, q) : n <= j
  <2>1. Kept(order, q) \in SUBSET Nat
    BY <1>1 DEF Kept
  <2>2. \E n \in Kept(order, q) : \A j \in Kept(order, q) : n <= j
    BY <2>1, LeastNatural
  <2>3. QED BY <2>2 DEF Min
<1>3. n \in DOMAIN order /\ order[n] \in Usable(q)
  BY <1>1, <1>2 DEF Kept, Usable
<1>4. ASSUME NEW w \in Usable(q) PROVE w = order[n] \/ Precedes(order[n], w, q, pin, draw)
  <2>1. PICK j \in DOMAIN order : order[j] = w
    BY <1>1 DEF Usable
  <2>2. j \in Kept(order, q)
    BY <2>1 DEF Kept, Usable
  <2>3. n <= j /\ n \in Nat /\ j \in Nat
    BY <2>1, <2>2, <1>1, <1>2, <1>3
  <2>4. QED BY <2>1, <2>3, <1>1, <1>3
<1>5. QED BY <1>2, <1>3, <1>4

(* So it is as healthy as any, and the pin when the pin is. *)
LEMMA DispatchIsBest ==
    ASSUME NEW draw \in Draws, NEW q, NEW pin, NEW v \in Usable(q),
           \A w \in Usable(q) : w = v \/ Precedes(v, w, q, pin, draw)
    PROVE  /\ v \in Best(q)
           /\ pin \in Best(q) => v = pin
<1>1. ASSUME NEW w \in Usable(q) PROVE RankFor(v, q) <= RankFor(w, q)
  BY RanksAreOrdered DEF Precedes
<1>2. v \in Best(q)
  BY <1>1 DEF Best
<1>3. ASSUME pin \in Best(q), v # pin PROVE FALSE
  <2>1. pin \in Usable(q) /\ RankFor(pin, q) <= RankFor(v, q)
    BY <1>3 DEF Best
  <2>2. Precedes(v, pin, q, pin, draw)
    BY <2>1, <1>3
  <2>3. StickyRank(v, pin) = 1 /\ StickyRank(pin, pin) = 0
    BY <1>3 DEF StickyRank
  <2>4. QED BY <2>1, <2>2, <2>3, RanksAreOrdered DEF Precedes
<1>4. QED BY <1>2, <1>3

(* And a parked one only with the pin or with nobody else in its tier. *)
LEMMA DispatchRespectsParking ==
    ASSUME NEW draw \in Draws, NEW q, NEW pin, NEW v \in Usable(q),
           \A w \in Usable(q) : w = v \/ Precedes(v, w, q, pin, draw),
           Tier(v, q).weight = 0, v # pin,
           NEW w \in Best(q), Tier(w, q).priority = Tier(v, q).priority
    PROVE  Tier(w, q).weight = 0
<1>1. SUFFICES ASSUME Tier(w, q).weight # 0 PROVE FALSE
  OBVIOUS
<1>2. w \in Usable(q) /\ v \in Vendors /\ w \in Vendors
  BY DEF Best, Usable, Candidates
<1>3. v \in Best(q) /\ RankFor(v, q) = RankFor(w, q) /\ w # v
  <2>1. v \in Best(q)
    BY DispatchIsBest
  <2>2. RankFor(v, q) <= RankFor(w, q) /\ RankFor(w, q) <= RankFor(v, q)
    BY <2>1, <1>2 DEF Best
  <2>3. QED BY <2>1, <2>2, <1>1, RanksAreOrdered
<1>4. Precedes(v, w, q, pin, draw)
  BY <1>2, <1>3
<1>5. StickyRank(v, pin) = 1
  BY DEF StickyRank
<1>6. DrawOf(v, q, draw) = Parked /\ DrawOf(w, q, draw) = draw[CredOf[w]]
  <2>1. Tier(w, q).weight \in Nat
    BY <1>2, TierTyped
  <2>2. QED BY <2>1, <1>1 DEF DrawOf
<1>7. draw[CredOf[w]] \in Int /\ draw[CredOf[w]] < Parked /\ Parked \in Int
  BY <1>2, DrawsBelowParked
<1>8. Tier(v, q).priority \in Int /\ RankFor(v, q) \in Int /\ StickyRank(w, pin) \in {0, 1}
  BY <1>2, TierTyped, RanksAreOrdered DEF StickyRank
<1>9. QED BY <1>3, <1>4, <1>5, <1>6, <1>7, <1>8 DEF Precedes

-----------------------------------------------------------------------------
(* The invariant *)

LEMMA ReadPinKeeps ==
    ASSUME RouterInv, NEW a \in Slots, NEW q \in Requests, ReadPin(a, q)
    PROVE  RouterInv'
<1> DEFINE r == [phase |-> "ranking", request |-> q, pin |-> PinOf(q), last |-> LastServed(q),
                 assured |-> q.session # NoSession /\ Assured(AffinityKey(q))]
<1>1. slots' = [slots EXCEPT ![a] = r]
  BY DEF ReadPin
<1>2. /\ r \in Ranking
      /\ r.pin \in {r.last, NoVendor}
      /\ r.assured => r.pin = r.last
  <2>1. CASE q.session = NoSession
    BY <2>1 DEF PinOf, LastServed, Ranking, Pins
  <2>2. CASE q.session # NoSession
    <3> DEFINE k == AffinityKey(q)
    <3>1. k \in Keys
      BY <2>2, KeyOfRequest
    <3>2. /\ Lookup(affinity, k) \in
                {served[k].vendor} \cup (IF Assured(k) THEN {} ELSE {NoVendor})
          /\ Lookup(affinity, k) \in Pins /\ served[k].vendor \in Pins
      BY <3>1, PinReads DEF RouterInv, Follows, HistoryOK, Answers
    <3>3. PinOf(q) = Lookup(affinity, k) /\ LastServed(q) = served[k].vendor
      BY <2>2 DEF PinOf, LastServed
    <3>4. Assured(k) \in BOOLEAN
      BY DEF Assured
    <3>5. QED BY <2>2, <3>2, <3>3, <3>4 DEF Ranking
  <2>3. QED BY <2>1, <2>2
<1> HIDE DEF r
<1>3. SlotsOK'
  BY <1>1, <1>2 DEF RouterInv, SlotsOK
<1>4. PinsAreServed'
  <2>1. ASSUME NEW b \in Slots, slots'[b].phase = "ranking"
        PROVE  /\ slots'[b].pin \in {slots'[b].last, NoVendor}
               /\ slots'[b].assured => slots'[b].pin = slots'[b].last
    <3>1. CASE b = a
      BY <3>1, <1>1, <1>2 DEF RouterInv, SlotsOK
    <3>2. CASE b # a
      <4>1. slots'[b] = slots[b]
        BY <3>2, <1>1 DEF RouterInv, SlotsOK
      <4>2. QED BY <4>1, <2>1 DEF RouterInv, PinsAreServed
    <3>3. QED BY <3>1, <3>2
  <2>2. QED BY <2>1 DEF PinsAreServed
<1>5. Follows(affinity, served)'
  <2>1. served' = served
    BY DEF ReadPin
  <2>2. CASE q.session = NoSession
    BY <2>1, <2>2 DEF ReadPin, RouterInv
  <2>3. CASE q.session # NoSession
    <3>1. affinity' = Swept(affinity)
      BY <2>3 DEF ReadPin
    <3>2. Follows(affinity', served')
      BY <2>1, <3>1, SweptFollows DEF RouterInv
    <3>3. QED BY <3>2
  <2>4. QED BY <2>2, <2>3
<1>6. QED BY <1>3, <1>4, <1>5 DEF RouterInv

(* Every other change of a slot leaves it idle, or sent to some vendor. *)
LEMMA SlotLeft ==
    ASSUME RouterInv, NEW a \in Slots, NEW s \in {Idle} \cup Sent,
           slots' = [slots EXCEPT ![a] = s]
    PROVE  SlotsOK' /\ PinsAreServed'
<1>1. SlotsOK'
  BY DEF RouterInv, SlotsOK
<1>2. s.phase # "ranking"
  BY DEF Idle, Sent
<1>3. ASSUME NEW b \in Slots, slots'[b].phase = "ranking" PROVE slots'[b] = slots[b]
  BY <1>2, <1>3 DEF RouterInv, SlotsOK
<1>4. QED BY <1>1, <1>3 DEF PinsAreServed, RouterInv

(* What Rank dispatches to. *)
LEMMA RankDispatches ==
    ASSUME RouterInv, NEW a \in Slots, NEW draw \in Draws, Rank(a, draw)
    PROVE  LET q == slots[a].request
           IN /\ slots[a] \in Ranking
              /\ \/ slots' = [slots EXCEPT ![a] = Idle]
                 \/ \E v \in Usable(q) :
                       /\ slots' = [slots EXCEPT ![a] =
                                      [phase |-> "sent", request |-> q, vendor |-> v]]
                       /\ \A w \in Usable(q) :
                             w = v \/ Precedes(v, w, q, slots[a].pin, draw)
<1>1. slots[a] \in Ranking
  BY DEF Rank, RouterInv, SlotsOK, Idle, Sent
<1> DEFINE q == slots[a].request
           order == Select(q, slots[a].pin, draw)
<1>2. slots' = [slots EXCEPT ![a] =
                   IF Kept(order, q) = {} THEN Idle
                   ELSE [phase |-> "sent", request |-> q, vendor |-> order[Min(Kept(order, q))]]]
  BY DEF Rank
<1>3. CASE Kept(order, q) = {}
  BY <1>1, <1>2, <1>3
<1>4. CASE Kept(order, q) # {}
  <2>1. /\ order[Min(Kept(order, q))] \in Usable(q)
        /\ \A w \in Usable(q) : \/ w = order[Min(Kept(order, q))]
                               \/ Precedes(order[Min(Kept(order, q))], w, q, slots[a].pin, draw)
    BY <1>4, FirstKeptIsBest
  <2> HIDE DEF order
  <2>2. QED BY <1>1, <1>2, <1>4, <2>1
<1>5. QED BY <1>3, <1>4

(* A vendor that answered is one of the fleet's. *)
LEMMA SentSlot ==
    ASSUME RouterInv, NEW a \in Slots, slots[a].phase \in {"sent", "reported"}
    PROVE  slots[a] \in Sent
BY DEF RouterInv, SlotsOK, Ranking, Idle

LEMMA OutcomeKeeps ==
    ASSUME RouterInv, NEW a \in Slots, Outcome(a) \/ ClientGone(a)
    PROVE  RouterInv' /\ slots'[a].phase # "sent"
<1>1. PICK s \in {Idle} \cup Sent : slots' = [slots EXCEPT ![a] = s] /\ s.phase # "sent"
  <2>1. slots[a].phase = "sent"
    BY DEF Outcome, TransportError, Answer, ClientGone
  <2>2. PICK q \in Requests, v \in Vendors :
           slots[a] = [phase |-> "sent", request |-> q, vendor |-> v]
    BY <2>1, SentSlot DEF Sent
  <2> DEFINE reported == [phase |-> "reported", request |-> q, vendor |-> v]
  <2>3. [slots[a] EXCEPT !.phase = "reported"] = reported /\ reported \in Sent
    BY <2>2 DEF Sent
  <2>4. Idle.phase # "sent"
    BY DEF Idle
  <2>5. CASE \E sig \in {"fail", "failHard"} : TransportError(a, sig)
    BY <2>4, <2>5 DEF TransportError
  <2>6. CASE \E sig \in {"ok", "fail", "failModel", "failClient"} : Answer(a, sig)
    <3>1. slots' = [slots EXCEPT ![a].phase = "reported"]
      BY <2>6 DEF Answer
    <3>2. slots' = [slots EXCEPT ![a] = [slots[a] EXCEPT !.phase = "reported"]]
      BY <3>1
    <3>3. slots' = [slots EXCEPT ![a] = reported]
      BY <3>2, <2>3
    <3>4. QED BY <3>3, <2>3
  <2>7. CASE ClientGone(a)
    <3>1. PICK begun \in BOOLEAN : slots' = [slots EXCEPT ![a] =
              IF begun THEN [slots[a] EXCEPT !.phase = "reported"] ELSE Idle]
      BY <2>7 DEF ClientGone
    <3>2. CASE begun = TRUE
      <4>1. slots' = [slots EXCEPT ![a] = reported]
        BY <3>1, <3>2, <2>3
      <4>2. QED BY <4>1, <2>3
    <3>3. CASE begun = FALSE
      <4>1. slots' = [slots EXCEPT ![a] = Idle]
        BY <3>1, <3>3
      <4>2. QED BY <4>1, <2>4
    <3>4. QED BY <3>2, <3>3
  <2>8. QED BY <2>5, <2>6, <2>7 DEF Outcome
<1>2. SlotsOK' /\ PinsAreServed'
  BY <1>1, SlotLeft
<1>3. affinity' = affinity /\ served' = served
  BY DEF Outcome, TransportError, Answer, ClientGone
<1>4. Follows(affinity, served)'
  BY <1>3 DEF RouterInv
<1>5. slots'[a] = s
  BY <1>1 DEF RouterInv, SlotsOK
<1>6. QED BY <1>1, <1>2, <1>4, <1>5 DEF RouterInv

LEMMA RankKeeps ==
    ASSUME RouterInv, NEW a \in Slots, NEW draw \in Draws, Rank(a, draw)
    PROVE  RouterInv'
<1>1. PICK s \in {Idle} \cup Sent : slots' = [slots EXCEPT ![a] = s]
  <2>1. slots[a].request \in Requests
    BY RankDispatches DEF Ranking
  <2>2. CASE slots' = [slots EXCEPT ![a] = Idle]
    BY <2>2
  <2>3. ASSUME NEW v \in Usable(slots[a].request),
               slots' = [slots EXCEPT ![a] =
                            [phase |-> "sent", request |-> slots[a].request, vendor |-> v]]
        PROVE  \E s \in {Idle} \cup Sent : slots' = [slots EXCEPT ![a] = s]
    <3>1. v \in Vendors
      BY DEF Usable, Candidates
    <3>2. [phase |-> "sent", request |-> slots[a].request, vendor |-> v] \in Sent
      BY <2>1, <3>1 DEF Sent
    <3>3. QED BY <2>3, <3>2
  <2>4. QED BY <2>2, <2>3, RankDispatches
<1>2. SlotsOK' /\ PinsAreServed'
  BY <1>1, SlotLeft
<1>3. affinity' = affinity /\ served' = served
  BY DEF Rank
<1>4. QED BY <1>2, <1>3 DEF RouterInv

LEMMA PinServedKeeps ==
    ASSUME RouterInv, NEW a \in Slots, PinServed(a)
    PROVE  RouterInv' /\ slots'[a] = Idle
<1>1. slots' = [slots EXCEPT ![a] = Idle] /\ slots[a].phase = "reported"
  BY DEF PinServed
<1>2. PICK q \in Requests, v \in Vendors : q = slots[a].request /\ v = slots[a].vendor
  BY <1>1, SentSlot DEF Sent
<1>3. SlotsOK' /\ PinsAreServed'
  BY <1>1, SlotLeft
<1>4. /\ affinity' \in PinTo(q, v)
      /\ served' = [k \in Keys |-> IF k = AffinityKey(q)
                                   THEN [vendor |-> v, since |-> 0] ELSE served[k]]
  BY <1>2 DEF PinServed
<1>5. Follows(affinity', served')
  <2>1. CASE q.session = NoSession
    <3>1. affinity' = affinity /\ AffinityKey(q) \notin Keys
      BY <1>4, <2>1, KeyOfRequest DEF PinTo
    <3>2. served' = served
      <4>1. served = [k \in Keys |-> served[k]]
        BY DEF RouterInv, Follows, HistoryOK
      <4>2. \A k \in Keys : k # AffinityKey(q)
        BY <3>1
      <4>3. \A k \in Keys : served'[k] = served[k]
        BY <1>4, <4>2
      <4>4. served' = [k \in Keys |-> served'[k]]
        BY <1>4
      <4>5. QED BY <4>1, <4>3, <4>4
    <3>3. QED BY <3>1, <3>2 DEF RouterInv
  <2>2. CASE q.session # NoSession
    <3>1. AffinityKey(q) \in Keys /\ affinity' \in Pinned(affinity, AffinityKey(q), v)
      BY <1>4, <2>2, KeyOfRequest DEF PinTo
    <3>2. served' = Answered(served, AffinityKey(q), v)
      BY <1>4 DEF Answered
    <3>3. v \in Pins /\ Follows(affinity, served)
      BY DEF Pins, RouterInv
    <3>4. QED BY <3>1, <3>2, <3>3, PinnedFollows
  <2>3. QED BY <2>1, <2>2
<1>6. slots'[a] = Idle
  BY <1>1 DEF RouterInv, SlotsOK
<1>7. QED BY <1>3, <1>5, <1>6 DEF RouterInv

LEMMA TickKeeps ==
    ASSUME RouterInv, Tick
    PROVE  RouterInv'
<1>1. slots' = slots /\ affinity' = Older(affinity)
  BY DEF Tick
<1>2. served' = [k \in Keys |-> IF served[k].since + 1 < StickyTTL
                               THEN [served[k] EXCEPT !.since = @ + 1] ELSE Unserved]
  BY DEF Tick
<1>3. Aged(served, served')
  BY <1>2, TickAges DEF RouterInv, Follows, HistoryOK
<1>4. Follows(affinity', served')
  BY <1>1, <1>3, OlderFollows DEF RouterInv
<1>5. QED BY <1>1, <1>4 DEF RouterInv, SlotsOK, PinsAreServed

LEMMA InitRouterInv == Init => RouterInv
<1> SUFFICES ASSUME Init PROVE RouterInv
  OBVIOUS
<1>1. SlotsOK /\ PinsAreServed
  BY DEF Init, SlotsOK, PinsAreServed, Idle
<1>2. Follows(affinity, served)
  BY NewFollows DEF Init
<1>3. QED BY <1>1, <1>2 DEF RouterInv

LEMMA NextKeepsRouterInv == RouterInv /\ [Next]_vars => RouterInv'
<1> SUFFICES ASSUME RouterInv, [Next]_vars PROVE RouterInv'
  OBVIOUS
<1>1. ASSUME NEW a \in Slots, NEW q \in Requests, ReadPin(a, q) PROVE RouterInv'
  BY <1>1, ReadPinKeeps
<1>2. ASSUME NEW a \in Slots, NEW draw \in Draws, Rank(a, draw) PROVE RouterInv'
  BY <1>2, RankKeeps
<1>3. ASSUME NEW a \in Slots, Outcome(a) \/ ClientGone(a) PROVE RouterInv'
  BY <1>3, OutcomeKeeps
<1>4. ASSUME NEW a \in Slots, PinServed(a) PROVE RouterInv'
  BY <1>4, PinServedKeeps
<1>5. CASE Tick
  BY <1>5, TickKeeps
<1>6. CASE Outage
  BY <1>6 DEF Outage, RouterInv, SlotsOK, PinsAreServed
<1>7. CASE UNCHANGED vars
  BY <1>7 DEF vars, RouterInv, SlotsOK, PinsAreServed
<1>8. QED BY <1>1, <1>2, <1>3, <1>4, <1>5, <1>6, <1>7 DEF Next

THEOREM RouterInvariant == Spec => []RouterInv
<1>1. QED BY InitRouterInv, NextKeepsRouterInv, PTL DEF Spec

(* RecentSessionsKeepTheirPin (affinity.go:53-120): a session seen within  *)
(* the timeout, with fewer than StickyMax others seen as recently, keeps   *)
(* its pin through every sweep and eviction; and the map answers with the  *)
(* vendor that served last or with none.                                   *)
THEOREM PinsOutliveEvictions == Spec => []RecentSessionsKeepTheirPin
<1>1. RouterInv => RecentSessionsKeepTheirPin
  BY PinReads DEF RouterInv, RecentSessionsKeepTheirPin
<1>2. QED BY <1>1, RouterInvariant, PTL

(* Only Rank dispatches. *)
LEMMA DispatchIsRank ==
    ASSUME RouterInv, [Next]_vars, NEW a \in Slots, Dispatched(a)
    PROVE  \E draw \in Draws : Rank(a, draw)
<1>1. slots[a].phase = "ranking" /\ slots'[a].phase = "sent" /\ slots'[a] # slots[a]
  BY DEF Dispatched
<1>2. \A b \in Slots : \A s : slots' = [slots EXCEPT ![b] = s] => b = a
  BY <1>1 DEF RouterInv, SlotsOK
<1>3. ASSUME NEW b \in Slots, NEW q \in Requests, ReadPin(b, q) PROVE FALSE
  <2>1. b = a
    BY <1>2, <1>3 DEF ReadPin
  <2>2. slots[a].phase = "idle"
    BY <1>3, <2>1 DEF ReadPin, Idle
  <2>3. QED BY <2>2, <1>1
<1>4. ASSUME NEW b \in Slots, Outcome(b) \/ ClientGone(b) PROVE FALSE
  <2>1. b = a
    <3>1. \E s : slots' = [slots EXCEPT ![b] = s]
      BY <1>4 DEF Outcome, TransportError, Answer, ClientGone
    <3>2. QED BY <3>1, <1>2
  <2>2. QED BY <2>1, <1>1, <1>4, OutcomeKeeps
<1>5. ASSUME NEW b \in Slots, PinServed(b) PROVE FALSE
  <2>1. b = a
    BY <1>2, <1>5 DEF PinServed
  <2>2. QED BY <2>1, <1>1, <1>5 DEF PinServed
<1>6. ASSUME NEW b \in Slots, NEW draw \in Draws, Rank(b, draw) PROVE Rank(a, draw)
  <2>1. b = a
    BY <1>2, <1>6 DEF Rank
  <2>2. QED BY <2>1, <1>6
<1>7. CASE Tick \/ Outage
  BY <1>1, <1>7 DEF Tick, Outage
<1>8. CASE UNCHANGED vars
  BY <1>1, <1>8 DEF vars
<1>9. QED BY <1>3, <1>4, <1>5, <1>6, <1>7, <1>8 DEF Next

(* What is known of a dispatch. *)
LEMMA DispatchedTo ==
    ASSUME RouterInv, [Next]_vars, NEW a \in Slots, Dispatched(a)
    PROVE  \E draw \in Draws, q \in Requests, pin \in Pins : \E v \in Usable(q) :
              /\ slots'[a].request = q /\ slots'[a].vendor = v
              /\ pin = slots[a].pin
              /\ \A w \in Usable(q) : w = v \/ Precedes(v, w, q, pin, draw)
<1>1. PICK draw \in Draws : Rank(a, draw)
  BY DispatchIsRank
<1>2. slots'[a] # Idle
  BY DEF Dispatched, Idle
<1>3. slots' # [slots EXCEPT ![a] = Idle]
  BY <1>2 DEF RouterInv, SlotsOK
<1>4. PICK q \in Requests, pin \in Pins : q = slots[a].request /\ pin = slots[a].pin
  BY <1>1, RankDispatches DEF Ranking
<1>5. PICK v \in Usable(q) :
         /\ slots' = [slots EXCEPT ![a] = [phase |-> "sent", request |-> q, vendor |-> v]]
         /\ \A w \in Usable(q) : w = v \/ Precedes(v, w, q, pin, draw)
  BY <1>1, <1>3, <1>4, RankDispatches
<1>6. slots'[a] = [phase |-> "sent", request |-> q, vendor |-> v]
  BY <1>5 DEF RouterInv, SlotsOK
<1>7. slots'[a].request = q /\ slots'[a].vendor = v
  BY <1>6
<1>8. QED BY <1>4, <1>5, <1>7

(* SessionsStayAndEscape (router.go:30-35): a session goes back to the     *)
(* vendor that answered it last while its pin is assured and no usable     *)
(* vendor is healthier, and is never held on a less healthy one.           *)
THEOREM StickinessIsKept == Spec => SessionsStayAndEscape
<1>1. ASSUME RouterInv, [Next]_vars, NEW a \in Slots, Dispatched(a)
      PROVE  LET q == slots'[a].request
                 last == slots[a].last
             IN /\ slots'[a].vendor \in Best(q)
                /\ (slots[a].assured /\ last \in Best(q)) => slots'[a].vendor = last
  <2>1. PICK draw \in Draws, q \in Requests, pin \in Pins : \E v \in Usable(q) :
              /\ slots'[a].request = q /\ slots'[a].vendor = v
              /\ pin = slots[a].pin
              /\ \A w \in Usable(q) : w = v \/ Precedes(v, w, q, pin, draw)
    BY <1>1, DispatchedTo
  <2>2. PICK v \in Usable(q) :
              /\ slots'[a].request = q /\ slots'[a].vendor = v
              /\ pin = slots[a].pin
              /\ \A w \in Usable(q) : w = v \/ Precedes(v, w, q, pin, draw)
    BY <2>1
  <2>3. v \in Best(q) /\ (pin \in Best(q) => v = pin)
    BY <2>2, DispatchIsBest
  <2>4. slots[a].assured => pin = slots[a].last
    BY <1>1, <2>2 DEF RouterInv, PinsAreServed, Dispatched
  <2>5. QED BY <2>2, <2>3, <2>4
<1>2. RouterInv /\ [Next]_vars =>
        [\A a \in Slots : Dispatched(a) =>
            LET q == slots'[a].request
                last == slots[a].last
            IN /\ slots'[a].vendor \in Best(q)
               /\ (slots[a].assured /\ last \in Best(q)) => slots'[a].vendor = last]_vars
  BY <1>1
<1>3. QED BY <1>2, RouterInvariant, PTL DEF Spec, SessionsStayAndEscape

(* ParkedTakesNoNewSession (router.go:44-50): a vendor of weight 0 is      *)
(* chosen only by the session it served last, or when every equally        *)
(* healthy vendor of its tier is parked.                                   *)
THEOREM ParkingStopsNewSessions == Spec => ParkedTakesNoNewSession
<1>1. ASSUME RouterInv, [Next]_vars, NEW a \in Slots, Dispatched(a)
      PROVE  LET q == slots'[a].request
                 v == slots'[a].vendor
                 tier == {w \in Best(q) : Tier(w, q).priority = Tier(v, q).priority}
             IN Tier(v, q).weight = 0 =>
                   \/ slots[a].last = v
                   \/ \A w \in tier : Tier(w, q).weight = 0
  <2>1. PICK draw \in Draws, q \in Requests, pin \in Pins : \E v \in Usable(q) :
              /\ slots'[a].request = q /\ slots'[a].vendor = v
              /\ pin = slots[a].pin
              /\ \A w \in Usable(q) : w = v \/ Precedes(v, w, q, pin, draw)
    BY <1>1, DispatchedTo
  <2>2. PICK v \in Usable(q) :
              /\ slots'[a].request = q /\ slots'[a].vendor = v
              /\ pin = slots[a].pin
              /\ \A w \in Usable(q) : w = v \/ Precedes(v, w, q, pin, draw)
    BY <2>1
  <2>3. CASE v = pin
    <3>1. pin # NoVendor
      BY <2>3, FleetDeclared DEF Usable, Candidates
    <3>2. pin = slots[a].last
      BY <1>1, <2>2, <3>1 DEF RouterInv, PinsAreServed, Dispatched
    <3>3. QED BY <2>2, <2>3, <3>2
  <2>4. CASE v # pin
    <3>1. ASSUME Tier(v, q).weight = 0, NEW w \in Best(q),
                 Tier(w, q).priority = Tier(v, q).priority
          PROVE  Tier(w, q).weight = 0
      BY <2>2, <2>4, <3>1, DispatchRespectsParking
    <3>2. QED BY <2>2, <3>1
  <2>5. QED BY <2>3, <2>4
<1>2. RouterInv /\ [Next]_vars =>
        [\A a \in Slots : Dispatched(a) =>
            LET q == slots'[a].request
                v == slots'[a].vendor
                tier == {w \in Best(q) : Tier(w, q).priority = Tier(v, q).priority}
            IN Tier(v, q).weight = 0 =>
                  \/ slots[a].last = v
                  \/ \A w \in tier : Tier(w, q).weight = 0]_vars
  BY <1>1
<1>3. QED BY <1>2, RouterInvariant, PTL DEF Spec, ParkedTakesNoNewSession

=============================================================================
