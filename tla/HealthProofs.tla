----------------------------- MODULE HealthProofs -----------------------------
(***************************************************************************)
(* What the health ladder guarantees for any vendors, sessions, credential *)
(* sharing, thresholds and cooldowns, and however many reports race.       *)
(***************************************************************************)
EXTENDS Health, SumTheorems, FiniteSetTheorems, TLAPS

-----------------------------------------------------------------------------
(* The backoff.  Doubled is a recursive function; that it satisfies its    *)
(* own equation is what the next lemmas are for.                           *)

Redouble(d) == IF d < CooldownMax THEN 2 * d ELSE d

IsBackoff(f, k) == f = [n \in 0..k |-> IF n <= 1 THEN Cooldown ELSE Redouble(f[n - 1])]

LEMMA BackoffsAgree ==
  ASSUME NEW j \in Nat, NEW k \in Nat, NEW f, NEW g, IsBackoff(f, j), IsBackoff(g, k),
         NEW i \in Nat, i <= j, i <= k
  PROVE  f[i] = g[i]
  <1> DEFINE B == {n \in Nat : n <= j /\ n <= k /\ f[n] # g[n]}
  <1> SUFFICES ASSUME B # {} PROVE FALSE
    OBVIOUS
  <1>1. PICK n \in B : \A m \in B : n <= m
    <2>1. B \subseteq Nat
      OBVIOUS
    <2> HIDE DEF B
    <2>2. QED
      BY <2>1, LeastNatural
  <1>2. n \in 0..j /\ n \in 0..k /\ f[n] # g[n]
    BY <1>1
  <1>3. f[n] = IF n <= 1 THEN Cooldown ELSE Redouble(f[n - 1])
    BY <1>2 DEF IsBackoff
  <1>4. g[n] = IF n <= 1 THEN Cooldown ELSE Redouble(g[n - 1])
    BY <1>2 DEF IsBackoff
  <1>5. CASE n <= 1
    BY <1>2, <1>3, <1>4, <1>5
  <1>6. CASE ~(n <= 1)
    <2>1. n - 1 \in Nat /\ n - 1 <= j /\ n - 1 <= k /\ n - 1 \notin B
      BY <1>1, <1>2, <1>6
    <2>2. f[n - 1] = g[n - 1]
      BY <2>1
    <2>3. QED
      BY <1>2, <1>3, <1>4, <1>6, <2>2
  <1>7. QED
    BY <1>5, <1>6

LEMMA BackoffExists ==
  ASSUME NEW k \in Nat
  PROVE  \E f : IsBackoff(f, k)
  <1> DEFINE B == {n \in Nat : ~ \E f : IsBackoff(f, n)}
  <1> SUFFICES ASSUME B # {} PROVE FALSE
    OBVIOUS
  <1>1. PICK n \in B : \A m \in B : n <= m
    <2>1. B \subseteq Nat
      OBVIOUS
    <2> HIDE DEF B
    <2>2. QED
      BY <2>1, LeastNatural
  <1>2. CASE n = 0
    <2> DEFINE f == [m \in 0..n |-> Cooldown]
    <2>1. IsBackoff(f, n)
      BY <1>2 DEF IsBackoff
    <2>2. QED
      BY <2>1, <1>1
  <1>3. CASE n # 0
    <2>1. n - 1 \in Nat /\ n - 1 \notin B
      BY <1>1, <1>3
    <2>2. PICK g : IsBackoff(g, n - 1)
      BY <2>1
    <2> DEFINE f == [m \in 0..n |-> IF m < n THEN g[m]
                                    ELSE IF n <= 1 THEN Cooldown ELSE Redouble(g[n - 1])]
    <2>3. ASSUME NEW m \in 0..n
          PROVE  f[m] = IF m <= 1 THEN Cooldown ELSE Redouble(f[m - 1])
      <3>1. CASE m < n
        <4>1. m \in 0..(n - 1)
          BY <2>1, <3>1
        <4>2. g[m] = IF m <= 1 THEN Cooldown ELSE Redouble(g[m - 1])
          BY <2>2, <4>1 DEF IsBackoff
        <4>3. ~(m <= 1) => f[m - 1] = g[m - 1]
          BY <2>1, <3>1
        <4>4. QED
          BY <3>1, <4>2, <4>3
      <3>2. CASE m = n
        <4>1. f[n - 1] = g[n - 1] /\ n \in 0..n
          BY <1>3, <2>1
        <4>2. QED
          BY <3>2, <4>1
      <3>3. QED
        BY <3>1, <3>2
    <2>4. IsBackoff(f, n)
      BY <2>3 DEF IsBackoff
    <2>5. QED
      BY <2>4, <1>1
  <1>4. QED
    BY <1>2, <1>3

LEMMA DoubledDef ==
  ASSUME NEW n \in Nat
  PROVE  Doubled[n] = IF n <= 1 THEN Cooldown ELSE Redouble(Doubled[n - 1])
  <1> DEFINE G(k) == CHOOSE f : IsBackoff(f, k)
             D == [k \in Nat |-> G(k)[k]]
  <1>1. \A k \in Nat : IsBackoff(G(k), k)
    BY BackoffExists
  <1> HIDE DEF G
  <1>2. ASSUME NEW k \in Nat
        PROVE  D[k] = IF k <= 1 THEN Cooldown ELSE Redouble(D[k - 1])
    <2>1. k \in 0..k
      OBVIOUS
    <2>2. G(k)[k] = IF k <= 1 THEN Cooldown ELSE Redouble(G(k)[k - 1])
      BY <1>1, <2>1 DEF IsBackoff
    <2>3. CASE k <= 1
      BY <2>2, <2>3
    <2>4. CASE ~(k <= 1)
      <3>1. k - 1 \in Nat /\ k - 1 <= k /\ IsBackoff(G(k), k) /\ IsBackoff(G(k - 1), k - 1)
        BY <1>1, <2>4
      <3>2. G(k)[k - 1] = G(k - 1)[k - 1]
        BY <3>1, BackoffsAgree
      <3>3. QED
        BY <2>2, <2>4, <3>1, <3>2
    <2>5. QED
      BY <2>3, <2>4
  <1>3. D = [k \in Nat |-> IF k <= 1 THEN Cooldown
                           ELSE IF D[k - 1] < CooldownMax THEN 2 * D[k - 1] ELSE D[k - 1]]
    BY <1>2 DEF Redouble
  <1> HIDE DEF D
  <1>4. Doubled = [k \in Nat |-> IF k <= 1 THEN Cooldown
                     ELSE IF Doubled[k - 1] < CooldownMax THEN 2 * Doubled[k - 1]
                     ELSE Doubled[k - 1]]
    BY <1>3 DEF Doubled
  <1>5. QED
    BY <1>4 DEF Redouble

LEMMA DoubledType == \A n \in Nat : Doubled[n] \in Nat
  <1> DEFINE B == {n \in Nat : Doubled[n] \notin Nat}
  <1> SUFFICES ASSUME B # {} PROVE FALSE
    OBVIOUS
  <1>1. PICK n \in B : \A m \in B : n <= m
    <2>1. B \subseteq Nat
      OBVIOUS
    <2> HIDE DEF B
    <2>2. QED
      BY <2>1, LeastNatural
  <1>2. Doubled[n] = IF n <= 1 THEN Cooldown ELSE Redouble(Doubled[n - 1])
    BY <1>1, DoubledDef
  <1>3. CASE n <= 1
    BY <1>1, <1>2, <1>3, CooldownsOrdered
  <1>4. CASE ~(n <= 1)
    <2>1. Doubled[n - 1] \in Nat
      BY <1>1, <1>4
    <2>2. QED
      BY <1>1, <1>2, <1>4, <2>1, CooldownsOrdered DEF Redouble
  <1>5. QED
    BY <1>3, <1>4

(* nextCooldown: a later demotion cools at least as long. *)
LEMMA NextCooldownGrows ==
  ASSUME NEW n \in Nat
  PROVE  /\ NextCooldown(n) \in Nat
         /\ NextCooldown(n + 1) \in Nat
         /\ NextCooldown(n) <= NextCooldown(n + 1)
  <1>1. Doubled[n] \in Nat /\ Doubled[n + 1] \in Nat /\ CooldownMax \in Nat
    BY DoubledType, CooldownsOrdered
  <1>2. Doubled[n] <= Doubled[n + 1]
    <2>1. Doubled[n + 1] = IF n + 1 <= 1 THEN Cooldown ELSE Redouble(Doubled[(n + 1) - 1])
      BY DoubledDef
    <2>2. Doubled[n] = IF n <= 1 THEN Cooldown ELSE Redouble(Doubled[n - 1])
      BY DoubledDef
    <2>3. CASE n = 0
      BY <1>1, <2>1, <2>2, <2>3
    <2>4. CASE n # 0
      <3>1. Doubled[n + 1] = Redouble(Doubled[n])
        BY <2>1, <2>4
      <3>2. QED
        BY <1>1, <3>1 DEF Redouble
    <2>5. QED
      BY <2>3, <2>4
  <1>3. QED
    BY <1>1, <1>2 DEF NextCooldown

-----------------------------------------------------------------------------
(* One vendor's record. *)

Records == [consecFail : Nat, cooling : Nat, demotions : Nat,
            dead : BOOLEAN, clientFails : SUBSET Sessions]

(* Evidence and demotion go together, and a cooldown is never longer than  *)
(* the one its demotion set.                                               *)
SoundCooling(h) ==
    /\ h.demotions = 0 => h.cooling = 0
    /\ h.demotions > 0 => h.cooling <= NextCooldown(h.demotions)

Sound(h) == (h.demotions > 0 <=> Indicted(h)) /\ SoundCooling(h)

(* What a failure may do to a record. *)
NoBetter(h, k) ==
    /\ k.cooling >= h.cooling
    /\ h.dead => k.dead
    /\ k.demotions >= h.demotions

LEMMA ClientFailsFinite ==
  ASSUME NEW T \in SUBSET Sessions
  PROVE  IsFiniteSet(T) /\ Cardinality(T) \in Nat
  BY SessionsFinite, FS_Subset, FS_CardinalityType

LEMMA FreshSound == Fresh \in Records /\ Sound(Fresh)
  <1>1. Fresh \in Records
    BY DEF Fresh, Records
  <1>2. Cardinality(Fresh.clientFails) = 0 /\ Fresh.consecFail = 0 /\ Fresh.demotions = 0
        /\ Fresh.cooling = 0
    BY FS_EmptySet DEF Fresh
  <1>3. QED
    BY <1>1, <1>2, ThresholdsPositive DEF Sound, SoundCooling, Indicted

LEMMA DemotedRecord ==
  ASSUME NEW h \in Records, NEW n \in Nat, NEW c \in Nat, NEW d \in BOOLEAN
  PROVE  [h EXCEPT !.demotions = n, !.cooling = c, !.dead = d] \in Records
  BY DEF Records

LEMMA DemoteSound ==
  ASSUME NEW h \in Records, SoundCooling(h), Indicted(h)
  PROVE  Demote(h) \in Records /\ Sound(Demote(h)) /\ NoBetter(h, Demote(h))
         /\ Demote(h).demotions > 0
  <1>1. /\ NextCooldown(h.demotions + 1) \in Nat
        /\ NextCooldown(h.demotions) <= NextCooldown(h.demotions + 1)
        /\ NextCooldown(h.demotions) \in Nat
    BY NextCooldownGrows DEF Records
  <1>2. PICK d \in BOOLEAN : /\ d = (h.dead \/ h.demotions + 1 >= DeadAfter)
                             /\ h.dead => d
    BY DEF Records
  <1>3. PICK k : k = [h EXCEPT !.demotions = h.demotions + 1,
                               !.cooling = NextCooldown(h.demotions + 1),
                               !.dead = d]
    OBVIOUS
  <1>4. Demote(h) = k
    BY <1>2, <1>3 DEF Demote
  <1>5. k \in Records
    <2>1. h.demotions + 1 \in Nat
      BY DEF Records
    <2>2. QED
      BY <1>1, <1>3, <2>1, DemotedRecord
  <1>6. /\ k.demotions = h.demotions + 1 /\ k.cooling = NextCooldown(h.demotions + 1)
        /\ k.consecFail = h.consecFail /\ k.clientFails = h.clientFails
    BY <1>3 DEF Records
  <1>7. k.dead = d
    BY <1>3 DEF Records
  <1>8. h.demotions \in Nat /\ h.cooling \in Nat
    BY DEF Records
  <1>9. Indicted(k)
    BY <1>6 DEF Indicted
  <1>10. Sound(k)
    BY <1>1, <1>6, <1>8, <1>9 DEF Sound, SoundCooling
  <1>11. k.cooling >= h.cooling /\ k.demotions >= h.demotions /\ k.demotions > 0
    BY <1>1, <1>6, <1>8 DEF SoundCooling
  <1>12. QED
    BY <1>2, <1>4, <1>5, <1>7, <1>10, <1>11 DEF NoBetter

(* applyReport, a failure of any kind. *)
LEMMA FailSound ==
  ASSUME NEW h \in Records, Sound(h), NEW sig \in VendorFailures
  PROVE  Fail(h, sig) \in Records /\ Sound(Fail(h, sig)) /\ NoBetter(h, Fail(h, sig))
  <1>1. PICK n : n = Streak(h, sig)
    OBVIOUS
  <1>2. n \in Nat /\ n > h.consecFail /\ (sig # "fail" => n >= FailThreshold)
        /\ FailThreshold \in Nat \ {0} /\ h.consecFail \in Nat
    BY <1>1, ThresholdsPositive DEF Streak, Records
  <1>3. PICK k : k = [h EXCEPT !.consecFail = n]
    OBVIOUS
  <1>4. k \in Records
    BY <1>2, <1>3 DEF Records
  <1>5. k.consecFail = n /\ k.cooling = h.cooling /\ k.demotions = h.demotions
        /\ k.clientFails = h.clientFails
    BY <1>3 DEF Records
  <1>6. k.dead = h.dead
    BY <1>3 DEF Records
  <1>7. SoundCooling(k)
    BY <1>5 DEF Sound, SoundCooling
  <1>8. CASE n >= FailThreshold
    <2>1. Fail(h, sig) = Demote(k)
      BY <1>1, <1>3, <1>5, <1>8 DEF Fail
    <2>2. Indicted(k)
      BY <1>5, <1>8 DEF Indicted
    <2>3. Demote(k) \in Records /\ Sound(Demote(k)) /\ NoBetter(k, Demote(k))
      BY <1>4, <1>7, <2>2, DemoteSound
    <2>4. NoBetter(h, Demote(k))
      BY <1>5, <1>6, <2>3 DEF NoBetter
    <2>5. QED
      BY <2>1, <2>3, <2>4
  <1>9. CASE ~(n >= FailThreshold)
    <2>1. Fail(h, sig) = k
      BY <1>1, <1>3, <1>5, <1>9 DEF Fail
    <2>2. Indicted(k) <=> Indicted(h)
      BY <1>2, <1>5, <1>9 DEF Indicted
    <2>3. Sound(k)
      BY <1>5, <1>7, <2>2 DEF Sound
    <2>4. h.cooling \in Nat /\ h.demotions \in Nat
      BY DEF Records
    <2>5. NoBetter(h, k)
      BY <1>5, <1>6, <2>4 DEF NoBetter
    <2>6. QED
      BY <1>4, <2>1, <2>3, <2>5
  <1>10. QED
    BY <1>8, <1>9

(* A conclusive failure demotes whatever came before it. *)
LEMMA ConclusiveFailureDemotes ==
  ASSUME NEW h \in Records, Sound(h)
  PROVE  Fail(h, "failCredential").demotions > 0
  <1>1. PICK n : n = Streak(h, "failCredential")
    OBVIOUS
  <1>2. n \in Nat /\ n >= FailThreshold
    BY <1>1, ThresholdsPositive DEF Streak, Records
  <1>3. PICK k : k = [h EXCEPT !.consecFail = n]
    OBVIOUS
  <1>4. k \in Records /\ k.consecFail = n /\ k.demotions = h.demotions /\ k.cooling = h.cooling
    BY <1>2, <1>3 DEF Records
  <1>5. SoundCooling(k) /\ Indicted(k)
    BY <1>2, <1>4 DEF Sound, SoundCooling, Indicted
  <1>6. Fail(h, "failCredential") = Demote(k)
    BY <1>1, <1>2, <1>3, <1>4 DEF Fail
  <1>7. QED
    BY <1>4, <1>5, <1>6, DemoteSound

(* applyClientFail: where the cap silences a session, the threshold has    *)
(* been passed already.                                                    *)
LEMMA FailClientSound ==
  ASSUME NEW h \in Records, Sound(h), NEW s \in Sessions
  PROVE  FailClient(h, s) \in Records /\ Sound(FailClient(h, s)) /\ NoBetter(h, FailClient(h, s))
  <1>1. h.cooling \in Nat /\ h.demotions \in Nat /\ h.clientFails \in SUBSET Sessions
        /\ h.consecFail \in Nat
    BY DEF Records
  <1>2. CASE s \in h.clientFails \/ Cardinality(h.clientFails) >= ClientFailMax
    <2>1. FailClient(h, s) = h
      BY <1>2 DEF FailClient
    <2>2. QED
      BY <1>1, <2>1 DEF NoBetter
  <1>3. CASE ~(s \in h.clientFails \/ Cardinality(h.clientFails) >= ClientFailMax)
    <2>1. PICK T : T = h.clientFails \cup {s}
      OBVIOUS
    <2>2. T \in SUBSET Sessions /\ Cardinality(T) = Cardinality(h.clientFails) + 1
          /\ Cardinality(h.clientFails) \in Nat
      BY <1>1, <1>3, <2>1, ClientFailsFinite, FS_AddElement
    <2>3. PICK k : k = [h EXCEPT !.clientFails = T]
      OBVIOUS
    <2>4. k \in Records
      BY <2>2, <2>3 DEF Records
    <2>5. k.clientFails = T /\ k.cooling = h.cooling /\ k.demotions = h.demotions
          /\ k.consecFail = h.consecFail
      BY <2>3 DEF Records
    <2>6. k.dead = h.dead
      BY <2>3 DEF Records
    <2>7. SoundCooling(k)
      BY <2>5 DEF Sound, SoundCooling
    <2>8. FailClient(h, s) = IF Cardinality(T) < ClientFailThreshold THEN k ELSE Demote(k)
      BY <1>3, <2>1, <2>3, <2>5 DEF FailClient
    <2>9. CASE Cardinality(T) < ClientFailThreshold
      <3>1. Indicted(k) <=> Indicted(h)
        BY <2>2, <2>5, <2>9, ThresholdsPositive DEF Indicted
      <3>2. Sound(k) /\ NoBetter(h, k)
        BY <1>1, <2>5, <2>6, <2>7, <3>1 DEF Sound, NoBetter
      <3>3. QED
        BY <2>4, <2>8, <2>9, <3>2
    <2>10. CASE ~(Cardinality(T) < ClientFailThreshold)
      <3>1. Indicted(k)
        BY <2>2, <2>5, <2>10, ThresholdsPositive DEF Indicted
      <3>2. Demote(k) \in Records /\ Sound(Demote(k)) /\ NoBetter(k, Demote(k))
        BY <2>4, <2>7, <3>1, DemoteSound
      <3>3. NoBetter(h, Demote(k))
        BY <2>5, <2>6, <3>2 DEF NoBetter
      <3>4. QED
        BY <2>8, <2>10, <3>2, <3>3
    <2>11. QED
      BY <2>9, <2>10
  <1>4. QED
    BY <1>2, <1>3

(* The clock takes cooldown and nothing else. *)
LEMMA ElapseSound ==
  ASSUME NEW h \in Records, Sound(h)
  PROVE  /\ Elapse(h) \in Records /\ Sound(Elapse(h))
         /\ Elapse(h).dead = h.dead /\ Elapse(h).demotions = h.demotions
  <1>1. PICK n : n = IF h.cooling > 0 THEN h.cooling - 1 ELSE 0
    OBVIOUS
  <1>2. n \in Nat /\ n <= h.cooling /\ h.cooling \in Nat /\ h.demotions \in Nat
    BY <1>1 DEF Records
  <1>3. PICK k : k = [h EXCEPT !.cooling = n]
    OBVIOUS
  <1>4. Elapse(h) = k
    BY <1>1, <1>3 DEF Elapse
  <1>5. k \in Records
    BY <1>2, <1>3 DEF Records
  <1>6. k.cooling = n /\ k.demotions = h.demotions /\ k.consecFail = h.consecFail
        /\ k.clientFails = h.clientFails
    BY <1>3 DEF Records
  <1>7. k.dead = h.dead
    BY <1>3 DEF Records
  <1>8. Indicted(k) <=> Indicted(h)
    BY <1>6 DEF Indicted
  <1>9. NextCooldown(h.demotions) \in Nat
    BY <1>2, NextCooldownGrows
  <1>10. Sound(k)
    BY <1>2, <1>6, <1>8, <1>9 DEF Sound, SoundCooling
  <1>11. QED
    BY <1>4, <1>5, <1>6, <1>7, <1>10

-----------------------------------------------------------------------------
(* The machine: every record is sound, a dispatched attempt knows a vendor *)
(* of the fleet, and whoever presents a refused key is demoted or waits in *)
(* a fan-out to be.                                                        *)
Sent == [phase : {"sent"}, vendor : Vendors]
Reporting == [phase : {"reporting"}, todo : SUBSET Vendors]

AttemptsOK ==
    /\ attempts = [a \in Attempts |-> attempts[a]]
    /\ \A a \in Attempts : attempts[a] = NoAttempt \/ attempts[a] \in Sent
                              \/ attempts[a] \in Reporting

RecordsOK == health \in [Vendors -> Records] /\ \A v \in Vendors : Sound(health[v])

HealthInv == RecordsOK /\ AttemptsOK /\ condemned \subseteq Vendors /\ RefusedKeyReachesSiblings

LEMMA PhaseTells ==
  ASSUME AttemptsOK, NEW a \in Attempts
  PROVE  /\ attempts[a].phase = "sent" => attempts[a] \in Sent /\ attempts[a].vendor \in Vendors
         /\ attempts[a].phase = "reporting" =>
               attempts[a] \in Reporting /\ attempts[a].todo \in SUBSET Vendors
  BY DEF AttemptsOK, NoAttempt, Sent, Reporting

(* A vendor's record is replaced by a sound one. *)
LEMMA FoldKeepsRecords ==
  ASSUME RecordsOK, NEW v \in Vendors, NEW h \in Records, Sound(h), Fold(v, h)
  PROVE  RecordsOK'
  BY DEF RecordsOK, Fold, Sound, SoundCooling, Indicted

(* An attempt ends, or leaves a vendor it was to report on. *)
LEMMA AttemptsAfter ==
  ASSUME AttemptsOK, NEW a \in Attempts, NEW x,
         x = NoAttempt \/ x \in Sent \/ x \in Reporting,
         attempts' = [attempts EXCEPT ![a] = x]
  PROVE  AttemptsOK'
  BY DEF AttemptsOK

(* Records that are demoted no less keep what the condemned are due, as    *)
(* long as the fan-outs that are under way stay.                           *)
StaysDemoted == \A v \in Vendors : health[v].demotions > 0 => health'[v].demotions > 0

LEMMA SiblingsStillReached ==
  ASSUME HealthInv, NEW a \in Attempts, attempts[a].phase # "reporting",
         NEW x, attempts' = [attempts EXCEPT ![a] = x],
         StaysDemoted, condemned' \subseteq condemned
  PROVE  RefusedKeyReachesSiblings'
  <1> SUFFICES ASSUME NEW v \in condemned', ~(health'[v].demotions > 0)
               PROVE  \E b \in Attempts : attempts'[b].phase = "reporting" /\ v \in attempts'[b].todo
    BY DEF RefusedKeyReachesSiblings
  <1>1. v \in condemned /\ v \in Vendors /\ ~(health[v].demotions > 0)
    BY DEF StaysDemoted, HealthInv
  <1>2. PICK b \in Attempts : attempts[b].phase = "reporting" /\ v \in attempts[b].todo
    BY <1>1 DEF HealthInv, RefusedKeyReachesSiblings
  <1>3. attempts'[b] = attempts[b]
    BY <1>2 DEF HealthInv, AttemptsOK
  <1>4. QED
    BY <1>2, <1>3

(* What each step does to each vendor's record. *)
RecordStep(v) ==
    \/ NoBetter(health[v], health'[v])
    \/ Tick /\ health'[v] = Elapse(health[v])
    \/ ResetHealth
    \/ \E a \in Attempts : ReportOK(a) /\ attempts[a].vendor = v

LEMMA Unchanged_NoBetter == ASSUME NEW h \in Records PROVE NoBetter(h, h)
  BY DEF Records, NoBetter

LEMMA FoldNoBetter ==
  ASSUME RecordsOK, NEW v \in Vendors, NEW h \in Records, NoBetter(health[v], h), Fold(v, h)
  PROVE  \A w \in Vendors : NoBetter(health[w], health'[w])
  <1> SUFFICES ASSUME NEW w \in Vendors
               PROVE  NoBetter(health[w], health'[w])
    OBVIOUS
  <1>1. health[w] \in Records
    BY DEF RecordsOK
  <1>2. CASE w = v
    BY <1>2 DEF Fold, RecordsOK
  <1>3. CASE w # v
    <2>1. health'[w] = health[w]
      BY <1>3 DEF Fold, RecordsOK
    <2>2. QED
      BY <1>1, <2>1, Unchanged_NoBetter
  <1>4. QED
    BY <1>2, <1>3

LEMMA NoBetterStaysDemoted ==
  ASSUME RecordsOK, RecordsOK', \A v \in Vendors : NoBetter(health[v], health'[v])
  PROVE  StaysDemoted
  BY DEF StaysDemoted, NoBetter, RecordsOK, Records

LEMMA StepDispatch ==
  ASSUME HealthInv, NEW a \in Attempts, NEW v \in Vendors, Dispatch(a, v)
  PROVE  HealthInv' /\ \A w \in Vendors : RecordStep(w)
  <1>1. PICK x \in Sent : x = [phase |-> "sent", vendor |-> v]
    BY DEF Sent
  <1>2. AttemptsOK'
    BY <1>1, AttemptsAfter DEF Dispatch, HealthInv
  <1>3. RecordsOK' /\ StaysDemoted
    BY DEF Dispatch, HealthInv, RecordsOK, Sound, SoundCooling, Indicted, StaysDemoted
  <1>4. RefusedKeyReachesSiblings'
    <2>1. attempts[a].phase # "reporting"
      BY DEF Dispatch, NoAttempt
    <2>2. attempts' = [attempts EXCEPT ![a] = x] /\ condemned' \subseteq condemned
      BY <1>1 DEF Dispatch
    <2>3. QED
      BY <1>3, <2>1, <2>2, SiblingsStillReached
  <1>5. \A w \in Vendors : NoBetter(health[w], health'[w])
    BY Unchanged_NoBetter DEF Dispatch, HealthInv, RecordsOK
  <1>6. QED
    BY <1>2, <1>3, <1>4, <1>5 DEF HealthInv, RecordStep, Dispatch

(* Reports that touch no record. *)
LEMMA StepNoRecord ==
  ASSUME HealthInv, NEW a \in Attempts, attempts[a].phase = "sent", Finish(a),
         UNCHANGED <<health, condemned>>
  PROVE  HealthInv' /\ \A w \in Vendors : RecordStep(w)
  <1>1. AttemptsOK'
    BY AttemptsAfter DEF Finish, HealthInv
  <1>2. RecordsOK' /\ StaysDemoted
    BY DEF HealthInv, RecordsOK, Sound, SoundCooling, Indicted, StaysDemoted
  <1>3. RefusedKeyReachesSiblings'
    BY <1>2, SiblingsStillReached DEF Finish
  <1>4. \A w \in Vendors : NoBetter(health[w], health'[w])
    BY Unchanged_NoBetter DEF HealthInv, RecordsOK
  <1>5. QED
    BY <1>1, <1>2, <1>3, <1>4 DEF HealthInv, RecordStep

(* Reports that count against the vendor. *)
LEMMA StepAgainst ==
  ASSUME HealthInv, NEW a \in Attempts, attempts[a].phase = "sent", Finish(a),
         UNCHANGED condemned, NEW h \in Records, Sound(h),
         NoBetter(health[attempts[a].vendor], h), Fold(attempts[a].vendor, h)
  PROVE  HealthInv' /\ \A w \in Vendors : RecordStep(w)
  <1>1. attempts[a].vendor \in Vendors
    BY PhaseTells DEF HealthInv
  <1>2. AttemptsOK'
    BY AttemptsAfter DEF Finish, HealthInv
  <1>3. RecordsOK'
    BY <1>1, FoldKeepsRecords DEF HealthInv
  <1>4. \A w \in Vendors : NoBetter(health[w], health'[w])
    BY <1>1, FoldNoBetter DEF HealthInv
  <1>5. StaysDemoted
    BY <1>3, <1>4, NoBetterStaysDemoted DEF HealthInv
  <1>6. RefusedKeyReachesSiblings'
    BY <1>5, SiblingsStillReached DEF Finish
  <1>7. QED
    BY <1>2, <1>3, <1>4, <1>6 DEF HealthInv, RecordStep

LEMMA StepFail ==
  ASSUME HealthInv, NEW a \in Attempts, NEW sig \in {"fail", "failHard"}, ReportFail(a, sig)
  PROVE  HealthInv' /\ \A w \in Vendors : RecordStep(w)
  <1>1. PICK v \in Vendors : v = attempts[a].vendor
    BY PhaseTells DEF HealthInv, ReportFail
  <1>2. health[v] \in Records /\ Sound(health[v]) /\ sig \in VendorFailures
    BY DEF HealthInv, RecordsOK, VendorFailures
  <1>3. PICK h : h = Fail(health[v], sig)
    OBVIOUS
  <1>4. h \in Records /\ Sound(h) /\ NoBetter(health[v], h)
    BY <1>2, <1>3, FailSound
  <1>5. Fold(v, h) /\ Finish(a) /\ UNCHANGED condemned /\ attempts[a].phase = "sent"
    BY <1>1, <1>3 DEF ReportFail
  <1>6. QED
    BY <1>1, <1>4, <1>5, StepAgainst

LEMMA StepFailClient ==
  ASSUME HealthInv, NEW a \in Attempts, NEW s \in Sessions, ReportFailClient(a, s)
  PROVE  HealthInv' /\ \A w \in Vendors : RecordStep(w)
  <1>1. PICK v \in Vendors : v = attempts[a].vendor
    BY PhaseTells DEF HealthInv, ReportFailClient
  <1>2. health[v] \in Records /\ Sound(health[v])
    BY DEF HealthInv, RecordsOK
  <1>3. PICK h : h = FailClient(health[v], s)
    OBVIOUS
  <1>4. h \in Records /\ Sound(h) /\ NoBetter(health[v], h)
    BY <1>2, <1>3, FailClientSound
  <1>5. Fold(v, h) /\ Finish(a) /\ UNCHANGED condemned /\ attempts[a].phase = "sent"
    BY <1>1, <1>3 DEF ReportFailClient
  <1>6. QED
    BY <1>1, <1>4, <1>5, StepAgainst

(* A success clears its vendor, which is condemned no longer. *)
LEMMA StepOK ==
  ASSUME HealthInv, NEW a \in Attempts, ReportOK(a)
  PROVE  HealthInv' /\ \A w \in Vendors : RecordStep(w)
  <1>1. PICK v \in Vendors : v = attempts[a].vendor
    BY PhaseTells DEF HealthInv, ReportOK
  <1>2. Fold(v, Fresh) /\ condemned' = condemned \ {v} /\ Finish(a) /\ attempts[a].phase = "sent"
    BY <1>1 DEF ReportOK, Succeed
  <1>3. AttemptsOK'
    BY <1>2, AttemptsAfter DEF Finish, HealthInv
  <1>4. RecordsOK'
    BY <1>2, FreshSound, FoldKeepsRecords DEF HealthInv
  <1>5. \A w \in Vendors \ {v} : health'[w] = health[w]
    BY <1>2 DEF Fold, HealthInv, RecordsOK
  <1>6. RefusedKeyReachesSiblings'
    <2> SUFFICES ASSUME NEW w \in condemned', ~(health'[w].demotions > 0)
                 PROVE  \E b \in Attempts : /\ attempts'[b].phase = "reporting"
                                            /\ w \in attempts'[b].todo
      BY DEF RefusedKeyReachesSiblings
    <2>1. w \in condemned /\ w \in Vendors \ {v} /\ ~(health[w].demotions > 0)
      BY <1>2, <1>5 DEF HealthInv
    <2>2. PICK b \in Attempts : attempts[b].phase = "reporting" /\ w \in attempts[b].todo
      BY <2>1 DEF HealthInv, RefusedKeyReachesSiblings
    <2>3. attempts'[b] = attempts[b]
      BY <1>2, <2>2 DEF HealthInv, AttemptsOK, Finish
    <2>4. QED
      BY <2>2, <2>3
  <1>7. \A w \in Vendors : RecordStep(w)
    <2>1. \A w \in Vendors \ {v} : NoBetter(health[w], health'[w])
      BY <1>5, Unchanged_NoBetter DEF HealthInv, RecordsOK
    <2>2. RecordStep(v)
      BY <1>1 DEF RecordStep
    <2>3. QED
      BY <2>1, <2>2 DEF RecordStep
  <1>8. QED
    BY <1>2, <1>3, <1>4, <1>6, <1>7 DEF HealthInv

(* A refused key: whoever presents it is now due. *)
LEMMA StepCredential ==
  ASSUME HealthInv, NEW a \in Attempts, ReportFailCredential(a)
  PROVE  HealthInv' /\ \A w \in Vendors : RecordStep(w)
  <1>1. PICK v \in Vendors : v = attempts[a].vendor
    BY PhaseTells DEF HealthInv, ReportFailCredential
  <1>2. PICK x \in Reporting : x = [phase |-> "reporting", todo |-> Sharing(v)]
    BY DEF Reporting, Sharing
  <1>3. attempts' = [attempts EXCEPT ![a] = x] /\ attempts[a].phase = "sent"
        /\ condemned' = condemned \cup Sharing(v) /\ UNCHANGED health
    BY <1>1, <1>2 DEF ReportFailCredential, Sharing
  <1>4. AttemptsOK'
    BY <1>2, <1>3, AttemptsAfter DEF HealthInv
  <1>5. RecordsOK'
    BY <1>3 DEF HealthInv, RecordsOK, Sound, SoundCooling, Indicted
  <1>6. attempts'[a] = x /\ \A b \in Attempts \ {a} : attempts'[b] = attempts[b]
    BY <1>3 DEF HealthInv, AttemptsOK
  <1>7. RefusedKeyReachesSiblings'
    <2> SUFFICES ASSUME NEW w \in condemned', ~(health'[w].demotions > 0)
                 PROVE  \E b \in Attempts : /\ attempts'[b].phase = "reporting"
                                            /\ w \in attempts'[b].todo
      BY DEF RefusedKeyReachesSiblings
    <2>1. CASE w \in Sharing(v)
      BY <1>2, <1>6, <2>1
    <2>2. CASE w \in condemned
      <3>1. PICK b \in Attempts : attempts[b].phase = "reporting" /\ w \in attempts[b].todo
        BY <1>3, <2>2 DEF HealthInv, RefusedKeyReachesSiblings
      <3>2. b \in Attempts \ {a}
        BY <1>3, <3>1
      <3>3. QED
        BY <1>6, <3>1, <3>2
    <2>3. QED
      BY <1>3, <2>1, <2>2
  <1>8. condemned' \subseteq Vendors
    BY <1>3 DEF HealthInv, Sharing
  <1>9. \A w \in Vendors : NoBetter(health[w], health'[w])
    BY <1>3, Unchanged_NoBetter DEF HealthInv, RecordsOK
  <1>10. QED
    BY <1>4, <1>5, <1>7, <1>8, <1>9 DEF HealthInv, RecordStep

(* One vendor of a fan-out leaves what is to do as it is demoted. *)
LEMMA StepFanOut ==
  ASSUME HealthInv, NEW a \in Attempts, FanOut(a)
  PROVE  HealthInv' /\ \A w \in Vendors : RecordStep(w)
  <1>1. attempts[a].phase = "reporting" /\ attempts[a] \in Reporting
        /\ attempts[a].todo \in SUBSET Vendors /\ condemned' = condemned
    BY PhaseTells DEF HealthInv, FanOut
  <1>2. PICK v \in attempts[a].todo :
          /\ Fold(v, Fail(health[v], "failCredential"))
          /\ attempts' = [attempts EXCEPT ![a] =
                IF attempts[a].todo = {v} THEN NoAttempt
                ELSE [attempts[a] EXCEPT !.todo = @ \ {v}]]
    BY DEF FanOut
  <1>3. v \in Vendors /\ health[v] \in Records /\ Sound(health[v])
        /\ "failCredential" \in VendorFailures
    BY <1>1, <1>2 DEF HealthInv, RecordsOK, VendorFailures
  <1>4. PICK h : h = Fail(health[v], "failCredential")
    OBVIOUS
  <1>5. h \in Records /\ Sound(h) /\ NoBetter(health[v], h) /\ h.demotions > 0 /\ Fold(v, h)
    BY <1>2, <1>3, <1>4, FailSound, ConclusiveFailureDemotes
  <1>6. PICK x : x = IF attempts[a].todo = {v} THEN NoAttempt
                     ELSE [attempts[a] EXCEPT !.todo = @ \ {v}]
    OBVIOUS
  <1>7. /\ x = NoAttempt \/ x \in Reporting
        /\ attempts[a].todo # {v} => x.phase = "reporting" /\ x.todo = attempts[a].todo \ {v}
    BY <1>1, <1>6 DEF Reporting
  <1>8. attempts' = [attempts EXCEPT ![a] = x]
    BY <1>2, <1>6
  <1>9. AttemptsOK'
    BY <1>7, <1>8, AttemptsAfter DEF HealthInv
  <1>10. RecordsOK'
    BY <1>3, <1>5, FoldKeepsRecords DEF HealthInv
  <1>11. \A w \in Vendors : NoBetter(health[w], health'[w])
    BY <1>3, <1>5, FoldNoBetter DEF HealthInv
  <1>12. StaysDemoted
    BY <1>10, <1>11, NoBetterStaysDemoted DEF HealthInv
  <1>13. health'[v].demotions > 0
    BY <1>3, <1>5 DEF Fold, HealthInv, RecordsOK
  <1>14. attempts'[a] = x /\ \A b \in Attempts \ {a} : attempts'[b] = attempts[b]
    BY <1>8 DEF HealthInv, AttemptsOK
  <1>15. RefusedKeyReachesSiblings'
    <2> SUFFICES ASSUME NEW w \in condemned', ~(health'[w].demotions > 0)
                 PROVE  \E b \in Attempts : /\ attempts'[b].phase = "reporting"
                                            /\ w \in attempts'[b].todo
      BY DEF RefusedKeyReachesSiblings
    <2>1. w \in condemned /\ w \in Vendors /\ ~(health[w].demotions > 0) /\ w # v
      BY <1>1, <1>12, <1>13 DEF HealthInv, StaysDemoted
    <2>2. PICK b \in Attempts : attempts[b].phase = "reporting" /\ w \in attempts[b].todo
      BY <2>1 DEF HealthInv, RefusedKeyReachesSiblings
    <2>3. CASE b = a
      BY <1>7, <1>14, <2>1, <2>2, <2>3
    <2>4. CASE b # a
      BY <1>14, <2>2, <2>4
    <2>5. QED
      BY <2>3, <2>4
  <1>16. QED
    BY <1>1, <1>9, <1>10, <1>11, <1>15 DEF HealthInv, RecordStep

LEMMA StepReset ==
  ASSUME HealthInv, ResetHealth
  PROVE  HealthInv' /\ \A w \in Vendors : RecordStep(w)
  <1>1. PICK f : f = Fresh
    OBVIOUS
  <1>2. f \in Records /\ Sound(f)
    BY <1>1, FreshSound
  <1>3. health' = [v \in Vendors |-> f]
    BY <1>1 DEF ResetHealth
  <1>4. RecordsOK'
    BY <1>2, <1>3 DEF RecordsOK, Sound, SoundCooling, Indicted
  <1>5. AttemptsOK' /\ condemned' \subseteq Vendors /\ RefusedKeyReachesSiblings'
    BY DEF ResetHealth, HealthInv, AttemptsOK, RefusedKeyReachesSiblings
  <1>6. QED
    BY <1>4, <1>5 DEF HealthInv, RecordStep

LEMMA StepTick ==
  ASSUME HealthInv, Tick
  PROVE  HealthInv' /\ \A w \in Vendors : RecordStep(w)
  <1>1. \A v \in Vendors : health[v] \in Records /\ Sound(health[v]) /\ health'[v] = Elapse(health[v])
    BY DEF HealthInv, RecordsOK, Tick
  <1>2. \A v \in Vendors : /\ health'[v] \in Records /\ Sound(health'[v])
                           /\ health'[v].demotions = health[v].demotions
    BY <1>1, ElapseSound
  <1>3. RecordsOK'
    <2>1. health' = [v \in Vendors |-> health'[v]]
      BY DEF Tick
    <2>2. health' \in [Vendors -> Records]
      BY <1>2, <2>1
    <2>3. QED
      BY <1>2, <2>2 DEF RecordsOK, Sound, SoundCooling, Indicted
  <1>4. AttemptsOK' /\ condemned' \subseteq Vendors
    BY DEF Tick, HealthInv, AttemptsOK
  <1>5. RefusedKeyReachesSiblings'
    BY <1>2 DEF Tick, HealthInv, RefusedKeyReachesSiblings
  <1>6. QED
    BY <1>1, <1>3, <1>4, <1>5 DEF HealthInv, RecordStep

LEMMA HealthStep ==
  ASSUME HealthInv, Next
  PROVE  HealthInv' /\ \A w \in Vendors : RecordStep(w)
  <1>1. ASSUME NEW a \in Attempts, NEW v \in Vendors, Dispatch(a, v)
        PROVE  HealthInv' /\ \A w \in Vendors : RecordStep(w)
    BY <1>1, StepDispatch
  <1>2. ASSUME NEW a \in Attempts, ReportNothing(a) \/ (\E m \in Models : ReportFailModel(a, m))
        PROVE  HealthInv' /\ \A w \in Vendors : RecordStep(w)
    BY <1>2, StepNoRecord DEF ReportNothing, ReportFailModel
  <1>3. ASSUME NEW a \in Attempts,
               ReportOK(a) \/ ReportFailCredential(a) \/ FanOut(a)
        PROVE  HealthInv' /\ \A w \in Vendors : RecordStep(w)
    BY <1>3, StepOK, StepCredential, StepFanOut
  <1>4. ASSUME NEW a \in Attempts, NEW sig \in {"fail", "failHard"}, ReportFail(a, sig)
        PROVE  HealthInv' /\ \A w \in Vendors : RecordStep(w)
    BY <1>4, StepFail
  <1>5. ASSUME NEW a \in Attempts, NEW s \in Sessions, ReportFailClient(a, s)
        PROVE  HealthInv' /\ \A w \in Vendors : RecordStep(w)
    BY <1>5, StepFailClient
  <1>6. CASE ResetHealth \/ Tick
    BY <1>6, StepReset, StepTick
  <1>7. QED
    BY <1>1, <1>2, <1>3, <1>4, <1>5, <1>6 DEF Next

(* Nothing happens. *)
LEMMA HealthStutters ==
  ASSUME HealthInv, UNCHANGED vars
  PROVE  HealthInv'
  BY DEF vars, HealthInv, RecordsOK, Sound, SoundCooling, Indicted, AttemptsOK,
         RefusedKeyReachesSiblings

LEMMA HealthInvariant == Spec => []HealthInv
  <1>1. Init => HealthInv
    <2> SUFFICES ASSUME Init PROVE HealthInv
      OBVIOUS
    <2>1. PICK f : f = Fresh
      OBVIOUS
    <2>2. f \in Records /\ Sound(f) /\ health = [v \in Vendors |-> f]
      BY <2>1, FreshSound DEF Init
    <2>3. RecordsOK
      BY <2>2 DEF RecordsOK
    <2>4. QED
      BY <2>3 DEF Init, HealthInv, AttemptsOK, RefusedKeyReachesSiblings
  <1>2. HealthInv /\ [Next]_vars => HealthInv'
    BY HealthStep, HealthStutters
  <1>3. QED
    BY <1>1, <1>2, PTL DEF Spec

(* A vendor is demoted exactly while evidence stands against it, whatever  *)
(* reports, resets and ticks come between (health.go, applyReport and      *)
(* demoteLocked).                                                          *)
THEOREM DemotionsHaveCause == Spec => []DemotedIffIndicted
  <1>1. HealthInv => DemotedIffIndicted
    BY DEF HealthInv, RecordsOK, Sound, DemotedIffIndicted
  <1>2. QED
    BY <1>1, HealthInvariant, PTL

(* One 401 reaches every vendor that presents the key, however its         *)
(* sections interleave with the rest (SignalFailCredential).               *)
THEOREM RefusedKeyIsRefusedEverywhere == Spec => []RefusedKeyReachesSiblings
  <1>1. HealthInv => RefusedKeyReachesSiblings
    BY DEF HealthInv
  <1>2. QED
    BY <1>1, HealthInvariant, PTL

(* Only a success of its own or the operator brings a dead vendor back.    *)
THEOREM DeadStayDead == Spec => RevivedByProofOrOperator
  <1> DEFINE A == \A v \in Vendors : (health[v].dead /\ ~health'[v].dead) =>
                     \/ ResetHealth
                     \/ \E a \in Attempts : ReportOK(a) /\ attempts[a].vendor = v
  <1>1. HealthInv /\ [Next]_vars => [A]_vars
    <2> SUFFICES ASSUME HealthInv, Next, NEW v \in Vendors, health[v].dead, ~health'[v].dead
                 PROVE  \/ ResetHealth
                        \/ \E a \in Attempts : ReportOK(a) /\ attempts[a].vendor = v
      OBVIOUS
    <2>1. RecordStep(v) /\ health[v] \in Records /\ Sound(health[v])
      BY HealthStep DEF HealthInv, RecordsOK
    <2>2. ~NoBetter(health[v], health'[v])
      BY DEF NoBetter
    <2>3. ~(health'[v] = Elapse(health[v]))
      BY <2>1, ElapseSound
    <2>4. QED
      BY <2>1, <2>2, <2>3 DEF RecordStep
  <1>2. QED
    BY <1>1, HealthInvariant, PTL DEF Spec, RevivedByProofOrOperator

(* No failure brings a vendor back sooner, in whatever order reports race. *)
THEOREM CooldownsOnlyGrow == Spec => FailureNeverShortensCooldown
  <1> DEFINE A == \A v \in Vendors : health'[v].cooling < health[v].cooling =>
                     \/ Tick
                     \/ ResetHealth
                     \/ \E a \in Attempts : ReportOK(a) /\ attempts[a].vendor = v
  <1>1. HealthInv /\ [Next]_vars => [A]_vars
    <2> SUFFICES ASSUME HealthInv, Next, NEW v \in Vendors, health'[v].cooling < health[v].cooling
                 PROVE  \/ Tick
                        \/ ResetHealth
                        \/ \E a \in Attempts : ReportOK(a) /\ attempts[a].vendor = v
      OBVIOUS
    <2>1. RecordStep(v) /\ health[v] \in Records /\ health'[v] \in Records
      BY HealthStep DEF HealthInv, RecordsOK
    <2>2. ~NoBetter(health[v], health'[v])
      BY <2>1 DEF NoBetter, Records
    <2>3. QED
      BY <2>1, <2>2 DEF RecordStep
  <1>2. QED
    BY <1>1, HealthInvariant, PTL DEF Spec, FailureNeverShortensCooldown
=============================================================================
