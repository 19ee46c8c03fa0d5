---------------------------- MODULE HealthLadder ----------------------------
(***************************************************************************)
(* The rules of internal/router/health.go that fold one outcome into one   *)
(* vendor's record, as operators on that record.  Time is counted in ticks *)
(* and a cooldown is kept as the ticks it still has to run: openUntil is   *)
(* only ever compared with the current time.                               *)
(***************************************************************************)
EXTENDS Integers, FiniteSets

CONSTANTS
    FailThreshold,          \* consecutive failures that demote
    ClientFailThreshold,    \* distinct sessions with a 4xx that demote
    DeadAfter,              \* consecutive demotions that mark dead
    Cooldown,               \* the first demotion's cooldown
    CooldownMax,            \* the ceiling of the backoff
    Sessions                \* the agent sessions clients identify

ASSUME ThresholdsPositive ==
    /\ FailThreshold \in Nat \ {0}
    /\ ClientFailThreshold \in Nat \ {0}
    /\ DeadAfter \in Nat \ {0}
ASSUME CooldownsOrdered ==
    /\ Cooldown \in Nat \ {0}
    /\ CooldownMax \in Nat
    /\ Cooldown <= CooldownMax
ASSUME SessionsFinite == IsFiniteSet(Sessions)

ClientFailMax == ClientFailThreshold + DeadAfter

(* What Classify can say of an attempt. *)
VendorFailures == {"fail", "failHard", "failCredential"}
Signals == VendorFailures \cup {"ok", "failModel", "failClient", "neutral"}

(* vendorHealth; a vendor with no entry in the map reads the same as Fresh. *)
Fresh == [consecFail |-> 0, cooling |-> 0, demotions |-> 0,
          dead |-> FALSE, clientFails |-> {}]

(* The loop of nextCooldown: double the base once per earlier demotion,    *)
(* stopping at the ceiling.                                                *)
Doubled[n \in Nat] ==
    IF n <= 1 THEN Cooldown
    ELSE IF Doubled[n - 1] < CooldownMax THEN 2 * Doubled[n - 1]
    ELSE Doubled[n - 1]

NextCooldown(demotions) ==
    IF Doubled[demotions] > CooldownMax THEN CooldownMax ELSE Doubled[demotions]

(* demoteLocked *)
Demote_DeadNeedsNoCooldown(h) ==
    [h EXCEPT !.demotions = @ + 1,
              !.cooling = IF h.demotions + 1 >= DeadAfter THEN 0 ELSE NextCooldown(h.demotions + 1),
              !.dead = @ \/ h.demotions + 1 >= DeadAfter]
Demote(h) ==
    [h EXCEPT !.demotions = @ + 1,
              !.cooling = NextCooldown(h.demotions + 1),
              !.dead = @ \/ h.demotions + 1 >= DeadAfter]

(* applyReport, SignalOK: proof beats any amount of suspicion. *)
Succeed(h) == Fresh

(* applyReport, a failure: a conclusive one counts for the full threshold, *)
(* and the streak is not reset by the demotion it causes (probation).      *)
Streak(h, sig) ==
    IF sig # "fail" /\ h.consecFail + 1 < FailThreshold
    THEN FailThreshold ELSE h.consecFail + 1

Fail_ResetsStreak(h, sig) ==
    IF Streak(h, sig) >= FailThreshold
    THEN Demote([h EXCEPT !.consecFail = 0])
    ELSE [h EXCEPT !.consecFail = Streak(h, sig)]
Fail(h, sig) ==
    LET counted == [h EXCEPT !.consecFail = Streak(h, sig)]
    IN IF counted.consecFail >= FailThreshold THEN Demote(counted) ELSE counted

(* applyClientFail: only a session not yet on record moves the ladder, and *)
(* the set stops growing at its cap.                                       *)
FailClient(h, s) ==
    IF s \in h.clientFails \/ Cardinality(h.clientFails) >= ClientFailMax THEN h
    ELSE LET noted == [h EXCEPT !.clientFails = @ \cup {s}]
         IN IF Cardinality(noted.clientFails) < ClientFailThreshold
            THEN noted ELSE Demote(noted)

(* healthRank *)
Live == 0
Cooling == 1
Dead == 2

HealthRank(h) == IF h.dead THEN Dead ELSE IF h.cooling > 0 THEN Cooling ELSE Live

(* A tick of the clock brings every cooldown closer to its end. *)
Elapse_Forgives(h) == IF h.cooling = 1 THEN Fresh ELSE [h EXCEPT !.cooling = IF @ > 0 THEN @ - 1 ELSE 0]
Elapse(h) == [h EXCEPT !.cooling = IF @ > 0 THEN @ - 1 ELSE 0]
=============================================================================
