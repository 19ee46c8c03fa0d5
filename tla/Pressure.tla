------------------------------ MODULE Pressure ------------------------------
(***************************************************************************)
(* The pressure monitor (internal/pressure): each sample reads memory, the *)
(* disk, I/O pressure, the ledger's write lag and its capture backlog, and *)
(* moves the level of shed bookkeeping: up at once, down after a cooldown. *)
(* Time is counted from event to event, in sampling intervals.             *)
(***************************************************************************)
EXTENDS Integers, FiniteSets, FiniteSetsExt

CONSTANTS
    Readings,           \* what a sample may read, see Over
    Lines,              \* the thresholds; 0 disables a signal
    Absent,             \* a signal that cannot be read; below every reading
    Cooldown,
    MaxGap              \* bound: intervals between two samples

ASSUME CooldownPositive == Cooldown \in Nat \ {0} /\ MaxGap \in Nat

VARIABLES
    level, reason,
    clear,              \* time since clearAt, or NotClear
    last,               \* the last reading
    seen                \* history: what the samples of the last cooldown asked for

pressureVars == <<level, reason, clear, last, seen>>

Normal == 0
ShedCapture == 1
ShedAnalysis == 2
NotClear == -1

(* The signals past their line, with the level each asks for.  Memory asks for
   the deeper level only below the lower of its two lines. *)
Over(r) ==
    LET below(x, line) == x # Absent /\ line > 0 /\ x < line
        atLeast(x, line) == x # Absent /\ line > 0 /\ x >= line
    IN  (IF below(r.mem, Lines.memAnalysis) THEN {<<ShedAnalysis, "memory">>}
         ELSE IF below(r.mem, Lines.memCapture) THEN {<<ShedCapture, "memory">>} ELSE {})
        \cup {<<ShedCapture, s>> : s \in
               {t \in {"disk", "io_pressure", "write_lag", "capture_backlog"} :
                   CASE t = "disk" -> below(r.disk, Lines.diskFree)
                     [] t = "io_pressure" -> atLeast(r.io, Lines.io)
                     [] t = "write_lag" -> atLeast(r.lag, Lines.writeLag)
                     [] t = "capture_backlog" -> atLeast(2 * r.backlog, Lines.budget)}}

Target(r) == Max({Normal} \cup {s[1] : s \in Over(r)})
Reasons(r) == IF Over(r) = {} THEN {""} ELSE {s[2] : s \in {t \in Over(r) : t[1] = Target(r)}}

(* New takes one reading before anyone asks. *)
PressureInit ==
    /\ last = CHOOSE r \in Readings : Over(r) = {}
    /\ level = Normal /\ reason = ""
    /\ clear = NotClear
    /\ seen = {}

Aged(gap) == {[target |-> s.target, age |-> s.age + gap] : s \in seen}

(* The cooldown runs from the first reading below the current level, and a
   reading at the level stops it. *)
StaysClear_Hovering(target) == target < level \/ clear # NotClear
StaysClear(target) == target < level

(* sample *)
Sample(gap, r) ==
    LET target == Target(r)
        since == IF clear = NotClear THEN 0 ELSE clear + gap
        moves == target > level \/ (target < level /\ since >= Cooldown)
    IN  /\ level' = IF moves THEN target ELSE level
        /\ clear' = IF StaysClear(target) /\ ~moves THEN since ELSE NotClear
        /\ reason' \in IF moves \/ (target = level /\ target # Normal) THEN Reasons(r)
                       ELSE {reason}
        /\ last' = r
        /\ seen' = {s \in Aged(gap) : s.age < Cooldown} \cup {[target |-> target, age |-> 0]}

PressureNext == \E gap \in 1..MaxGap, r \in Readings : Sample(gap, r)

-----------------------------------------------------------------------------
(* Properties *)

(* The level is never below what the last sample asks for, and it steps down
   only when no sample of a whole cooldown asked for as much as it still shed.
   It may step to less than those samples asked for: after a cooldown at one
   level below, a single clear reading restores everything, although the
   package comment has the readings stay clear for a cooldown (pressure.go:50
   and sample). *)
ShedsAtOnceRestoresSlowly ==
    [][/\ level' >= Target(last')
       /\ level' < level => \A s \in seen' : s.target < level]_<<level, last, seen>>
=============================================================================
