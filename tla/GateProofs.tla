----------------------------- MODULE GateProofs -----------------------------
(***************************************************************************)
(* What Gate guarantees for every set of callers and every set of limits.  *)
(* The inductive invariant is SlotInv: the counter equals the number of    *)
(* holders (so release never decrements below the truth), and a forgotten  *)
(* limit implies a zero counter (so the pool's Leave may drop its bound).  *)
(***************************************************************************)
EXTENDS Gate, FiniteSetTheorems, SequenceTheorems, TLAPS

LEMMA HoldersFinite == IsFiniteSet(Holders) /\ Cardinality(Holders) \in Nat
  <1>1. Holders \subseteq Callers
    BY DEF Holders
  <1>2. QED
    BY <1>1, CallersFinite, FS_Subset, FS_CardinalityType

(* The queue only ever loses a prefix or one element, or gains a caller. *)
LEMMA WakeType ==
  ASSUME queue \in Seq(Callers), orphans \subseteq Callers, NEW n \in Nat, Wake(n)
  PROVE  queue' \in Seq(Callers) /\ orphans' \subseteq Callers
  <1>1. SubSeq(queue, n + 1, Len(queue)) \in Seq(Callers)
    OBVIOUS
  <1>2. QED
    BY <1>1 DEF Wake

LEMMA WithdrawType ==
  ASSUME queue \in Seq(Callers), orphans \subseteq Callers, NEW c, Withdraw(c)
  PROVE  queue' \in Seq(Callers) /\ orphans' \subseteq Callers
  <1>1. PICK i \in 1..Len(queue) :
           /\ queue' = SubSeq(queue, 1, i - 1) \o SubSeq(queue, i + 1, Len(queue))
           /\ orphans' = orphans \ {c}
    BY DEF Withdraw
  <1>2. /\ SubSeq(queue, 1, i - 1) \in Seq(Callers)
        /\ SubSeq(queue, i + 1, Len(queue)) \in Seq(Callers)
    OBVIOUS
  <1>3. QED
    BY <1>1, <1>2, ConcatProperties

LEMMA HeadroomType ==
  ASSUME limit \in Limits \cup {NoLimit}, NEW l \in Limits
  PROVE  Headroom(l) \in Nat
  BY LimitsPositive DEF Headroom, NoLimit

LEMMA AbandonType ==
  ASSUME TypeOK, NEW c \in Callers, Abandon(c)
  PROVE  TypeOK'
  <1>1. queue' \in Seq(Callers) /\ orphans' \subseteq Callers
    <2>1. CASE Withdraw(c)
      BY <2>1, WithdrawType DEF TypeOK
    <2>2. CASE PassOn(c)
      BY <2>2, WakeType DEF TypeOK, PassOn
    <2>3. QED
      BY <2>1, <2>2 DEF Abandon
  <1>2. QED
    BY <1>1 DEF TypeOK, Abandon, Places

(* Every action keeps every variable in its type, whatever the callers     *)
(* and the limits: in particular the counter of release never goes below   *)
(* zero (gate.go:188-191).                                                 *)
THEOREM GateTypeCorrect == Spec => []TypeOK
  <1>1. Init => TypeOK
    BY DEF Init, TypeOK, Places
  <1>2. TypeOK /\ [Next]_vars => TypeOK'
    <2> SUFFICES ASSUME TypeOK, [Next]_vars
                 PROVE  TypeOK'
      OBVIOUS
    <2>1. ASSUME NEW c \in Callers, NEW l \in Limits, Observe(c, l)
          PROVE  TypeOK'
      <3>1. queue' \in Seq(Callers) /\ orphans' \subseteq Callers
        BY <2>1, WakeType, HeadroomType DEF TypeOK, Observe
      <3>2. QED
        BY <2>1, <3>1 DEF TypeOK, Observe, Places
    <2>2. ASSUME NEW c \in Callers, Admit(c)
          PROVE  TypeOK'
      BY <2>2 DEF TypeOK, Admit, Places
    <2>3. ASSUME NEW c \in Callers, Enqueue(c)
          PROVE  TypeOK'
      BY <2>3 DEF TypeOK, Enqueue, Places
    <2>4. ASSUME NEW c \in Callers, Resume(c)
          PROVE  TypeOK'
      BY <2>4 DEF TypeOK, Resume, Places
    <2>5. ASSUME NEW c \in Callers, GiveUp(c)
          PROVE  TypeOK'
      BY <2>5 DEF TypeOK, GiveUp, Places
    <2>6. ASSUME NEW c \in Callers, Abandon(c)
          PROVE  TypeOK'
      BY <2>6, AbandonType
    <2>7. ASSUME NEW c \in Callers, Release(c)
          PROVE  TypeOK'
      <3>1. queue' \in Seq(Callers) /\ orphans' \subseteq Callers
        BY <2>7, WakeType DEF TypeOK, Release, WakeOnRelease
      <3>2. QED
        BY <2>7, <3>1 DEF TypeOK, Release, OneFewer, Places
    <2>8. CASE UNCHANGED vars
      BY <2>8 DEF TypeOK, vars
    <2>9. QED
      BY <2>1, <2>2, <2>3, <2>4, <2>5, <2>6, <2>7, <2>8 DEF Next
  <1>3. QED
    BY <1>1, <1>2, PTL DEF Spec
-----------------------------------------------------------------------------

SlotInv ==
    /\ SlotAccounting
    /\ limit = NoLimit => inFlight = 0

(* Who enters and who leaves, action by action. *)
LEMMA AdmitHolders ==
  ASSUME TypeOK, NEW c \in Callers, Admit(c)
  PROVE  /\ c \notin Holders
         /\ Holders' = Holders \cup {c}
         /\ Cardinality(Holders') = Cardinality(Holders) + 1
  <1>1. c \notin Holders /\ Holders' = Holders \cup {c}
    BY DEF TypeOK, Admit, Holders
  <1>2. QED
    BY <1>1, HoldersFinite, FS_AddElement

LEMMA ReleaseHolders ==
  ASSUME TypeOK, NEW c \in Callers, Release(c)
  PROVE  /\ c \in Holders
         /\ Holders' = Holders \ {c}
         /\ Cardinality(Holders') = Cardinality(Holders) - 1
  <1>1. c \in Holders /\ Holders' = Holders \ {c}
    BY DEF TypeOK, Release, Holders
  <1>2. QED
    BY <1>1, HoldersFinite, FS_RemoveElement

LEMMA OtherHolders ==
  ASSUME TypeOK, NEW c \in Callers,
         \/ \E l \in Limits : Observe(c, l)
         \/ Enqueue(c)
         \/ Resume(c)
         \/ GiveUp(c)
         \/ Abandon(c)
  PROVE  /\ Holders' = Holders
         /\ inFlight' = inFlight
         /\ limit' \in Limits \/ limit' = limit
  BY DEF TypeOK, Holders, Observe, Enqueue, Resume, GiveUp, Abandon

LEMMA SlotInvInductive == TypeOK /\ SlotInv /\ [Next]_vars => SlotInv'
  <1> SUFFICES ASSUME TypeOK, SlotInv, [Next]_vars
               PROVE  SlotInv'
    OBVIOUS
  <1>1. ASSUME NEW c \in Callers, Admit(c)
        PROVE  SlotInv'
    <2>1. inFlight' = Cardinality(Holders')
      BY <1>1, AdmitHolders DEF SlotInv, SlotAccounting, Admit
    <2>2. limit' # NoLimit
      BY <1>1 DEF Admit, HasRoom, TypeOK, NoLimit
    <2>3. QED
      BY <2>1, <2>2 DEF SlotInv, SlotAccounting
  <1>2. ASSUME NEW c \in Callers, Release(c)
        PROVE  SlotInv'
    <2>1. inFlight = Cardinality(Holders) /\ c \in Holders
      BY <1>2, ReleaseHolders DEF SlotInv, SlotAccounting
    <2>2. inFlight >= 1
      BY <2>1, HoldersFinite, FS_EmptySet
    <2>3. inFlight' = inFlight - 1
      BY <1>2, <2>2 DEF Release, OneFewer, TypeOK
    <2>4. limit' = NoLimit => inFlight' = 0
      BY <1>2, <2>2, <2>3 DEF Release, ForgetsLimit, SlotInv, TypeOK
    <2>5. QED
      BY <1>2, <2>1, <2>3, <2>4, ReleaseHolders DEF SlotInv, SlotAccounting
  <1>3. ASSUME NEW c \in Callers,
               \/ \E l \in Limits : Observe(c, l)
               \/ Enqueue(c)
               \/ Resume(c)
               \/ GiveUp(c)
               \/ Abandon(c)
        PROVE  SlotInv'
    BY <1>3, OtherHolders, LimitsPositive DEF SlotInv, SlotAccounting, NoLimit
  <1>4. CASE UNCHANGED vars
    BY <1>4 DEF vars, SlotInv, SlotAccounting, Holders
  <1>5. QED
    BY <1>1, <1>2, <1>3, <1>4 DEF Next

LEMMA InitSlotInv == Init => SlotInv
  <1> SUFFICES ASSUME Init PROVE SlotInv
    OBVIOUS
  <1>1. Holders = {}
    BY DEF Init, Holders
  <1>2. QED
    BY <1>1, FS_EmptySet DEF Init, SlotInv, SlotAccounting

LEMMA SlotInvAlways == Spec => []SlotInv
  <1>1. QED
    BY InitSlotInv, SlotInvInductive, GateTypeCorrect, PTL DEF Spec

(* The slot counter is exact in every reachable state: nothing that        *)
(* Acquire, release or abandon do, in any order, leaks or frees a slot     *)
(* twice (gate.go:107-110, 184-200).                                       *)
THEOREM SlotsAreExact == Spec => []SlotAccounting
  <1>1. SlotInv => SlotAccounting
    BY DEF SlotInv
  <1>2. QED
    BY <1>1, SlotInvAlways, PTL

LEMMA SlotInvForgotten == SlotInv => ForgottenOnlyWhenIdle
  BY HoldersFinite, FS_EmptySet DEF SlotInv, SlotAccounting, ForgottenOnlyWhenIdle

(* Release alone forgets a limit, and only when the queue is empty.        *)
LEMMA OnlyReleaseForgets ==
  ASSUME TypeOK, [Next]_vars, limit # NoLimit, limit' = NoLimit
  PROVE  queue = <<>> /\ queue' = <<>>
  <1>1. PICK c \in Callers : Release(c)
    <2>1. limit' # limit
      OBVIOUS
    <2>2. ASSUME NEW c \in Callers, NEW l \in Limits, Observe(c, l)
          PROVE  FALSE
      BY <2>2, LimitsPositive DEF Observe, NoLimit
    <2>3. QED
      BY <2>1, <2>2 DEF Next, vars, Admit, Enqueue, Resume, GiveUp, Abandon
  <1>2. queue = <<>>
    BY <1>1 DEF Release, ForgetsLimit
  <1>3. queue' = <<>>
    BY <1>1, <1>2 DEF Release, WakeOnRelease, Wake
  <1>4. QED
    BY <1>2, <1>3

(* While anyone is in flight the limit is on record, and the step that     *)
(* deletes it leaves nobody in flight and finds nobody queued to be woken  *)
(* (gate.go:190-198).                                                      *)
THEOREM LimitForgottenWhenIdle ==
    Spec => []ForgottenOnlyWhenIdle /\ [][ForgetsNobodyWaiting]_vars
  <1>1. TypeOK /\ SlotInv /\ SlotInv' /\ [Next]_vars => [ForgetsNobodyWaiting]_vars
    <2> SUFFICES ASSUME TypeOK, SlotInv', [Next]_vars, limit # NoLimit, limit' = NoLimit
                 PROVE  Holders' = {} /\ queue = <<>> /\ queue' = <<>>
      BY DEF ForgetsNobodyWaiting
    <2>1. ForgottenOnlyWhenIdle'
      BY SlotInvForgotten, PTL
    <2>2. QED
      BY <2>1, OnlyReleaseForgets DEF ForgottenOnlyWhenIdle
  <1>2. QED
    BY <1>1, SlotInvForgotten, SlotInvAlways, GateTypeCorrect, PTL DEF Spec

-----------------------------------------------------------------------------

(* Every step of the gate is a step of the abstract pool or leaves the     *)
(* pool alone: queueing, waking and abandoning are invisible to it.        *)
THEOREM GateImplementsPool == Spec => ImplementsPool
  <1>1. Init => Pool!PoolInit
    BY DEF Init, Pool!PoolInit, Pool!NoLimit, NoLimit, Holders
  <1>2. TypeOK /\ SlotInv /\ [Next]_vars => [Pool!PoolNext]_<<Holders, limit>>
    <2> SUFFICES ASSUME TypeOK, SlotInv, [Next]_vars
                 PROVE  Pool!PoolNext \/ UNCHANGED <<Holders, limit>>
      OBVIOUS
    <2>1. ASSUME NEW c \in Callers, Admit(c)
          PROVE  Pool!Enter(c)
      BY <2>1, AdmitHolders DEF Pool!Enter, Admit, HasRoom, SlotInv, SlotAccounting,
                              Cardinality, Pool!Cardinality
    <2>2. ASSUME NEW c \in Callers, Release(c)
          PROVE  Pool!Leave(c)
      <3>1. c \in Holders /\ Holders' = Holders \ {c}
        BY <2>2, ReleaseHolders
      <3>2. limit' # limit => limit' = NoLimit /\ inFlight <= 1
        BY <2>2 DEF Release, ForgetsLimit
      <3>3. inFlight <= 1 => Cardinality(Holders') = 0
        <4>1. Cardinality(Holders') = Cardinality(Holders) - 1 /\ IsFiniteSet(Holders')
          BY <2>2, <3>1, ReleaseHolders, HoldersFinite, FS_RemoveElement
        <4>2. Cardinality(Holders') \in Nat
          BY <4>1, FS_CardinalityType
        <4>3. QED
          BY <4>1, <4>2, HoldersFinite DEF SlotInv, SlotAccounting
      <3>4. Cardinality(Holders') = 0 => Holders' = {}
        BY <3>1, HoldersFinite, FS_RemoveElement, FS_EmptySet
      <3>5. QED
        BY <3>1, <3>2, <3>3, <3>4 DEF Pool!Leave, Pool!NoLimit, NoLimit
    <2>3. ASSUME NEW c \in Callers,
                 \/ \E l \in Limits : Observe(c, l)
                 \/ Enqueue(c)
                 \/ Resume(c)
                 \/ GiveUp(c)
                 \/ Abandon(c)
          PROVE  Pool!SetBound \/ UNCHANGED <<Holders, limit>>
      BY <2>3, OtherHolders DEF Pool!SetBound
    <2>4. CASE UNCHANGED vars
      BY <2>4 DEF vars, Holders
    <2>5. QED
      BY <2>1, <2>2, <2>3, <2>4 DEF Next, Pool!PoolNext
  <1>3. QED
    BY <1>1, <1>2, GateTypeCorrect, SlotInvAlways, PTL
    DEF Spec, ImplementsPool, Pool!PoolSpec, Pool!poolVars
-----------------------------------------------------------------------------

(***************************************************************************)
(* No slot stays empty behind the queue.  WorkConserving counts callers    *)
(* that left the queue (InTransit), so its proof has to know that waking n *)
(* channels puts n different callers on their way: the queue repeats       *)
(* nobody, everybody in it is parked in the select, and a credential whose *)
(* limit was forgotten is queued for only by callers that found none.      *)
(***************************************************************************)
QueueInv ==
    /\ \A i, j \in 1..Len(queue) : queue[i] = queue[j] => i = j
    /\ \A i \in 1..Len(queue) : pc[queue[i]] \in {"waiting", "leaving"}
    /\ orphans \subseteq Queued
    /\ limit = NoLimit => Queued \subseteq orphans

(* The callers whose channels the next n wake-ups close. *)
Leading(n) == {queue[i] : i \in 1..Len(queue) \cap 1..n}

LEMMA QueuedIs ==
  ASSUME queue \in Seq(Callers)
  PROVE  Queued = {queue[i] : i \in 1..Len(queue)} /\ Queued \subseteq Callers
  BY DEF Queued, Range

LEMMA NextQueuedIs ==
  ASSUME queue' \in Seq(Callers)
  PROVE  Queued' = {queue'[i] : i \in 1..Len(queue')} /\ Queued' \subseteq Callers
  BY DEF Queued, Range

LEMMA InTransitFinite == IsFiniteSet(InTransit) /\ Cardinality(InTransit) \in Nat
  <1>1. InTransit \subseteq Callers
    BY DEF InTransit, Woken
  <1>2. QED
    BY <1>1, CallersFinite, FS_Subset, FS_CardinalityType

(* n wake-ups: what is left is the queue without its first n channels. *)
LEMMA WakeShift ==
  ASSUME queue \in Seq(Callers), NEW n \in Nat, Wake(n)
  PROVE  /\ queue' \in Seq(Callers)
         /\ Len(queue') = IF n <= Len(queue) THEN Len(queue) - n ELSE 0
         /\ \A i \in 1..Len(queue') : n + i \in 1..Len(queue) /\ queue'[i] = queue[n + i]
  <1>1. queue' = SubSeq(queue, n + 1, Len(queue))
    BY DEF Wake
  <1>2. Len(queue) \in Nat /\ \A i \in 1..Len(queue) : queue[i] \in Callers
    OBVIOUS
  <1>3. /\ queue' \in Seq(Callers)
        /\ Len(queue') = IF n + 1 <= Len(queue) THEN Len(queue) - (n + 1) + 1 ELSE 0
        /\ \A i \in 1..(Len(queue) - (n + 1) + 1) : queue'[i] = queue[(n + 1) + i - 1]
    BY <1>1, <1>2, SubSeqProperties
  <1>4. QED
    BY <1>2, <1>3

LEMMA WakeLeaves ==
  ASSUME TypeOK, QueueInv, NEW n \in Nat, Wake(n)
  PROVE  /\ Queued' = Queued \ Leading(n)
         /\ orphans' = orphans \ Leading(n)
         /\ Leading(n) \subseteq Queued
         /\ \A i, j \in 1..Len(queue') : queue'[i] = queue'[j] => i = j
  <1>1. queue \in Seq(Callers) /\ Len(queue) \in Nat
    BY DEF TypeOK
  <1>2. /\ queue' \in Seq(Callers)
        /\ Len(queue') = IF n <= Len(queue) THEN Len(queue) - n ELSE 0
        /\ \A i \in 1..Len(queue') : n + i \in 1..Len(queue) /\ queue'[i] = queue[n + i]
    BY <1>1, WakeShift
  <1>3. Queued = {queue[i] : i \in 1..Len(queue)}
    BY <1>1, QueuedIs
  <1>4. Queued' = {queue'[i] : i \in 1..Len(queue')}
    BY <1>2, NextQueuedIs
  <1>5. ASSUME NEW d \in Queued' PROVE d \in Queued \ Leading(n)
    <2>1. PICK i \in 1..Len(queue') : d = queue'[i]
      BY <1>4
    <2>2. n + i \in 1..Len(queue) /\ d = queue[n + i] /\ n + i > n
      BY <1>2, <2>1
    <2>3. \A j \in 1..Len(queue) : queue[j] = d => j = n + i
      BY <2>2 DEF QueueInv
    <2>4. d \notin Leading(n)
      BY <2>2, <2>3 DEF Leading
    <2>5. QED
      BY <1>3, <2>2, <2>4
  <1>6. ASSUME NEW d \in Queued \ Leading(n) PROVE d \in Queued'
    <2>1. PICK j \in 1..Len(queue) : d = queue[j]
      BY <1>3
    <2>2. j > n
      BY <1>1, <2>1 DEF Leading
    <2>3. j - n \in 1..Len(queue') /\ n + (j - n) = j
      BY <1>1, <1>2, <2>2
    <2>4. queue'[j - n] = d
      BY <1>2, <2>1, <2>3
    <2>5. QED
      BY <1>4, <2>3, <2>4
  <1>7. \A i, j \in 1..Len(queue') : queue'[i] = queue'[j] => i = j
    <2> SUFFICES ASSUME NEW i \in 1..Len(queue'), NEW j \in 1..Len(queue'),
                        queue'[i] = queue'[j]
                 PROVE  i = j
      OBVIOUS
    <2>1. queue[n + i] = queue[n + j] /\ n + i \in 1..Len(queue) /\ n + j \in 1..Len(queue)
      BY <1>2
    <2>2. n + i = n + j
      BY <2>1 DEF QueueInv
    <2>3. QED
      BY <1>2, <2>2
  <1>8. Leading(n) \subseteq Queued /\ orphans' = orphans \ Leading(n)
    BY <1>3 DEF Leading, Wake
  <1>9. QED
    BY <1>5, <1>6, <1>7, <1>8

(* When somebody is left behind, n wake-ups closed n different channels. *)
LEMMA WakesThatMany ==
  ASSUME TypeOK, QueueInv, NEW n \in Nat, Wake(n), Queued' # {}
  PROVE  IsFiniteSet(Leading(n)) /\ Cardinality(Leading(n)) = n
  <1>1. queue \in Seq(Callers) /\ Len(queue) \in Nat
    BY DEF TypeOK
  <1>2. n < Len(queue)
    <2>1. queue' \in Seq(Callers) /\ Len(queue') \in Nat
      BY <1>1, WakeShift
    <2>2. 1..Len(queue') # {}
      BY <2>1, NextQueuedIs
    <2>3. QED
      BY <1>1, <2>1, <2>2, WakeShift
  <1>3. Leading(n) = {queue[i] : i \in 1..n}
    BY <1>1, <1>2 DEF Leading
  <1>4. PICK f : f = [i \in 1..n |-> queue[i]]
    OBVIOUS
  <1>5. \A i, j \in 1..n : f[i] = f[j] => i = j
    BY <1>1, <1>2, <1>4 DEF QueueInv
  <1>6. f \in [1..n -> Leading(n)] /\ \A d \in Leading(n) : \E i \in 1..n : f[i] = d
    BY <1>3, <1>4
  <1>7. f \in Bijection(1..n, Leading(n))
    BY <1>5, <1>6 DEF Bijection, Injection, Surjection, IsInjective
  <1>8. IsFiniteSet(1..n) /\ Cardinality(1..n) = n
    BY FS_Interval
  <1>9. QED
    BY <1>7, <1>8, FS_Bijection DEF ExistsBijection

LEMMA DisjointUnion ==
  ASSUME NEW S, NEW T, IsFiniteSet(S), IsFiniteSet(T), S \cap T = {}
  PROVE  IsFiniteSet(S \cup T) /\ Cardinality(S \cup T) = Cardinality(S) + Cardinality(T)
  <1>1. Cardinality(S \cap T) = 0
    BY FS_EmptySet
  <1>2. Cardinality(S) \in Nat /\ Cardinality(T) \in Nat
    BY FS_CardinalityType
  <1>3. PICK both : both = S \cap T
    OBVIOUS
  <1>4. Cardinality(both) = 0
    BY <1>1, <1>3
  <1>5. /\ IsFiniteSet(S \cup T)
        /\ Cardinality(S \cup T) = Cardinality(S) + Cardinality(T) - Cardinality(both)
    BY <1>3, FS_Union
  <1>6. QED
    BY <1>2, <1>4, <1>5

(* Wake-ups put their callers on their way, whatever happens to one caller *)
(* that is not in the queue.                                               *)
LEMMA WakeTransit ==
  ASSUME TypeOK, QueueInv, NEW n \in Nat, Wake(n), Queued' # {},
         NEW c \in Callers, c \notin Queued, NEW place \in Places,
         pc' = [pc EXCEPT ![c] = place]
  PROVE  /\ (InTransit \cup Leading(n)) \ {c} \subseteq InTransit'
         /\ place = "trying" => c \in InTransit'
         /\ IsFiniteSet(InTransit \cup Leading(n))
         /\ Cardinality(InTransit \cup Leading(n)) = Cardinality(InTransit) + n
  <1>1. /\ Queued' = Queued \ Leading(n) /\ Leading(n) \subseteq Queued
        /\ IsFiniteSet(Leading(n)) /\ Cardinality(Leading(n)) = n
    BY WakeLeaves, WakesThatMany
  <1>2. \A d \in Queued : pc[d] \in {"waiting", "leaving"} /\ d \in Callers
    BY QueuedIs DEF QueueInv, TypeOK
  <1>3. InTransit \cap Leading(n) = {}
    BY <1>1, <1>2 DEF InTransit, Woken
  <1>4. /\ IsFiniteSet(InTransit \cup Leading(n))
        /\ Cardinality(InTransit \cup Leading(n)) = Cardinality(InTransit) + n
    BY <1>1, <1>3, InTransitFinite, DisjointUnion
  <1>5. \A d \in Callers \ {c} : pc'[d] = pc[d]
    BY DEF TypeOK
  <1>6. ASSUME NEW d \in (InTransit \cup Leading(n)) \ {c} PROVE d \in InTransit'
    <2>1. CASE d \in Leading(n)
      BY <1>1, <1>2, <1>5, <1>6, <2>1 DEF InTransit, Woken
    <2>2. CASE d \in InTransit
      BY <1>1, <1>5, <1>6, <2>2 DEF InTransit, Woken
    <2>3. QED
      BY <1>6, <2>1, <2>2
  <1>7. place = "trying" => c \in InTransit'
    BY DEF TypeOK, InTransit
  <1>8. QED
    BY <1>4, <1>6, <1>7

LEMMA NextInTransitFinite == IsFiniteSet(InTransit') /\ Cardinality(InTransit') \in Nat
  <1>1. InTransit' \subseteq Callers
    BY DEF InTransit, Woken
  <1>2. QED
    BY <1>1, CallersFinite, FS_Subset, FS_CardinalityType

(* A wake-up while one caller leaves (release, or a caller that gives its  *)
(* spent wake-up back): the loss and the gain cancel.                      *)
LEMMA WakeKeeps ==
  ASSUME TypeOK, QueueInv, NEW n \in Nat, Wake(n), Queued' # {},
         NEW c \in Callers, c \notin Queued, NEW place \in Places,
         pc' = [pc EXCEPT ![c] = place]
  PROVE  Cardinality(InTransit') >= Cardinality(InTransit \ {c}) + n
  <1>1. /\ (InTransit \cup Leading(n)) \ {c} \subseteq InTransit'
        /\ Leading(n) \subseteq Queued
        /\ IsFiniteSet(InTransit \cup Leading(n))
        /\ Cardinality(InTransit \cup Leading(n)) = Cardinality(InTransit) + n
    BY WakeTransit, WakeLeaves
  <1>2. PICK both : both = InTransit \cup Leading(n)
    OBVIOUS
  <1>3. c \in both <=> c \in InTransit
    BY <1>1, <1>2
  <1>4. /\ Cardinality(both \ {c}) =
             IF c \in both THEN Cardinality(both) - 1 ELSE Cardinality(both)
        /\ Cardinality(InTransit \ {c}) =
             IF c \in InTransit THEN Cardinality(InTransit) - 1 ELSE Cardinality(InTransit)
    BY <1>1, <1>2, InTransitFinite, FS_RemoveElement
  <1>5. Cardinality(both \ {c}) <= Cardinality(InTransit') /\ Cardinality(both \ {c}) \in Nat
    <2>1. IsFiniteSet(both \ {c}) /\ both \ {c} \in SUBSET (InTransit')
      BY <1>1, <1>2, FS_RemoveElement
    <2>2. QED
      BY <2>1, NextInTransitFinite, FS_Subset, FS_CardinalityType
  <1>6. Cardinality(both) = Cardinality(InTransit) + n
    BY <1>1, <1>2
  <1>7. QED
    BY <1>3, <1>4, <1>5, <1>6, InTransitFinite, NextInTransitFinite

(* The strengthened invariant, action by action. *)
Conserving == QueueInv /\ WorkConserving

LEMMA KeptByWake ==
  ASSUME TypeOK, QueueInv, NEW n \in Nat, Wake(n), NEW c \in Callers, c \notin Queued,
         NEW place \in Places, pc' = [pc EXCEPT ![c] = place],
         limit' # NoLimit \/ queue' = <<>> \/ limit' = limit
  PROVE  QueueInv'
  <1>1. /\ Queued' = Queued \ Leading(n) /\ orphans' = orphans \ Leading(n)
        /\ \A i, j \in 1..Len(queue') : queue'[i] = queue'[j] => i = j
    BY WakeLeaves
  <1>2. queue' \in Seq(Callers) /\ Queued' = {queue'[i] : i \in 1..Len(queue')}
    BY WakeShift, NextQueuedIs DEF TypeOK
  <1>3. \A d \in Queued : pc[d] \in {"waiting", "leaving"} /\ d \in Callers
    BY QueuedIs DEF QueueInv, TypeOK
  <1>4. \A d \in Queued' : pc'[d] \in {"waiting", "leaving"}
    BY <1>1, <1>3 DEF TypeOK
  <1>5. orphans' \subseteq Queued'
    BY <1>1 DEF QueueInv
  <1>6. limit' = NoLimit => Queued' \subseteq orphans'
    <2>1. queue' = <<>> => Queued' = {}
      BY <1>2
    <2>2. QED
      BY <1>1, <2>1 DEF QueueInv
  <1>7. QED
    BY <1>1, <1>2, <1>4, <1>5, <1>6 DEF QueueInv

LEMMA ObserveConserves ==
  ASSUME TypeOK, Conserving, NEW c \in Callers, NEW l \in Limits, Observe(c, l)
  PROVE  Conserving'
  <1>1. /\ Wake(Headroom(l)) /\ Headroom(l) \in Nat /\ l \in Nat \ {0} /\ limit' = l
        /\ pc' = [pc EXCEPT ![c] = "trying"] /\ "trying" \in Places /\ inFlight' = inFlight
    BY HeadroomType, LimitsPositive DEF Observe, TypeOK, Places
  <1>2. QueueInv /\ c \notin Queued /\ c \notin InTransit
    BY QueuedIs DEF Conserving, QueueInv, TypeOK, Observe, InTransit, Woken
  <1>3. QueueInv'
    BY <1>1, <1>2, KeptByWake DEF NoLimit
  <1>4. WorkConserving'
    <2> SUFFICES ASSUME NEW d \in Queued', d \notin orphans'
                 PROVE  inFlight' + Cardinality(InTransit') >= limit'
      BY DEF WorkConserving
    <2>1. d \in Queued /\ d \notin orphans /\ Queued' # {}
      BY <1>1, <1>2, WakeLeaves
    <2>2. limit # NoLimit /\ inFlight + Cardinality(InTransit) >= limit
      BY <2>1 DEF Conserving, QueueInv, WorkConserving
    <2>3. Cardinality(InTransit') >= Cardinality(InTransit \ {c}) + Headroom(l)
      BY <1>1, <1>2, <2>1, WakeKeeps
    <2>4. Cardinality(InTransit \ {c}) = Cardinality(InTransit)
      BY <1>2, InTransitFinite, FS_RemoveElement
    <2>5. limit \in Nat /\ Headroom(l) >= l - limit
      BY <1>1, <2>2, LimitsPositive DEF TypeOK, Headroom, NoLimit
    <2>6. QED
      BY <1>1, <2>2, <2>3, <2>4, <2>5, InTransitFinite, NextInTransitFinite DEF TypeOK
  <1>5. QED
    BY <1>3, <1>4 DEF Conserving

LEMMA AdmitConserves ==
  ASSUME TypeOK, Conserving, NEW c \in Callers, Admit(c)
  PROVE  Conserving'
  <1>1. /\ queue' = queue /\ orphans' = orphans /\ limit' = limit
        /\ pc' = [pc EXCEPT ![c] = "holding"] /\ inFlight' = inFlight + 1
        /\ c \notin Queued /\ Queued' = Queued
    BY QueuedIs DEF Admit, Conserving, QueueInv, TypeOK, Queued, Range
  <1>2. \A i \in 1..Len(queue) : queue[i] # c /\ queue[i] \in Callers
    BY <1>1, QueuedIs DEF TypeOK
  <1>3. QueueInv'
    BY <1>1, <1>2 DEF Conserving, QueueInv, TypeOK
  <1>4. InTransit \ {c} \subseteq InTransit' /\ c \in InTransit
    BY <1>1 DEF InTransit, Woken, TypeOK, Admit
  <1>5. Cardinality(InTransit') >= Cardinality(InTransit) - 1
    <2>1. IsFiniteSet(InTransit \ {c}) /\ Cardinality(InTransit \ {c}) = Cardinality(InTransit) - 1
      BY <1>4, InTransitFinite, FS_RemoveElement
    <2>2. QED
      BY <1>4, <2>1, NextInTransitFinite, FS_Subset
  <1>6. WorkConserving'
    BY <1>1, <1>5, InTransitFinite, NextInTransitFinite, LimitsPositive
    DEF Conserving, WorkConserving, TypeOK, NoLimit
  <1>7. QED
    BY <1>3, <1>6 DEF Conserving

LEMMA EnqueueConserves ==
  ASSUME TypeOK, Conserving, NEW c \in Callers, Enqueue(c)
  PROVE  Conserving'
  <1>1. /\ queue \in Seq(Callers) /\ Len(queue) \in Nat /\ Len(queue') = Len(queue) + 1
        /\ queue' \in Seq(Callers)
        /\ \A i \in 1..Len(queue) : queue'[i] = queue[i] /\ queue[i] \in Callers
        /\ queue'[Len(queue) + 1] = c
    BY AppendProperties DEF Enqueue, TypeOK
  <1>2. c \notin Queued /\ pc[c] = "trying" /\ Queued = {queue[i] : i \in 1..Len(queue)}
    BY QueuedIs DEF Enqueue, Conserving, QueueInv, TypeOK
  <1>3. Queued' = Queued \cup {c}
    BY <1>1, <1>2, NextQueuedIs
  <1>4. \A d \in Callers : pc'[d] = IF d = c THEN "waiting" ELSE pc[d]
    BY DEF Enqueue, TypeOK
  <1>5. QueueInv'
    <2>1. \A i, j \in 1..Len(queue') : queue'[i] = queue'[j] => i = j
      BY <1>1, <1>2 DEF Conserving, QueueInv
    <2>2. \A i \in 1..Len(queue') : pc'[queue'[i]] \in {"waiting", "leaving"}
      BY <1>1, <1>2, <1>4 DEF Conserving, QueueInv
    <2>3. orphans' \subseteq Queued' /\ (limit' = NoLimit => Queued' \subseteq orphans')
      BY <1>3 DEF Enqueue, Conserving, QueueInv
    <2>4. QED
      BY <2>1, <2>2, <2>3 DEF QueueInv
  <1>6. WorkConserving'
    BY NextInTransitFinite, LimitsPositive
    DEF WorkConserving, Enqueue, HasRoom, TypeOK, NoLimit
  <1>7. QED
    BY <1>5, <1>6 DEF Conserving

(* Resume and GiveUp only move a caller within the callers on their way,   *)
(* or within the parked ones.                                              *)
LEMMA MoveConserves ==
  ASSUME TypeOK, Conserving, NEW c \in Callers, Resume(c) \/ GiveUp(c)
  PROVE  Conserving'
  <1>1. /\ queue' = queue /\ orphans' = orphans /\ limit' = limit /\ inFlight' = inFlight
        /\ Queued' = Queued
    BY DEF Resume, GiveUp, Queued, Range
  <1>2. QueueInv'
    BY <1>1, QueuedIs DEF Conserving, QueueInv, TypeOK, Resume, GiveUp, Woken
  <1>3. InTransit \subseteq InTransit'
    BY <1>1 DEF InTransit, Woken, TypeOK, Resume, GiveUp
  <1>4. Cardinality(InTransit') >= Cardinality(InTransit)
    BY <1>3, NextInTransitFinite, FS_Subset
  <1>5. WorkConserving'
    BY <1>1, <1>4, InTransitFinite, NextInTransitFinite, LimitsPositive
    DEF Conserving, WorkConserving, TypeOK, NoLimit
  <1>6. QED
    BY <1>2, <1>5 DEF Conserving

LEMMA ReleaseConserves ==
  ASSUME TypeOK, SlotInv, Conserving, NEW c \in Callers, Release(c)
  PROVE  Conserving'
  <1>1. /\ Wake(1) /\ pc' = [pc EXCEPT ![c] = "idle"] /\ "idle" \in Places
    BY DEF Release, WakeOnRelease, Places
  <1>2. QueueInv /\ c \notin Queued /\ c \notin InTransit
    BY QueuedIs DEF Conserving, QueueInv, TypeOK, Release, InTransit, Woken
  <1>3. limit' = limit \/ queue = <<>>
    BY DEF Release, ForgetsLimit
  <1>4. queue = <<>> => queue' = <<>>
    BY <1>1, WakeShift, EmptySeq DEF TypeOK
  <1>5. QueueInv'
    BY <1>1, <1>2, <1>3, <1>4, KeptByWake
  <1>6. inFlight' = inFlight - 1
    <2>1. inFlight = Cardinality(Holders) /\ c \in Holders
      BY ReleaseHolders DEF SlotInv, SlotAccounting
    <2>2. inFlight >= 1
      BY <2>1, HoldersFinite, FS_EmptySet
    <2>3. QED
      BY <2>2 DEF Release, OneFewer, TypeOK
  <1>7. WorkConserving'
    <2> SUFFICES ASSUME NEW d \in Queued', d \notin orphans'
                 PROVE  inFlight' + Cardinality(InTransit') >= limit'
      BY DEF WorkConserving
    <2>1. d \in Queued /\ d \notin orphans /\ Queued' # {}
      BY <1>1, <1>2, WakeLeaves
    <2>2. limit' = limit /\ inFlight + Cardinality(InTransit) >= limit
      <3>1. queue # <<>>
        BY <2>1, QueuedIs DEF TypeOK
      <3>2. QED
        BY <1>3, <2>1, <3>1 DEF Conserving, WorkConserving
    <2>3. Cardinality(InTransit') >= Cardinality(InTransit \ {c}) + 1
      BY <1>1, <1>2, <2>1, WakeKeeps
    <2>4. Cardinality(InTransit \ {c}) = Cardinality(InTransit)
      BY <1>2, InTransitFinite, FS_RemoveElement
    <2>5. limit \in Nat
      BY LimitsPositive DEF TypeOK, NoLimit
    <2>6. QED
      BY <1>6, <2>2, <2>3, <2>4, <2>5, InTransitFinite, NextInTransitFinite DEF TypeOK
  <1>8. QED
    BY <1>5, <1>7 DEF Conserving

(* A caller whose channel was already closed: it was on its way, and its   *)
(* wake-up puts another one there.                                         *)
LEMMA PassOnConserves ==
  ASSUME TypeOK, Conserving, NEW c \in Callers, Abandon(c), PassOn(c)
  PROVE  Conserving'
  <1>1. /\ Wake(1) /\ pc' = [pc EXCEPT ![c] = "idle"] /\ "idle" \in Places
        /\ inFlight' = inFlight /\ limit' = limit
    BY DEF Abandon, PassOn, Places
  <1>2. QueueInv /\ c \notin Queued /\ c \in InTransit
    BY DEF Conserving, PassOn, InTransit, Woken
  <1>3. QueueInv'
    BY <1>1, <1>2, KeptByWake
  <1>4. WorkConserving'
    <2> SUFFICES ASSUME NEW d \in Queued', d \notin orphans'
                 PROVE  inFlight' + Cardinality(InTransit') >= limit'
      BY DEF WorkConserving
    <2>1. d \in Queued /\ d \notin orphans /\ Queued' # {}
      BY <1>1, <1>2, WakeLeaves
    <2>2. inFlight + Cardinality(InTransit) >= limit
      BY <2>1 DEF Conserving, WorkConserving
    <2>3. Cardinality(InTransit') >= Cardinality(InTransit \ {c}) + 1
      BY <1>1, <1>2, <2>1, WakeKeeps
    <2>4. Cardinality(InTransit \ {c}) = Cardinality(InTransit) - 1
      BY <1>2, InTransitFinite, FS_RemoveElement
    <2>5. limit \in Nat
      BY LimitsPositive DEF TypeOK, NoLimit
    <2>6. QED
      BY <1>1, <2>2, <2>3, <2>4, <2>5, InTransitFinite, NextInTransitFinite DEF TypeOK
  <1>5. QED
    BY <1>3, <1>4 DEF Conserving

(* A caller still queued is cut out: nobody else moves. *)
LEMMA WithdrawConserves ==
  ASSUME TypeOK, Conserving, NEW c \in Callers, Abandon(c), Withdraw(c)
  PROVE  Conserving'
  <1>1. PICK k \in 1..Len(queue) :
           /\ queue[k] = c
           /\ queue' = SubSeq(queue, 1, k - 1) \o SubSeq(queue, k + 1, Len(queue))
           /\ orphans' = orphans \ {c}
    BY DEF Withdraw
  <1>2. /\ queue \in Seq(Callers) /\ Len(queue) \in Nat
        /\ \A i \in 1..Len(queue) : queue[i] \in Callers
        /\ Queued = {queue[i] : i \in 1..Len(queue)}
    BY QueuedIs DEF TypeOK
  <1>3. /\ queue' \in Seq(Callers) /\ Len(queue') = Len(queue) - 1
        /\ \A i \in 1..Len(queue') : queue'[i] = IF i < k THEN queue[i] ELSE queue[i + 1]
    <2>1. PICK s1 : s1 = SubSeq(queue, 1, k - 1)
      OBVIOUS
    <2>2. PICK s2 : s2 = SubSeq(queue, k + 1, Len(queue))
      OBVIOUS
    <2>3. /\ s1 \in Seq(Callers) /\ Len(s1) = k - 1
          /\ \A i \in 1..(k - 1) : s1[i] = queue[i]
      BY <1>2, <2>1, SubSeqProperties
    <2>4. /\ s2 \in Seq(Callers) /\ Len(s2) = Len(queue) - k
          /\ \A i \in 1..(Len(queue) - k) : s2[i] = queue[k + i]
      BY <1>2, <2>2, SubSeqProperties
    <2>5. /\ queue' \in Seq(Callers) /\ Len(queue') = Len(s1) + Len(s2)
          /\ \A i \in 1..(Len(s1) + Len(s2)) :
                queue'[i] = IF i <= Len(s1) THEN s1[i] ELSE s2[i - Len(s1)]
      <3>1. queue' = s1 \o s2
        BY <1>1, <2>1, <2>2
      <3>2. QED
        BY <2>3, <2>4, <3>1, ConcatProperties
    <2>6. Len(queue') = Len(queue) - 1
      BY <1>2, <2>3, <2>4, <2>5
    <2>7. \A i \in 1..Len(queue') : i < k => queue'[i] = queue[i]
      BY <1>2, <2>3, <2>4, <2>5
    <2>8. ASSUME NEW i \in 1..Len(queue'), ~(i < k) PROVE queue'[i] = queue[i + 1]
      <3>1. i - Len(s1) \in 1..(Len(queue) - k) /\ k + (i - Len(s1)) = i + 1
        BY <1>2, <2>3, <2>6, <2>8
      <3>2. queue'[i] = s2[i - Len(s1)]
        BY <1>2, <2>3, <2>4, <2>5, <2>6, <2>8
      <3>3. QED
        BY <2>4, <3>1, <3>2
    <2>9. QED
      BY <2>5, <2>6, <2>7, <2>8
  <1>4. \A i, j \in 1..Len(queue) : queue[i] = queue[j] => i = j
    BY DEF Conserving, QueueInv
  <1>5. Queued' = Queued \ {c}
    <2>1. Queued' = {queue'[i] : i \in 1..Len(queue')}
      BY <1>3, NextQueuedIs
    <2>2. ASSUME NEW d \in Queued' PROVE d \in Queued \ {c}
      <3>1. PICK i \in 1..Len(queue') : d = queue'[i]
        BY <2>1
      <3>2. \E j \in 1..Len(queue) : j # k /\ d = queue[j]
        BY <1>2, <1>3, <3>1
      <3>3. QED
        BY <1>1, <1>2, <1>4, <3>2
    <2>3. ASSUME NEW d \in Queued \ {c} PROVE d \in Queued'
      <3>1. PICK j \in 1..Len(queue) : d = queue[j] /\ j # k
        BY <1>1, <1>2
      <3>2. PICK i \in 1..Len(queue') : d = queue'[i]
        <4>1. CASE j < k
          BY <1>2, <1>3, <3>1, <4>1
        <4>2. CASE j > k
          <5>1. j - 1 \in 1..Len(queue') /\ ~(j - 1 < k) /\ (j - 1) + 1 = j
            BY <1>2, <1>3, <4>2
          <5>2. QED
            BY <1>3, <3>1, <5>1
        <4>3. QED
          BY <3>1, <4>1, <4>2
      <3>3. QED
        BY <2>1, <3>2
    <2>4. QED
      BY <2>2, <2>3
  <1>6. /\ \A d \in Callers \ {c} : pc'[d] = pc[d]
        /\ inFlight' = inFlight /\ limit' = limit
    BY DEF Abandon, TypeOK
  <1>7. QueueInv'
    <2>1. \A i, j \in 1..Len(queue') : queue'[i] = queue'[j] => i = j
      <3> SUFFICES ASSUME NEW i \in 1..Len(queue'), NEW j \in 1..Len(queue'),
                          queue'[i] = queue'[j]
                   PROVE  i = j
        OBVIOUS
      <3>1. PICK a \in 1..Len(queue) : queue'[i] = queue[a] /\ a = IF i < k THEN i ELSE i + 1
        BY <1>2, <1>3
      <3>2. PICK b \in 1..Len(queue) : queue'[j] = queue[b] /\ b = IF j < k THEN j ELSE j + 1
        BY <1>2, <1>3
      <3>3. a = b
        BY <1>4, <3>1, <3>2
      <3>4. QED
        BY <3>1, <3>2, <3>3
    <2>2. \A d \in Queued : pc[d] \in {"waiting", "leaving"} /\ d \in Callers
      BY <1>2 DEF Conserving, QueueInv
    <2>3. \A d \in Queued' : pc'[d] \in {"waiting", "leaving"}
      BY <1>5, <1>6, <2>2
    <2>4. Queued' = {queue'[i] : i \in 1..Len(queue')}
      BY <1>3, NextQueuedIs
    <2>5. orphans' \subseteq Queued' /\ (limit' = NoLimit => Queued' \subseteq orphans')
      BY <1>1, <1>5, <1>6 DEF Conserving, QueueInv
    <2>6. QED
      BY <2>1, <2>3, <2>4, <2>5 DEF QueueInv
  <1>8. InTransit \subseteq InTransit'
    <2>1. c \in Queued /\ pc[c] = "leaving"
      BY <1>1, <1>2 DEF Abandon
    <2>2. c \notin InTransit
      BY <2>1 DEF InTransit, Woken
    <2>3. QED
      BY <1>5, <1>6, <2>2 DEF InTransit, Woken
  <1>9. Cardinality(InTransit') >= Cardinality(InTransit)
    BY <1>8, NextInTransitFinite, FS_Subset
  <1>10. WorkConserving'
    <2>1. (\E d \in Queued' : d \notin orphans') => \E d \in Queued : d \notin orphans
      BY <1>1, <1>5
    <2>2. limit \in Nat
      BY LimitsPositive DEF TypeOK, NoLimit
    <2>3. QED
      BY <1>6, <1>9, <2>1, <2>2, InTransitFinite, NextInTransitFinite
      DEF Conserving, WorkConserving, TypeOK
  <1>11. QED
    BY <1>7, <1>10 DEF Conserving

(* Whatever the callers and their limits, and in whatever order they       *)
(* arrive, finish, give up and re-read the limit: while somebody is queued *)
(* behind a recorded limit, requests in flight and callers on their way    *)
(* cover that limit (gate.go:151, 202-204).                                *)
THEOREM NoIdleSlotBehindQueue == Spec => []WorkConserving
  <1>1. Init => Conserving
    BY DEF Init, Conserving, QueueInv, WorkConserving, Queued, Range
  <1>2. TypeOK /\ SlotInv /\ Conserving /\ [Next]_vars => Conserving'
    <2> SUFFICES ASSUME TypeOK, SlotInv, Conserving, [Next]_vars
                 PROVE  Conserving'
      OBVIOUS
    <2>1. ASSUME NEW c \in Callers, Abandon(c)
          PROVE  Conserving'
      BY <2>1, PassOnConserves, WithdrawConserves DEF Abandon
    <2>2. CASE UNCHANGED vars
      BY <2>2 DEF vars, Conserving, QueueInv, WorkConserving, Queued, Range, InTransit, Woken
    <2>3. QED
      BY <2>1, <2>2, ObserveConserves, AdmitConserves, EnqueueConserves, MoveConserves,
         ReleaseConserves DEF Next
  <1>3. Conserving => WorkConserving
    BY DEF Conserving
  <1>4. QED
    BY <1>1, <1>2, <1>3, GateTypeCorrect, SlotInvAlways, PTL DEF Spec
=============================================================================
