-------------------------------- MODULE Gate --------------------------------
(***************************************************************************)
(* internal/concurrency/gate.go: how many requests are in flight to one    *)
(* credential.  Every map of the Gate is keyed by credential and no        *)
(* operation touches two keys, so the module is the slice of one key.      *)
(*                                                                         *)
(* Acquire takes the mutex three times: to record the caller's limit, to   *)
(* try for a slot (or join the queue), and to abandon the queue.  Between  *)
(* any two of them other goroutines run, so each critical section is an    *)
(* action and pc says where a caller stands between them:                  *)
(*                                                                         *)
(*   idle      no request                                                  *)
(*   trying    about to take the mutex at the head of the retry loop       *)
(*   waiting   in the select; woken when its channel left the queue        *)
(*   leaving   the select chose ctx.Done(); abandon not yet called         *)
(*   holding   in flight                                                   *)
(*                                                                         *)
(* A channel is closed exactly when it is taken out of the queue by        *)
(* wakeOneLocked, so "closed" needs no variable of its own.                *)
(***************************************************************************)
EXTENDS Integers, Sequences, FiniteSets, SequencesExt

CONSTANTS
    Callers,    \* requests to this credential (a caller may come back)
    Limits      \* the max_concurrency values a caller may report

ASSUME CallersFinite == IsFiniteSet(Callers)
ASSUME LimitsPositive == Limits \subseteq Nat \ {0}

NoLimit == 0    \* the key is absent from g.limits

VARIABLES
    pc,         \* where each caller stands
    inFlight,   \* g.inFlight[cred]
    queue,      \* g.waiters[cred], each channel named by its caller
    limit,      \* g.limits[cred]
    orphans     \* history: queued callers that found no limit on record

vars == <<pc, inFlight, queue, limit, orphans>>

Places == {"idle", "trying", "waiting", "leaving", "holding"}

Queued == Range(queue)
Woken == {c \in Callers : pc[c] \in {"waiting", "leaving"} /\ c \notin Queued}
InTransit == Woken \cup {c \in Callers : pc[c] = "trying"}
Holders == {c \in Callers : pc[c] = "holding"}

Init ==
    /\ pc = [c \in Callers |-> "idle"]
    /\ inFlight = 0
    /\ queue = <<>>
    /\ limit = NoLimit
    /\ orphans = {}

(* wakeOneLocked n times over: the first n channels leave the queue. *)
Wake(n) ==
    /\ queue' = SubSeq(queue, n + 1, Len(queue))
    /\ orphans' = orphans \ {queue[i] : i \in 1..Len(queue) \cap 1..n}

(* How many waiters a caller reporting l wakes: the slots the raise made,  *)
(* none when the credential had no limit on record.                        *)
Headroom_Never(l) == 0
Headroom(l) == IF limit # NoLimit /\ l > limit THEN l - limit ELSE 0

(* Acquire, first critical section: observeLimitLocked. *)
Observe(c, l) ==
    /\ pc[c] = "idle"
    /\ limit' = l
    /\ Wake(Headroom(l))
    /\ pc' = [pc EXCEPT ![c] = "trying"]
    /\ UNCHANGED inFlight

(* The fast path looks at occupancy alone, never at the queue. *)
HasRoom_OffByOne == inFlight <= limit
HasRoom == inFlight < limit

(* Acquire, the retry loop: there is room under the shared limit. *)
Admit(c) ==
    /\ pc[c] = "trying"
    /\ HasRoom
    /\ inFlight' = inFlight + 1
    /\ pc' = [pc EXCEPT ![c] = "holding"]
    /\ UNCHANGED <<queue, limit, orphans>>

(* Acquire, the retry loop: full, so join the queue and block in select. *)
Enqueue(c) ==
    /\ pc[c] = "trying"
    /\ ~HasRoom
    /\ queue' = Append(queue, c)
    /\ orphans' = IF limit = NoLimit THEN orphans \cup {c} ELSE orphans
    /\ pc' = [pc EXCEPT ![c] = "waiting"]
    /\ UNCHANGED <<inFlight, limit>>

(* The channel was closed: loop and re-check. *)
Resume(c) ==
    /\ pc[c] = "waiting"
    /\ c \in Woken
    /\ pc' = [pc EXCEPT ![c] = "trying"]
    /\ UNCHANGED <<inFlight, queue, limit, orphans>>

(* The caller's context ended.  Go's select picks freely when the channel  *)
(* is closed as well, so a woken caller may still choose to leave.         *)
GiveUp(c) ==
    /\ pc[c] = "waiting"
    /\ pc' = [pc EXCEPT ![c] = "leaving"]
    /\ UNCHANGED <<inFlight, queue, limit, orphans>>

(* abandon, the channel is still queued: cut it out of the queue. *)
Withdraw(c) ==
    \E i \in 1..Len(queue) :
        /\ queue[i] = c
        /\ queue' = SubSeq(queue, 1, i - 1) \o SubSeq(queue, i + 1, Len(queue))
        /\ orphans' = orphans \ {c}

(* abandon, the channel is gone: its wake-up goes to the next waiter. *)
PassOn_DropsWakeUp(c) == c \in Woken /\ UNCHANGED <<queue, orphans>>
PassOn(c) == c \in Woken /\ Wake(1)

(* abandon: take the channel out of the queue, or hand a spent wake-up on. *)
Abandon(c) ==
    /\ pc[c] = "leaving"
    /\ Withdraw(c) \/ PassOn(c)
    /\ pc' = [pc EXCEPT ![c] = "idle"]
    /\ UNCHANGED <<inFlight, limit>>

(* The count release leaves behind; the key is deleted at the last one. *)
OneFewer_DropsTwo == IF inFlight > 2 THEN inFlight - 1 ELSE 0
OneFewer == IF inFlight > 1 THEN inFlight - 1 ELSE 0

(* release forgets the limit when nothing is left in flight and no channel *)
(* is queued; callers between their two critical sections do not count.    *)
ForgetsLimit == inFlight <= 1 /\ queue = <<>>

(* release wakes one waiter, whatever it found. *)
WakeOnRelease == Wake(1)

(* release, run once per Acquire (sync.Once): free the slot, forget the    *)
(* limit of a credential nobody uses or waits for, wake one waiter.        *)
Release(c) ==
    /\ pc[c] = "holding"
    /\ inFlight' = OneFewer
    /\ limit' = IF ForgetsLimit THEN NoLimit ELSE limit
    /\ WakeOnRelease
    /\ pc' = [pc EXCEPT ![c] = "idle"]

Next ==
    \E c \in Callers :
        \/ \E l \in Limits : Observe(c, l)
        \/ Admit(c)
        \/ Enqueue(c)
        \/ Resume(c)
        \/ GiveUp(c)
        \/ Abandon(c)
        \/ Release(c)

Spec == Init /\ [][Next]_vars

(***************************************************************************)
(* Fairness: a goroutine that can take the mutex does (Go's scheduler and  *)
(* sync.Mutex starve nobody), and a dispatched request ends, since its     *)
(* upstream exchange does.  Nothing makes a client arrive or give up.      *)
(***************************************************************************)
Fairness ==
    \A c \in Callers :
        /\ WF_vars(Admit(c) \/ Enqueue(c))
        /\ WF_vars(Resume(c))
        /\ WF_vars(Abandon(c))
        /\ WF_vars(Release(c))

FairSpec == Spec /\ Fairness
-----------------------------------------------------------------------------

TypeOK ==
    /\ pc \in [Callers -> Places]
    /\ inFlight \in Nat
    /\ queue \in Seq(Callers)
    /\ limit \in Limits \cup {NoLimit}
    /\ orphans \subseteq Callers

(* The counter the admission check reads is the number of requests really  *)
(* in flight: no path of Acquire, release or abandon leaks or double-frees *)
(* a slot (gate.go:107-110, 184-200).                                      *)
SlotAccounting == inFlight = Cardinality(Holders)

(* The limit is forgotten only while nothing is in flight (gate.go:190-198) *)
ForgottenOnlyWhenIdle == limit = NoLimit => Holders = {}

(* And the step that forgets it leaves nobody in flight and finds nobody   *)
(* queued (gate.go:190-198).  It may well find callers between their two   *)
(* critical sections, who then queue with no limit on record: the orphans. *)
ForgetsNobodyWaiting ==
    limit # NoLimit /\ limit' = NoLimit => Holders' = {} /\ queue = <<>> /\ queue' = <<>>

(* No slot is left empty behind the queue: once anyone queued against a    *)
(* recorded limit, the slots in use and the callers on their way to one    *)
(* cover that limit.  This is what waking "exactly the number of slots     *)
(* the raise created" (gate.go:151) and passing a spent wake-up on         *)
(* (gate.go:202-204) are for.  Callers that queued with no limit on record *)
(* are the exception NoStrandedWaiter is about.                            *)
WorkConserving ==
    (\E c \in Queued : c \notin orphans) => inFlight + Cardinality(InTransit) >= limit

(* What gate.go:192-194 says of the deletion of an idle credential's       *)
(* limit: there is nobody queued to be woken, so nobody can be left in the *)
(* queue with nothing in flight and nobody on the way.                     *)
NoStrandedWaiter == queue # <<>> => inFlight > 0 \/ InTransit # {}

(* The longest-waiting caller, queued behind a recorded limit, does leave  *)
(* the queue: progress does not depend on new requests arriving.           *)
HeadLeavesQueue ==
    \A c \in Callers :
        (queue # <<>> /\ limit # NoLimit /\ Head(queue) = c) ~> (c \notin Queued)

(* The gate implements the abstract pool of slots. *)
Pool == INSTANCE SlotPool WITH holders <- Holders, bound <- limit
ImplementsPool == Pool!PoolSpec
=============================================================================
