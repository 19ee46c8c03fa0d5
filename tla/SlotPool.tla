------------------------------ MODULE SlotPool ------------------------------
(***************************************************************************)
(* What internal/concurrency promises about one credential, without        *)
(* queues, channels or locks: a set of callers holding a slot and the      *)
(* limit currently in force.  A caller enters only while there is room,    *)
(* the limit may move underneath the holders (a lowered limit evicts       *)
(* nobody), and the limit is forgotten only when the credential goes idle. *)
(***************************************************************************)
EXTENDS Integers, FiniteSets

CONSTANTS
    Callers,    \* the requests that compete for the credential
    Limits      \* the positive max_concurrency values callers may report

NoLimit == 0    \* no limit on record: nobody can enter

VARIABLES
    holders,    \* the callers whose request is in flight
    bound       \* the limit in force, or NoLimit

poolVars == <<holders, bound>>

PoolInit ==
    /\ holders = {}
    /\ bound = NoLimit

SetBound ==
    /\ bound' \in Limits
    /\ UNCHANGED holders

Enter(c) ==
    /\ c \notin holders
    /\ Cardinality(holders) < bound
    /\ holders' = holders \cup {c}
    /\ UNCHANGED bound

Leave(c) ==
    /\ c \in holders
    /\ holders' = holders \ {c}
    /\ \/ UNCHANGED bound
       \/ holders' = {} /\ bound' = NoLimit

PoolNext ==
    \/ SetBound
    \/ \E c \in Callers : Enter(c) \/ Leave(c)

PoolSpec == PoolInit /\ [][PoolNext]_poolVars
=============================================================================
