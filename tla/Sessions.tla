------------------------------ MODULE Sessions ------------------------------
(***************************************************************************)
(* The rollup of one session (store/sessions.go) and the insights fork     *)
(* that keeps it (proxy/insights.go).  Calls of the session run at the     *)
(* same time; each ends, waits for the ledger to write its outcome, and is *)
(* then handed to the fork, which folds it into the row.  A full queue, a  *)
(* failed upsert and a restart lose updates; retention deletes the row.    *)
(***************************************************************************)
EXTENDS Integers, Sequences, FiniteSets, FiniteSetsExt

CONSTANTS
    Calls,              \* calls of the session
    Kinds,              \* [utility, sub]: a utility call, a subagent's call
    InsightSlots,
    MaxTime             \* bound on the clock

ASSUME SessionsAssumption ==
    IsFiniteSet(Calls) /\ Kinds \subseteq [utility : BOOLEAN, sub : BOOLEAN]

VARIABLES
    call,               \* per call: what is known of it
    updates,            \* the insights queue
    rollup,             \* the row, or NoRow
    folded,             \* history: the calls folded into it
    clock

sessionVars == <<call, updates, rollup, folded, clock>>

NoRow == [turns |-> -1]

SessionsInit ==
    /\ call = [c \in Calls |-> [at |-> "running"]]
    /\ updates = <<>> /\ rollup = NoRow /\ folded = {}
    /\ clock = 1

(* The request goroutine stamps the end and queues the outcome.  A call costs
   what its end time is, to tell sums apart. *)
EndCall(c) ==
    /\ call[c].at = "running"
    /\ clock' \in {t \in {clock, clock + 1} : t <= MaxTime}
    /\ \E kind \in Kinds, ok \in BOOLEAN :
        call' = [call EXCEPT ![c] = [at |-> "ended", end |-> clock', ok |-> ok,
                                     utility |-> kind.utility, sub |-> kind.sub]]
    /\ UNCHANGED <<updates, rollup, folded>>

(* The ledger has written the outcome: submit.  Calls that end together are
   queued in either order, so a later end may be written first. *)
HandOver(c) ==
    /\ call[c].at = "ended"
    /\ call' = [call EXCEPT ![c].at = "written"]
    /\ updates' = IF Len(updates) < InsightSlots THEN Append(updates, c) ELSE updates
    /\ UNCHANGED <<rollup, folded, clock>>

-----------------------------------------------------------------------------
(* The upsert *)

Count(p) == IF p THEN 1 ELSE 0
NewRow(e) ==
    [turns |-> Count(~e.utility), errors |-> Count(~e.ok), spend |-> e.end,
     utility |-> Count(e.utility) * e.end, first |-> e.end, last |-> e.end,
     status |-> e.ok, subagents |-> e.sub]

(* The status advances only with a call that is the newest seen so far. *)
LastStatus_OfTheLatestUpdate(row, new) == new.status
LastStatus(row, new) == IF new.last >= row.last THEN new.status ELSE row.status

UpsertSessionCall(row, e) ==
    LET new == NewRow(e) IN
    IF row = NoRow THEN new
    ELSE [turns |-> row.turns + new.turns, errors |-> row.errors + new.errors,
          spend |-> row.spend + new.spend, utility |-> row.utility + new.utility,
          first |-> Min({row.first, new.first}), last |-> Max({row.last, new.last}),
          status |-> LastStatus(row, new), subagents |-> row.subagents \/ new.subagents]

(* The worker.  A failed upsert is logged and lost. *)
FoldCall ==
    /\ updates # <<>>
    /\ updates' = Tail(updates)
    /\ \/ /\ rollup' = UpsertSessionCall(rollup, call[Head(updates)])
          /\ folded' = folded \cup {Head(updates)}
       \/ UNCHANGED <<rollup, folded>>
    /\ UNCHANGED <<call, clock>>

(* PruneSessions: the row is gone and is never rebuilt; a later call starts
   it anew. *)
PruneSession ==
    /\ rollup # NoRow /\ rollup.last < clock
    /\ rollup' = NoRow /\ folded' = {}
    /\ UNCHANGED <<call, updates, clock>>

(* The process dies: what was queued is lost, and so is every running call. *)
Die ==
    /\ \E c \in Calls : call[c].at # "lost"
    /\ call' = [c \in Calls |-> IF call[c].at = "written" THEN call[c]
                                ELSE [call[c] EXCEPT !.at = "lost"]]
    /\ updates' = <<>>
    /\ UNCHANGED <<rollup, folded, clock>>

SessionsNext ==
    \/ \E c \in Calls : EndCall(c) \/ HandOver(c)
    \/ FoldCall \/ PruneSession \/ Die

-----------------------------------------------------------------------------
Spent(S) == FoldFunctionOnSet(+, 0, [c \in S |-> call[c].end], S)

(* The row is what the calls folded into it add up to, in whatever order the
   request goroutines, the ledger and the fork delivered them, and its status
   is that of a call no other ended after. *)
RollupIsOrderFree ==
    LET ends == {call[c].end : c \in folded}
        utility == {c \in folded : call[c].utility}
    IN  IF folded = {} THEN rollup = NoRow
        ELSE /\ rollup.turns = Cardinality(folded \ utility)
             /\ rollup.errors = Cardinality({c \in folded : ~call[c].ok})
             /\ rollup.spend = Spent(folded) /\ rollup.utility = Spent(utility)
             /\ rollup.first = Min(ends) /\ rollup.last = Max(ends)
             /\ \E c \in folded : call[c].end = Max(ends) /\ rollup.status = call[c].ok
             /\ rollup.subagents <=> \E c \in folded : call[c].sub
=============================================================================
