------------------------------- MODULE Ledger -------------------------------
(***************************************************************************)
(* internal/ledger: request goroutines submit the writes of their call to  *)
(* a bounded queue, one goroutine applies them in order to the store.  A   *)
(* request blocks when the queue is full; a captured body over the byte    *)
(* budget is dropped at Submit; a busy database is retried in place.  The  *)
(* process may crash, and main closes the writer when srv.Shutdown gives   *)
(* up waiting for the requests that are left.                              *)
(***************************************************************************)
EXTENDS Integers, Sequences, FiniteSets, FiniteSetsExt

CONSTANTS
    Calls,
    Plans,          \* the sequences of writes a request may submit
    Capacity,       \* of w.ops
    Budget,         \* payloadBudget; 0 is unlimited
    Size,           \* call -> bytes of its captured body
    BusyRetries,    \* busyRetryAttempts
    MaxFaults,      \* bound: writes the store fails for another reason
    MaxCrashes      \* bound: crashes

ASSUME BoundsPositive == Capacity \in Nat \ {0} /\ BusyRetries \in Nat \ {0} /\ Budget \in Nat
ASSUME SizesPositive == Size \in [Calls -> Nat \ {0}]

Kinds == {"create", "finalize", "upsert", "payload", "composition", "barrier"}
ASSUME FinitelyManyCalls == IsFiniteSet(Calls)
ASSUME PlansSubmitOps == Plans \subseteq Seq(Kinds)

(* A handler submits the row before anything that hangs off it, and once.  *)
ASSUME PlansOpenFirst ==
    \A p \in Plans : \A i \in DOMAIN p :
        /\ p[i] \in {"create", "upsert"} => i = 1
        /\ p[i] \in {"finalize", "payload", "composition"} => p[1] \in {"create", "upsert"}

VARIABLES
    plan,           \* the writes each request will submit
    at,             \* how many of them it has submitted or shed
    admitted,       \* requests whose payload is charged and not yet queued
    queue,          \* w.ops
    cur,            \* what the writer is applying
    backlog,        \* payloadPending
    status, raw, composed,      \* the tables calls, raw, context_composition
    done,           \* history: the writes that succeeded (their After has run)
    failed,         \* history: the writes that were given up
    faulted,        \* history: calls the store failed a write of by itself
    lost,           \* history: writes that met a closed or crashed queue
    closed,         \* Close was called
    faults, crashes

db == <<status, raw, composed>>
history == <<done, failed, faulted>>
vars == <<plan, at, admitted, queue, cur, backlog, db, history, lost, closed, faults, crashes>>

Idle == [busy |-> FALSE]

Init ==
    /\ plan \in [Calls -> Plans]
    /\ at = [c \in Calls |-> 0]
    /\ admitted = {}
    /\ queue = <<>>
    /\ cur = Idle
    /\ backlog = 0
    /\ status = [c \in Calls |-> "absent"]
    /\ raw = {} /\ composed = {}
    /\ done = {} /\ failed = {} /\ faulted = {} /\ lost = {}
    /\ closed = FALSE
    /\ faults = 0 /\ crashes = 0

Left(c) == at[c] < Len(plan[c])
NextOp(c) == [call |-> c, n |-> at[c] + 1, kind |-> plan[c][at[c] + 1]]
Charge(op) == IF op.kind = "payload" THEN Size[op.call] ELSE 0

-----------------------------------------------------------------------------
(* Submit *)

(* admitPayload: an empty backlog admits any body. *)
Fits_Always(size) == TRUE
Fits(size) == Budget = 0 \/ backlog = 0 \/ backlog + size <= Budget

AdmitPayload(c) ==
    /\ Left(c) /\ NextOp(c).kind = "payload" /\ c \notin admitted
    /\ IF Fits(Size[c])
       THEN /\ admitted' = admitted \cup {c}
            /\ backlog' = backlog + Size[c]
            /\ UNCHANGED at
       ELSE /\ at' = [at EXCEPT ![c] = @ + 1]
            /\ UNCHANGED <<admitted, backlog>>
    /\ UNCHANGED <<plan, queue, cur, db, history, lost, closed, faults, crashes>>

(* The channel send, at once or after blocking for room. *)
Enqueue_DropsWhenFull(c) ==
    /\ Left(c) /\ (NextOp(c).kind = "payload" => c \in admitted)
    /\ ~closed
    /\ queue' = IF Len(queue) < Capacity THEN Append(queue, NextOp(c)) ELSE queue
    /\ at' = [at EXCEPT ![c] = @ + 1]
    /\ admitted' = admitted \ {c}
    /\ UNCHANGED <<plan, cur, backlog, db, history, lost, closed, faults, crashes>>
Enqueue(c) ==
    /\ Left(c) /\ (NextOp(c).kind = "payload" => c \in admitted)
    /\ ~closed
    /\ Len(queue) < Capacity
    /\ queue' = Append(queue, NextOp(c))
    /\ at' = [at EXCEPT ![c] = @ + 1]
    /\ admitted' = admitted \ {c}
    /\ UNCHANGED <<plan, cur, backlog, db, history, lost, closed, faults, crashes>>

(* A send on the closed channel panics, blocked or not: net/http recovers  *)
(* the handler, whose remaining writes are never submitted.  No HTTP       *)
(* request begins once the server is shut down, but a WebSocket session    *)
(* that is already open only submits its row when it ends.                 *)
SendOnClosed(c) ==
    /\ Left(c) /\ (NextOp(c).kind = "payload" => c \in admitted)
    /\ closed
    /\ at[c] > 0 \/ NextOp(c).kind = "upsert"
    /\ lost' = lost \cup {NextOp(c)}
    /\ at' = [at EXCEPT ![c] = Len(plan[c])]
    /\ UNCHANGED <<plan, admitted, queue, cur, backlog, db, history, closed, faults, crashes>>

-----------------------------------------------------------------------------
(* The writer *)

Take ==
    /\ cur = Idle
    /\ queue # <<>>
    /\ cur' = [busy |-> TRUE, op |-> Head(queue), tries |-> 1,
               stage |-> IF Head(queue).kind = "upsert" THEN "create" ELSE Head(queue).kind,
               settled |-> FALSE]
    /\ queue' = Tail(queue)
    /\ UNCHANGED <<plan, at, admitted, backlog, db, history, lost, closed, faults, crashes>>

Applying == cur # Idle /\ ~cur.settled

(* What the store does with a statement that reaches it: an INSERT of a    *)
(* new row, an UPDATE of a row that must exist, a child of a foreign key.  *)
Accepts_FinalizeAnyway(stage, c) ==
    CASE stage = "create" -> status[c] = "absent"
      [] stage = "finalize" -> TRUE
      [] stage \in {"payload", "composition"} -> status[c] # "absent"
      [] OTHER -> TRUE
Accepts(stage, c) ==
    CASE stage = "create" -> status[c] = "absent"
      [] stage \in {"finalize", "payload", "composition"} -> status[c] # "absent"
      [] OTHER -> TRUE

Commit(stage, c) ==
    /\ status' = CASE stage = "create" -> [status EXCEPT ![c] = "pending"]
                   [] stage = "finalize" -> [status EXCEPT ![c] = "final"]
                   [] OTHER -> status
    /\ raw' = IF stage = "payload" THEN raw \cup {c} ELSE raw
    /\ composed' = IF stage = "composition" THEN composed \cup {c} ELSE composed

(* An upsert goes on to its second statement, with retries of its own. *)
GoesOn == cur.op.kind = "upsert" /\ cur.stage = "create"

(* A failed write runs no After. *)
Outcome_AfterAnyway == done' = done \cup {cur.op} /\ failed' = failed \cup {cur.op}
GiveUp == failed' = failed \cup {cur.op} /\ UNCHANGED done

Write ==
    /\ Applying
    /\ IF Accepts(cur.stage, cur.op.call)
       THEN /\ Commit(cur.stage, cur.op.call)
            /\ IF GoesOn
               THEN /\ cur' = [cur EXCEPT !.stage = "finalize", !.tries = 1]
                    /\ UNCHANGED <<done, failed>>
               ELSE /\ cur' = [cur EXCEPT !.settled = TRUE]
                    /\ done' = done \cup {cur.op}
                    /\ UNCHANGED failed
       ELSE /\ cur' = [cur EXCEPT !.settled = TRUE]
            /\ GiveUp
            /\ UNCHANGED db
    /\ UNCHANGED <<plan, at, admitted, queue, backlog, faulted, lost, closed, faults, crashes>>

(* SQLITE_BUSY: again in place, until the attempts are used up. *)
RetryBusy_Requeues ==
    /\ queue' = Append(queue, cur.op)
    /\ cur' = Idle
    /\ UNCHANGED <<done, failed, faulted>>
RetryBusy ==
    /\ UNCHANGED queue
    /\ IF cur.tries < BusyRetries
       THEN cur' = [cur EXCEPT !.tries = @ + 1] /\ UNCHANGED history
       ELSE /\ cur' = [cur EXCEPT !.settled = TRUE]
            /\ GiveUp
            /\ faulted' = faulted \cup {cur.op.call}

Busy ==
    /\ Applying /\ cur.op.kind # "barrier"
    /\ RetryBusy
    /\ UNCHANGED <<plan, at, admitted, backlog, db, lost, closed, faults, crashes>>

(* Any other error is final. *)
Fault ==
    /\ Applying /\ cur.op.kind # "barrier"
    /\ faults < MaxFaults
    /\ faults' = faults + 1
    /\ cur' = [cur EXCEPT !.settled = TRUE]
    /\ GiveUp
    /\ faulted' = faulted \cup {cur.op.call}
    /\ UNCHANGED <<plan, at, admitted, queue, backlog, db, lost, closed, crashes>>

(* The deferred release: the body is held until the write is over. *)
Released(op) == Charge(op)

Release ==
    /\ cur # Idle /\ cur.settled
    /\ backlog' = backlog - Released(cur.op)
    /\ cur' = Idle
    /\ UNCHANGED <<plan, at, admitted, queue, db, history, lost, closed, faults, crashes>>

-----------------------------------------------------------------------------

Close_DropsTheQueue ==
    /\ ~closed
    /\ closed' = TRUE
    /\ queue' = <<>>
    /\ UNCHANGED <<plan, at, admitted, cur, backlog, db, history, lost, faults, crashes>>
Close ==
    /\ ~closed
    /\ closed' = TRUE
    /\ UNCHANGED <<plan, at, admitted, queue, cur, backlog, db, history, lost, faults, crashes>>

(* run returns once the closed queue is drained. *)
Exited == closed /\ queue = <<>> /\ cur = Idle

(* Everything in memory is gone, requests included; the committed rows     *)
(* stay, and the calls not yet begun meet the next process.                *)
Crash ==
    /\ crashes < MaxCrashes
    /\ crashes' = crashes + 1
    /\ lost' = lost \cup {queue[i] : i \in DOMAIN queue}
                    \cup (IF Applying THEN {cur.op} ELSE {})
                    \cup {NextOp(c) : c \in {d \in Calls : Left(d) /\ at[d] > 0}}
    /\ at' = [c \in Calls |-> IF at[c] > 0 THEN Len(plan[c]) ELSE 0]
    /\ admitted' = {}
    /\ queue' = <<>>
    /\ cur' = Idle
    /\ backlog' = 0
    /\ closed' = FALSE
    /\ UNCHANGED <<plan, db, history, faults>>

WriterStep == Take \/ Write \/ Release

Next ==
    \/ \E c \in Calls : AdmitPayload(c) \/ Enqueue(c) \/ SendOnClosed(c)
    \/ WriterStep \/ Busy \/ Fault
    \/ Close
    \/ Crash

Spec == Init /\ [][Next]_vars

(* The writer keeps running; the busy retries are bounded by themselves.   *)
(* Among blocked senders the channel is first in, first out, so none is    *)
(* passed over for ever.                                                   *)
FairSpec ==
    /\ Spec
    /\ WF_vars(WriterStep)
    /\ \A c \in Calls : WF_vars(AdmitPayload(c)) /\ SF_vars(Enqueue(c))

-----------------------------------------------------------------------------

Queued == {queue[i] : i \in DOMAIN queue}
InHand == Queued \cup (IF cur = Idle THEN {} ELSE {cur.op})

(* "So this queue does not drop" (ledger.go:9-17): a write that is not a   *)
(* payload, once its request has moved past it, is queued, in hand,        *)
(* written, or died with the process.  And the single writer makes         *)
(* ordering free (ledger.go:54-67): an UPDATE without its row or a child   *)
(* without its parent is only ever attempted, and refused, when the store  *)
(* itself failed an earlier write of the same call.                        *)
OnlyPayloadsAreDropped ==
    \A c \in Calls : \A i \in 1..at[c] :
        LET op == [call |-> c, n |-> i, kind |-> plan[c][i]]
        IN \/ op.kind = "payload"
           \/ op \in InHand \cup done \cup lost
           \/ op \in failed /\ c \in faulted
           \/ \E earlier \in lost : earlier.call = c /\ earlier.n < i

(* The budget bounds the bytes in memory: what is charged is exactly what  *)
(* is queued, in hand or waiting to be queued, and it exceeds the budget   *)
(* only while a single body is the whole backlog (ledger.go:314-330).      *)
PayloadsInMemory ==
    {op \in InHand : op.kind = "payload"} \cup {NextOp(c) : c \in admitted}
BacklogIsExactAndBounded == ~closed =>
    /\ backlog = MapThenSumSet(Charge, PayloadsInMemory)
    /\ (Budget > 0 /\ backlog > Budget) => Cardinality(PayloadsInMemory) = 1

(* What runs After a write may rely on it (ledger.go:91-96): insights on a *)
(* row with its outcome, the parse pipeline on a row and its body.         *)
AfterSeesTheRow ==
    \A op \in done :
        /\ op.kind \in {"finalize", "upsert"} => status[op.call] = "final"
        /\ op.kind = "payload" => op.call \in raw /\ status[op.call] # "absent"

(* Close drains what was queued (ledger.go:495-505): when the writer has   *)
(* returned, nothing that was accepted is left unwritten.                  *)
CloseDrains ==
    Exited => \A c \in Calls : \A i \in 1..at[c] :
        LET op == [call |-> c, n |-> i, kind |-> plan[c][i]]
        IN \/ op \in done \cup failed \cup lost
           \/ op.kind = "payload"
           \/ \E earlier \in lost : earlier.call = c /\ earlier.n < i

(* A request blocked on a full queue gets through, and a Flush returns:    *)
(* what is submitted is applied, unless the process ends first.            *)
EveryCallIsSettled ==
    \A c \in Calls : <>(\/ ~Left(c) /\ \A op \in InHand : op.call # c
                        \/ closed)

(* The call log behind the queue. *)
Log == INSTANCE CallLog WITH status <- status, traced <- raw \cup composed
ImplementsCallLog == Log!Spec

(* "Draining the proxy is not optional" (main.go:286-292): a shutdown that *)
(* closes the queue and drains it loses no call record.                    *)
ShutdownKeepsRecords ==
    (crashes = 0) => \A op \in lost : op.kind \notin {"create", "finalize", "upsert"}
=============================================================================
