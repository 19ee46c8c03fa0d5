---------------------------- MODULE LedgerProofs ----------------------------
(***************************************************************************)
(* What the ledger guarantees for any number of calls, any plans, capacity *)
(* and budget, and any number of faults and crashes.  The invariants come  *)
(* in layers, each proved on top of those before it.                       *)
(***************************************************************************)
EXTENDS Ledger, SumTheorems, FiniteSetTheorems, SequenceTheorems, TLAPS

Ops == [call : Calls, n : Nat \ {0}, kind : Kinds]
Jobs == [busy : {TRUE}, op : Ops, tries : Nat, stage : Kinds, settled : BOOLEAN]
Statuses == {"absent", "pending", "final"}

TypeOK ==
    /\ plan \in [Calls -> Plans]
    /\ at \in [Calls -> Nat]
    /\ admitted \subseteq Calls
    /\ queue \in Seq(Ops)
    /\ cur \in {Idle} \cup Jobs
    /\ backlog \in Int
    /\ status \in [Calls -> Statuses]
    /\ raw \subseteq Calls /\ composed \subseteq Calls
    /\ done \subseteq Ops /\ failed \subseteq Ops /\ lost \subseteq Ops
    /\ faulted \subseteq Calls
    /\ closed \in BOOLEAN
    /\ faults \in Nat /\ crashes \in Nat

(* A write somebody submitted: the n-th of its call's plan. *)
Submitted(op) == op.n <= at[op.call] /\ op.kind = plan[op.call][op.n]

(* The writes of one call stand in the order they were submitted in, the   *)
(* one the writer holds before all that are queued.                        *)
Ordered ==
    /\ \A c \in Calls : at[c] <= Len(plan[c])
    /\ \A j \in 1..Len(queue) : Submitted(queue[j])
    /\ cur # Idle => Submitted(cur.op)
    /\ \A j, k \in 1..Len(queue) :
          j < k /\ queue[j].call = queue[k].call => queue[j].n < queue[k].n
    /\ cur # Idle => \A j \in 1..Len(queue) :
          queue[j].call = cur.op.call => cur.op.n < queue[j].n

Staged ==
    cur # Idle => IF cur.op.kind = "upsert" THEN cur.stage \in {"create", "finalize"}
                                            ELSE cur.stage = cur.op.kind

LineInv == TypeOK /\ Ordered /\ Staged

(* The row of a call is there exactly from the commit of its first write:  *)
(* no other write of its call can create it, and none is refused for it.   *)
NoRowYet(c) ==
    \/ at[c] = 0
    \/ \E j \in 1..Len(queue) : queue[j].call = c /\ queue[j].n = 1
    \/ Applying /\ cur.stage = "create" /\ cur.op.call = c

RowInv ==
    /\ \A c \in Calls : NoRowYet(c) => status[c] = "absent"
    /\ \A op \in done : op.kind = "create" => status[op.call] # "absent"
    /\ Applying /\ cur.op.kind = "upsert" /\ cur.stage = "finalize" => status[cur.op.call] # "absent"
    /\ AfterSeesTheRow

(* A write that was lost is the last its request submitted: nothing of the *)
(* call stands behind it, or will.                                         *)
LostLast ==
    \A op \in lost :
        /\ at[op.call] = Len(plan[op.call])
        /\ \A j \in 1..Len(queue) : queue[j].call = op.call => queue[j].n < op.n
        /\ cur # Idle /\ cur.op.call = op.call => cur.op.n < op.n

(* The fate of a write the writer is through with. *)
Accounted(op) ==
    \/ op.kind = "payload"
    \/ op \in done
    \/ op \in failed /\ op.call \in faulted

FateInv ==
    /\ LostLast
    /\ cur # Idle /\ cur.settled => Accounted(cur.op)
    /\ OnlyPayloadsAreDropped


-----------------------------------------------------------------------------
(* The shape of the data. *)

LEMMA PlanIsSeq == ASSUME TypeOK, NEW c \in Calls PROVE plan[c] \in Seq(Kinds)
BY PlansSubmitOps DEF TypeOK

LEMMA NextOpIsOp ==
    ASSUME TypeOK, NEW c \in Calls, Left(c)
    PROVE  /\ NextOp(c) \in Ops
           /\ NextOp(c).call = c /\ NextOp(c).n = at[c] + 1
           /\ NextOp(c).kind = plan[c][at[c] + 1]
<1>1. plan[c] \in Seq(Kinds) /\ at[c] \in Nat
  BY PlanIsSeq DEF TypeOK
<1>2. at[c] + 1 \in 1..Len(plan[c])
  BY <1>1 DEF Left
<1>3. plan[c][at[c] + 1] \in Kinds
  BY <1>1, <1>2
<1>4. QED BY <1>1, <1>3 DEF NextOp, Ops

LEMMA JobFields ==
    ASSUME TypeOK, cur # Idle
    PROVE  /\ cur \in Jobs /\ cur.op \in Ops /\ cur.op.call \in Calls
           /\ cur.op.kind \in Kinds /\ cur.op.n \in Nat \ {0}
           /\ cur.stage \in Kinds /\ cur.settled \in BOOLEAN /\ cur.tries \in Nat
BY DEF TypeOK, Jobs, Ops

LEMMA QueuedOp ==
    ASSUME TypeOK, NEW j \in 1..Len(queue)
    PROVE  /\ queue[j] \in Ops /\ queue[j].call \in Calls
           /\ queue[j].kind \in Kinds /\ queue[j].n \in Nat \ {0}
<1>1. queue[j] \in Ops
  BY DEF TypeOK
<1>2. QED BY <1>1 DEF Ops

LEMMA JobIsNotIdle == ASSUME NEW j \in Jobs PROVE j # Idle
BY DEF Jobs, Idle

-----------------------------------------------------------------------------
(* The line: types, the order of the writes of a call. *)

LEMMA LineInit == ASSUME Init PROVE LineInv
<1>1. TypeOK
  <2>1. status \in [Calls -> Statuses] /\ at \in [Calls -> Nat]
    BY DEF Init, Statuses
  <2>2. queue \in Seq(Ops)
    BY DEF Init
  <2>3. /\ admitted \subseteq Calls /\ raw \subseteq Calls /\ composed \subseteq Calls
        /\ faulted \subseteq Calls /\ done \subseteq Ops /\ failed \subseteq Ops /\ lost \subseteq Ops
    BY DEF Init
  <2>4. plan \in [Calls -> Plans] /\ cur \in {Idle} \cup Jobs
    BY DEF Init
  <2>5. closed \in BOOLEAN
    BY DEF Init
  <2>6. backlog \in Int /\ faults \in Nat /\ crashes \in Nat
    BY DEF Init
  <2>7. QED BY <2>1, <2>2, <2>3, <2>4, <2>5, <2>6 DEF TypeOK
<1>2. \A c \in Calls : at[c] <= Len(plan[c])
  BY <1>1, PlanIsSeq DEF Init
<1>3. QED BY <1>1, <1>2 DEF Init, LineInv, Ordered, Staged

LEMMA AdmitKeepsLine == ASSUME LineInv, NEW c \in Calls, AdmitPayload(c) PROVE LineInv'
<1> USE DEF LineInv
<1>1. plan[c] \in Seq(Kinds) /\ at[c] \in Nat /\ at[c] < Len(plan[c]) /\ Size[c] \in Nat
  BY PlanIsSeq, SizesPositive DEF AdmitPayload, Left, TypeOK
<1>2. /\ at' = at \/ at' = [at EXCEPT ![c] = @ + 1]
      /\ admitted' \subseteq admitted \cup {c}
      /\ backlog' = backlog \/ backlog' = backlog + Size[c]
      /\ UNCHANGED <<plan, queue, cur, db, history, lost, closed, faults, crashes>>
  BY DEF AdmitPayload
<1>3. at' \in [Calls -> Nat] /\ backlog' \in Int /\ admitted' \subseteq Calls
  <2>1. at \in [Calls -> Nat] /\ backlog \in Int /\ admitted \subseteq Calls
    BY DEF TypeOK
  <2>2. at' \in [Calls -> Nat]
    BY <1>1, <1>2, <2>1
  <2>3. QED BY <1>1, <1>2, <2>1, <2>2
<1>4. TypeOK'
  BY <1>2, <1>3 DEF TypeOK, db, history
<1>5. ASSUME NEW d \in Calls
      PROVE  at'[d] >= at[d] /\ at'[d] <= Len(plan[d]) /\ at'[d] \in Nat
  <2>1. at[d] \in Nat /\ at[d] <= Len(plan[d]) /\ at \in [Calls -> Nat]
    BY DEF TypeOK, Ordered
  <2>2. CASE at' = at
    BY <2>1, <2>2
  <2>3. CASE at' = [at EXCEPT ![c] = @ + 1]
    <3>1. at'[d] = IF d = c THEN at[c] + 1 ELSE at[d]
      BY <2>1, <2>3
    <3>2. Len(plan[c]) \in Nat
      BY <1>1
    <3>3. QED BY <3>1, <3>2, <2>1, <1>1
  <2>4. QED BY <2>2, <2>3, <1>2
<1>6. Ordered'
  <2>1. \A j \in 1..Len(queue) : Submitted(queue[j])'
    BY <1>2, <1>5, QueuedOp DEF Ordered, Submitted, TypeOK
  <2>2. cur # Idle => Submitted(cur.op)'
    BY <1>2, <1>5, JobFields DEF Ordered, Submitted, TypeOK
  <2>3. QED BY <2>1, <2>2, <1>2, <1>5 DEF Ordered
<1>7. Staged'
  BY <1>2 DEF Staged
<1>8. QED BY <1>4, <1>6, <1>7

LEMMA EnqueueKeepsLine == ASSUME LineInv, NEW c \in Calls, Enqueue(c) PROVE LineInv'
<1> USE DEF LineInv
<1>1. plan[c] \in Seq(Kinds) /\ at[c] \in Nat /\ at[c] < Len(plan[c])
  BY PlanIsSeq DEF Enqueue, Left, TypeOK
<1>2. PICK op \in Ops : op = NextOp(c) /\ op.call = c /\ op.n = at[c] + 1
                        /\ op.kind = plan[c][at[c] + 1]
  BY NextOpIsOp DEF Enqueue
<1>3. /\ queue' = Append(queue, op)
      /\ at' = [at EXCEPT ![c] = @ + 1]
      /\ admitted' = admitted \ {c}
      /\ UNCHANGED <<plan, cur, backlog, db, history, lost, closed, faults, crashes>>
  BY <1>2 DEF Enqueue
<1>4. queue \in Seq(Ops)
  BY DEF TypeOK
<1>5. /\ queue' \in Seq(Ops) /\ Len(queue') = Len(queue) + 1
      /\ queue'[Len(queue) + 1] = op
      /\ \A j \in 1..Len(queue) : queue'[j] = queue[j]
      /\ Len(queue) \in Nat
  BY <1>3, <1>4
<1>6. TypeOK'
  BY <1>1, <1>3, <1>5 DEF TypeOK, db, history
<1>7. \A d \in Calls : at'[d] >= at[d] /\ at'[d] <= Len(plan[d]) /\ at'[d] \in Nat
  BY <1>1, <1>3 DEF TypeOK, Ordered
<1>8. at'[c] = at[c] + 1
  BY <1>1, <1>3 DEF TypeOK
<1>9. ASSUME NEW j \in 1..Len(queue') PROVE j \in 1..Len(queue) \/ j = Len(queue) + 1
  BY <1>5
<1>10. Ordered'
  <2>1. \A j \in 1..Len(queue) : Submitted(queue[j])'
    <3> SUFFICES ASSUME NEW j \in 1..Len(queue) PROVE Submitted(queue[j])'
      OBVIOUS
    <3>1. Submitted(queue[j]) /\ queue[j].call \in Calls /\ queue[j].n \in Nat
      BY QueuedOp DEF Ordered
    <3>2. queue'[j] = queue[j]
      BY <1>5
    <3>3. queue[j].n <= at'[queue[j].call] /\ queue[j].kind = plan[queue[j].call][queue[j].n]
      BY <3>1, <1>7 DEF Submitted, TypeOK
    <3>4. QED BY <3>2, <3>3, <1>3 DEF Submitted
  <2>2. op.n <= at'[op.call] /\ op.kind = plan'[op.call][op.n]
    BY <1>1, <1>2, <1>3, <1>8
  <2>3. \A j \in 1..Len(queue') : Submitted(queue[j])'
    BY <2>1, <2>2, <1>5, <1>9 DEF Submitted
  <2>4. cur' # Idle => Submitted(cur.op)'
    BY <1>3, <1>7, JobFields DEF Ordered, Submitted, TypeOK
  <2>5. \A j, k \in 1..Len(queue') :
           j < k /\ queue'[j].call = queue'[k].call => queue'[j].n < queue'[k].n
    <3> SUFFICES ASSUME NEW j \in 1..Len(queue'), NEW k \in 1..Len(queue'), j < k,
                        queue'[j].call = queue'[k].call
                 PROVE  queue'[j].n < queue'[k].n
      OBVIOUS
    <3>1. j \in 1..Len(queue) /\ queue'[j] = queue[j]
      BY <1>5, <1>9
    <3>2. CASE k \in 1..Len(queue)
      BY <3>1, <3>2, <1>5 DEF Ordered
    <3>3. CASE k = Len(queue) + 1
      <4>1. queue[j].call = c /\ queue[j].n <= at[c] /\ queue[j].n \in Nat
        BY <3>1, <3>3, <1>2, <1>5, QueuedOp DEF Ordered, Submitted
      <4>2. QED BY <4>1, <3>1, <3>3, <1>1, <1>2, <1>5
    <3>4. QED BY <3>2, <3>3, <1>9
  <2>6. cur' # Idle => \A j \in 1..Len(queue') :
           queue'[j].call = cur'.op.call => cur'.op.n < queue'[j].n
    <3> SUFFICES ASSUME cur # Idle, NEW j \in 1..Len(queue'), queue'[j].call = cur.op.call
                 PROVE  cur.op.n < queue'[j].n
      BY <1>3
    <3>1. CASE j \in 1..Len(queue)
      BY <3>1, <1>5 DEF Ordered
    <3>2. CASE j = Len(queue) + 1
      <4>1. cur.op.call = c /\ cur.op.n <= at[c] /\ cur.op.n \in Nat
        BY <3>2, <1>2, <1>5, JobFields DEF Ordered, Submitted
      <4>2. QED BY <4>1, <3>2, <1>1, <1>2, <1>5
    <3>3. QED BY <3>1, <3>2, <1>9
  <2>7. \A d \in Calls : at'[d] <= Len(plan'[d])
    BY <1>3, <1>7
  <2>8. QED BY <2>3, <2>4, <2>5, <2>6, <2>7 DEF Ordered
<1>11. Staged'
  BY <1>3 DEF Staged
<1>12. QED BY <1>6, <1>10, <1>11

(* What keeps the line in order: the requests go on, and the writer keeps  *)
(* its write or is through with it.                                        *)
LEMMA SameLine ==
    ASSUME LineInv, plan' = plan, queue' = queue,
           \A d \in Calls : at'[d] \in Nat /\ at[d] <= at'[d] /\ at'[d] <= Len(plan[d]),
           cur' = Idle \/ (cur # Idle /\ cur'.op = cur.op)
    PROVE  Ordered'
<1> USE DEF LineInv
<1>1. \A j \in 1..Len(queue) : Submitted(queue[j])'
  BY QueuedOp DEF Ordered, Submitted, TypeOK
<1>2. cur' # Idle => Submitted(cur.op)'
  BY JobFields DEF Ordered, Submitted, TypeOK
<1>3. cur' # Idle => \A j \in 1..Len(queue') :
         queue'[j].call = cur'.op.call => cur'.op.n < queue'[j].n
  BY DEF Ordered
<1>4. \A j, k \in 1..Len(queue') :
         j < k /\ queue'[j].call = queue'[k].call => queue'[j].n < queue'[k].n
  BY DEF Ordered
<1>5. QED BY <1>1, <1>2, <1>3, <1>4 DEF Ordered

LEMMA SameTimes ==
    ASSUME LineInv, UNCHANGED <<plan, at>>
    PROVE  \A d \in Calls : at'[d] \in Nat /\ at[d] <= at'[d] /\ at'[d] <= Len(plan[d])
BY DEF LineInv, TypeOK, Ordered

LEMMA SendKeepsLine == ASSUME LineInv, NEW c \in Calls, SendOnClosed(c) PROVE LineInv'
<1> USE DEF LineInv
<1>1. plan[c] \in Seq(Kinds) /\ Len(plan[c]) \in Nat
  BY PlanIsSeq
<1>2. NextOp(c) \in Ops
  BY NextOpIsOp DEF SendOnClosed
<1>3. /\ lost' = lost \cup {NextOp(c)}
      /\ at' = [at EXCEPT ![c] = Len(plan[c])]
      /\ UNCHANGED <<plan, admitted, queue, cur, backlog, db, history, closed, faults, crashes>>
  BY DEF SendOnClosed
<1>4. at \in [Calls -> Nat] /\ at' \in [Calls -> Nat]
  BY <1>1, <1>3 DEF TypeOK
<1>5. TypeOK'
  BY <1>2, <1>3, <1>4 DEF TypeOK, db, history
<1>6. \A d \in Calls : at'[d] \in Nat /\ at[d] <= at'[d] /\ at'[d] <= Len(plan[d])
  BY <1>1, <1>3, <1>4 DEF Ordered
<1>7. Ordered'
  BY <1>3, <1>6, SameLine
<1>8. QED BY <1>5, <1>7, <1>3 DEF Staged

(* The head of the queue is in the writer's hand. *)
LEMMA TakeStep ==
    ASSUME LineInv, Take
    PROVE  /\ cur = Idle /\ Len(queue) \in Nat /\ Len(queue) >= 1
           /\ cur' # Idle /\ cur' \in Jobs
           /\ cur'.op = queue[1] /\ ~cur'.settled
           /\ cur'.stage = IF queue[1].kind = "upsert" THEN "create" ELSE queue[1].kind
           /\ queue' \in Seq(Ops) /\ Len(queue') = Len(queue) - 1
           /\ \A j \in 1..Len(queue') : j + 1 \in 1..Len(queue) /\ queue'[j] = queue[j + 1]
           /\ UNCHANGED <<plan, at, admitted, backlog, db, history, lost, closed, faults, crashes>>
<1>1. queue \in Seq(Ops) /\ queue # <<>>
  BY DEF LineInv, TypeOK, Take
<1>2. /\ Len(queue) \in Nat /\ Len(queue) >= 1 /\ Head(queue) = queue[1] /\ queue[1] \in Ops
      /\ Tail(queue) \in Seq(Ops) /\ Len(Tail(queue)) = Len(queue) - 1
      /\ \A j \in 1..(Len(queue) - 1) : Tail(queue)[j] = queue[j + 1]
  BY <1>1
<1>3. PICK op \in Ops : op = Head(queue) /\ op = queue[1] /\ op.kind \in Kinds
  BY <1>2 DEF Ops
<1>4. PICK stage \in Kinds : stage = IF op.kind = "upsert" THEN "create" ELSE op.kind
  BY <1>3 DEF Kinds
<1>5. cur' = [busy |-> TRUE, op |-> op, tries |-> 1, stage |-> stage, settled |-> FALSE]
  BY <1>3, <1>4 DEF Take
<1>6. cur' \in Jobs /\ cur'.op = op /\ cur'.stage = stage /\ ~cur'.settled
  BY <1>3, <1>4, <1>5 DEF Jobs
<1>7. cur' # Idle
  BY <1>6, JobIsNotIdle
<1>8. queue' = Tail(queue) /\ cur = Idle
  BY DEF Take
<1>9. QED BY <1>1, <1>2, <1>3, <1>4, <1>6, <1>7, <1>8 DEF Take

LEMMA TakeKeepsLine == ASSUME LineInv, Take PROVE LineInv'
<1> USE DEF LineInv
<1>1. /\ cur = Idle /\ Len(queue) \in Nat /\ Len(queue) >= 1
      /\ cur' # Idle /\ cur' \in Jobs
      /\ cur'.op = queue[1]
      /\ queue' \in Seq(Ops) /\ Len(queue') = Len(queue) - 1
      /\ \A j \in 1..Len(queue') : j + 1 \in 1..Len(queue) /\ queue'[j] = queue[j + 1]
      /\ UNCHANGED <<plan, at, admitted, backlog, db, history, lost, closed, faults, crashes>>
  BY TakeStep
<1>2. TypeOK'
  BY <1>1 DEF TypeOK, db, history
<1>3. \A j \in 1..Len(queue) : Submitted(queue[j])
  BY DEF Ordered
<1>4. \A j \in 1..Len(queue') : Submitted(queue[j])'
  BY <1>1, <1>3 DEF Submitted
<1>5. Submitted(cur.op)'
  <2>1. 1 \in 1..Len(queue)
    BY <1>1
  <2>2. Submitted(queue[1])
    BY <2>1, <1>3
  <2>3. QED BY <2>2, <1>1 DEF Submitted
<1>6. \A j, k \in 1..Len(queue) :
         j < k /\ queue[j].call = queue[k].call => queue[j].n < queue[k].n
  BY DEF Ordered
<1>7. \A j, k \in 1..Len(queue') :
         j < k /\ queue'[j].call = queue'[k].call => queue'[j].n < queue'[k].n
  <2> SUFFICES ASSUME NEW j \in 1..Len(queue'), NEW k \in 1..Len(queue'), j < k,
                      queue'[j].call = queue'[k].call
               PROVE  queue'[j].n < queue'[k].n
    OBVIOUS
  <2>1. PICK i, l \in 1..Len(queue) : i = j + 1 /\ l = k + 1
    BY <1>1
  <2>2. i < l /\ queue'[j] = queue[i] /\ queue'[k] = queue[l]
    BY <1>1, <2>1
  <2>3. QED BY <2>2, <1>6
<1>8. \A j \in 1..Len(queue') : queue'[j].call = cur'.op.call => cur'.op.n < queue'[j].n
  <2> SUFFICES ASSUME NEW j \in 1..Len(queue'), queue'[j].call = queue[1].call
               PROVE  queue[1].n < queue'[j].n
    BY <1>1
  <2>1. PICK i \in 1..Len(queue) : i = j + 1
    BY <1>1
  <2>2. 1 \in 1..Len(queue) /\ 1 < i /\ queue'[j] = queue[i]
    BY <1>1, <2>1
  <2>3. QED BY <2>2, <1>6
<1>9. Ordered'
  BY <1>1, <1>4, <1>5, <1>7, <1>8 DEF Ordered
<1>10. Staged'
  BY TakeStep DEF Staged
<1>11. QED BY <1>2, <1>9, <1>10

(* The writer goes on with the write in its hand. *)
LEMMA WriteStep ==
    ASSUME LineInv, Write
    PROVE  /\ cur # Idle /\ ~cur.settled /\ cur' # Idle /\ cur' \in Jobs /\ cur'.op = cur.op
           /\ IF Accepts(cur.stage, cur.op.call)
              THEN /\ Commit(cur.stage, cur.op.call)
                   /\ IF GoesOn
                      THEN /\ cur'.stage = "finalize" /\ ~cur'.settled
                           /\ UNCHANGED <<done, failed>>
                      ELSE /\ cur'.stage = cur.stage /\ cur'.settled
                           /\ done' = done \cup {cur.op} /\ UNCHANGED failed
              ELSE /\ cur'.stage = cur.stage /\ cur'.settled
                   /\ failed' = failed \cup {cur.op} /\ UNCHANGED done
                   /\ UNCHANGED <<status, raw, composed>>
           /\ UNCHANGED <<plan, at, admitted, queue, backlog, faulted, lost, closed, faults, crashes>>
<1>1. cur # Idle /\ ~cur.settled /\ cur \in Jobs
  BY JobFields DEF LineInv, Write, Applying
<1>2. "finalize" \in Kinds
  BY DEF Kinds
<1> DEFINE next == [cur EXCEPT !.stage = "finalize", !.tries = 1]
           over == [cur EXCEPT !.settled = TRUE]
<1>3. next \in Jobs /\ next.op = cur.op /\ next.stage = "finalize" /\ ~next.settled
  BY <1>1, <1>2 DEF Jobs
<1>4. over \in Jobs /\ over.op = cur.op /\ over.stage = cur.stage /\ over.settled
  BY <1>1 DEF Jobs
<1>5. CASE Accepts(cur.stage, cur.op.call) /\ GoesOn
  <2>1. cur' = next /\ Commit(cur.stage, cur.op.call) /\ UNCHANGED <<done, failed>>
    BY <1>5 DEF Write
  <2> HIDE DEF next
  <2>2. QED BY <2>1, <1>1, <1>3, <1>5, JobIsNotIdle DEF Write
<1>6. CASE Accepts(cur.stage, cur.op.call) /\ ~GoesOn
  <2>1. /\ cur' = over /\ Commit(cur.stage, cur.op.call)
        /\ done' = done \cup {cur.op} /\ UNCHANGED failed
    BY <1>6 DEF Write
  <2> HIDE DEF over
  <2>2. QED BY <2>1, <1>1, <1>4, <1>6, JobIsNotIdle DEF Write
<1>7. CASE ~Accepts(cur.stage, cur.op.call)
  <2>1. cur' = over /\ GiveUp /\ UNCHANGED db
    BY <1>7 DEF Write
  <2> HIDE DEF over
  <2>2. QED BY <2>1, <1>1, <1>4, <1>7, JobIsNotIdle DEF Write, GiveUp, db
<1>8. QED BY <1>5, <1>6, <1>7

LEMMA CommitTypes ==
    ASSUME TypeOK, NEW stage, NEW c \in Calls, Commit(stage, c)
    PROVE  /\ status' \in [Calls -> Statuses]
           /\ raw' \subseteq Calls /\ composed' \subseteq Calls
BY DEF TypeOK, Commit, Statuses

LEMMA WriteKeepsLine == ASSUME LineInv, Write PROVE LineInv'
<1> USE DEF LineInv
<1>1. /\ cur # Idle /\ cur' # Idle /\ cur' \in Jobs /\ cur'.op = cur.op
      /\ UNCHANGED <<plan, at, admitted, queue, backlog, faulted, lost, closed, faults, crashes>>
  BY WriteStep
<1>2. cur.op \in Ops /\ cur.op.call \in Calls
  BY <1>1, JobFields
<1>3. /\ status' \in [Calls -> Statuses]
      /\ raw' \subseteq Calls /\ composed' \subseteq Calls
  <2>1. CASE Accepts(cur.stage, cur.op.call)
    BY <2>1, <1>2, WriteStep, CommitTypes
  <2>2. CASE ~Accepts(cur.stage, cur.op.call)
    BY <2>2, WriteStep DEF TypeOK
  <2>3. QED BY <2>1, <2>2
<1>4. done' \subseteq Ops /\ failed' \subseteq Ops
  BY <1>2, WriteStep DEF TypeOK
<1>5. TypeOK'
  BY <1>1, <1>3, <1>4 DEF TypeOK
<1>6. Ordered'
  BY <1>1, SameTimes, SameLine
<1>7. Staged'
  <2>1. CASE Accepts(cur.stage, cur.op.call) /\ GoesOn
    BY <2>1, <1>1, WriteStep DEF GoesOn, Staged
  <2>2. CASE ~(Accepts(cur.stage, cur.op.call) /\ GoesOn)
    BY <2>2, <1>1, WriteStep DEF Staged
  <2>3. QED BY <2>1, <2>2
<1>8. QED BY <1>5, <1>6, <1>7

(* The store is busy or fails: the write is tried again, or given up.      *)
LEMMA StallStep ==
    ASSUME LineInv, Busy \/ Fault
    PROVE  /\ cur # Idle /\ ~cur.settled /\ cur' # Idle /\ cur' \in Jobs
           /\ cur'.op = cur.op /\ cur'.stage = cur.stage
           /\ \/ ~cur'.settled /\ UNCHANGED <<done, failed, faulted>>
              \/ /\ cur'.settled
                 /\ failed' = failed \cup {cur.op} /\ UNCHANGED done
                 /\ faulted' = faulted \cup {cur.op.call}
           /\ faults' \in Nat
           /\ UNCHANGED <<plan, at, admitted, queue, backlog, status, raw, composed,
                          lost, closed, crashes>>
<1>1. cur # Idle /\ ~cur.settled /\ cur \in Jobs /\ cur.tries \in Nat
  BY JobFields DEF LineInv, Busy, Fault, Applying
<1> DEFINE again == [cur EXCEPT !.tries = @ + 1]
           over == [cur EXCEPT !.settled = TRUE]
<1>2. again \in Jobs /\ again.op = cur.op /\ again.stage = cur.stage /\ ~again.settled
  <2>1. PICK n \in Nat : n = cur.tries + 1
    BY <1>1
  <2>2. PICK job \in Jobs : job = cur
    BY <1>1
  <2>3. PICK more : more = [job EXCEPT !.tries = n]
    OBVIOUS
  <2>4. more \in Jobs /\ more.op = job.op /\ more.stage = job.stage /\ more.settled = job.settled
    BY <2>3 DEF Jobs
  <2>5. more = again
    BY <2>1, <2>2, <2>3
  <2>6. QED BY <2>2, <2>4, <2>5, <1>1
<1>3. over \in Jobs /\ over.op = cur.op /\ over.stage = cur.stage /\ over.settled
  BY <1>1 DEF Jobs
<1>4. \/ cur' = again /\ UNCHANGED <<done, failed, faulted>>
      \/ /\ cur' = over
         /\ failed' = failed \cup {cur.op} /\ UNCHANGED done
         /\ faulted' = faulted \cup {cur.op.call}
  BY DEF Busy, Fault, RetryBusy, GiveUp, history
<1>5. /\ faults' \in Nat
      /\ UNCHANGED <<plan, at, admitted, queue, backlog, status, raw, composed,
                     lost, closed, crashes>>
  <2>1. faults \in Nat
    BY DEF LineInv, TypeOK
  <2>2. CASE Busy
    BY <2>1, <2>2 DEF Busy, RetryBusy, db
  <2>3. CASE Fault
    BY <2>1, <2>3 DEF Fault, db
  <2>4. QED BY <2>2, <2>3
<1> HIDE DEF again, over
<1>6. QED BY <1>1, <1>2, <1>3, <1>4, <1>5, JobIsNotIdle

LEMMA StallKeepsLine == ASSUME LineInv, Busy \/ Fault PROVE LineInv'
<1> USE DEF LineInv
<1>1. /\ cur # Idle /\ cur' # Idle /\ cur' \in Jobs /\ cur'.op = cur.op /\ cur'.stage = cur.stage
      /\ faults' \in Nat
      /\ UNCHANGED <<plan, at, admitted, queue, backlog, status, raw, composed,
                     lost, closed, crashes>>
  BY StallStep
<1>2. cur.op \in Ops /\ cur.op.call \in Calls
  BY <1>1, JobFields
<1>3. done' \subseteq Ops /\ failed' \subseteq Ops /\ faulted' \subseteq Calls
  BY <1>2, StallStep DEF TypeOK
<1>4. TypeOK'
  BY <1>1, <1>3 DEF TypeOK
<1>5. Ordered'
  BY <1>1, SameTimes, SameLine
<1>6. Staged'
  BY <1>1 DEF Staged
<1>7. QED BY <1>4, <1>5, <1>6

LEMMA ReleaseKeepsLine == ASSUME LineInv, Release PROVE LineInv'
<1> USE DEF LineInv
<1>1. /\ cur # Idle /\ cur' = Idle /\ backlog' = backlog - Charge(cur.op)
      /\ UNCHANGED <<plan, at, admitted, queue, db, history, lost, closed, faults, crashes>>
  BY DEF Release, Released
<1>2. Charge(cur.op) \in Nat
  BY <1>1, JobFields, SizesPositive DEF Charge
<1>3. backlog' \in Int
  BY <1>1, <1>2 DEF TypeOK
<1>4. TypeOK'
  BY <1>1, <1>3 DEF TypeOK, db, history
<1>5. Ordered'
  BY <1>1, SameTimes, SameLine
<1>6. Staged'
  BY <1>1 DEF Staged
<1>7. QED BY <1>4, <1>5, <1>6

LEMMA CloseKeepsLine == ASSUME LineInv, Close PROVE LineInv'
<1> USE DEF LineInv
<1>1. /\ closed' = TRUE
      /\ UNCHANGED <<plan, at, admitted, queue, cur, backlog, db, history, lost, faults, crashes>>
  BY DEF Close
<1>2. closed' \in BOOLEAN
  BY <1>1
<1>3. TypeOK'
  BY <1>1, <1>2 DEF TypeOK, db, history
<1>4. Ordered'
  BY <1>1, SameTimes, SameLine
<1>5. Staged'
  BY <1>1 DEF Staged
<1>6. QED BY <1>3, <1>4, <1>5

(* What a crash leaves: an empty line, and requests that are over or have  *)
(* not begun.                                                              *)
LEMMA CrashStep ==
    ASSUME LineInv, Crash
    PROVE  /\ cur' = Idle /\ queue' = <<>> /\ Len(queue') = 0
           /\ admitted' = {} /\ backlog' = 0 /\ closed' = FALSE
           /\ at' \in [Calls -> Nat]
           /\ \A c \in Calls : at'[c] = IF at[c] > 0 THEN Len(plan[c]) ELSE 0
           /\ \A c \in Calls : at[c] <= at'[c] /\ at'[c] <= Len(plan[c])
           /\ lost \subseteq lost'
           /\ \A j \in 1..Len(queue) : queue[j] \in lost'
           /\ Applying => cur.op \in lost'
           /\ \A c \in Calls : Left(c) /\ at[c] > 0 => NextOp(c) \in lost'
           /\ \A op \in lost' : \/ op \in lost
                                \/ \E j \in 1..Len(queue) : op = queue[j]
                                \/ Applying /\ op = cur.op
                                \/ \E c \in Calls : Left(c) /\ at[c] > 0 /\ op = NextOp(c)
           /\ crashes' = crashes + 1
           /\ UNCHANGED <<plan, status, raw, composed, done, failed, faulted, faults>>
<1>1. queue \in Seq(Ops) /\ DOMAIN queue = 1..Len(queue)
  BY DEF LineInv, TypeOK
<1>2. \A c \in Calls : /\ plan[c] \in Seq(Kinds) /\ Len(plan[c]) \in Nat
                       /\ at[c] \in Nat /\ at[c] <= Len(plan[c])
  BY PlanIsSeq DEF LineInv, TypeOK, Ordered
<1>3. at' = [c \in Calls |-> IF at[c] > 0 THEN Len(plan[c]) ELSE 0]
  BY DEF Crash
<1>4. /\ at' \in [Calls -> Nat]
      /\ \A c \in Calls : at'[c] = IF at[c] > 0 THEN Len(plan[c]) ELSE 0
      /\ \A c \in Calls : at[c] <= at'[c] /\ at'[c] <= Len(plan[c])
  BY <1>2, <1>3
<1>5. lost' = lost \cup {queue[i] : i \in DOMAIN queue}
                   \cup (IF Applying THEN {cur.op} ELSE {})
                   \cup {NextOp(c) : c \in {d \in Calls : Left(d) /\ at[d] > 0}}
  BY DEF Crash
<1>6. /\ lost \subseteq lost'
      /\ \A j \in 1..Len(queue) : queue[j] \in lost'
      /\ Applying => cur.op \in lost'
      /\ \A c \in Calls : Left(c) /\ at[c] > 0 => NextOp(c) \in lost'
  BY <1>1, <1>5
<1>7. \A op \in lost' : \/ op \in lost
                        \/ \E j \in 1..Len(queue) : op = queue[j]
                        \/ Applying /\ op = cur.op
                        \/ \E c \in Calls : Left(c) /\ at[c] > 0 /\ op = NextOp(c)
  BY <1>1, <1>5
<1>8. QED BY <1>4, <1>6, <1>7 DEF Crash, db, history

LEMMA CrashKeepsLine == ASSUME LineInv, Crash PROVE LineInv'
<1> USE DEF LineInv
<1>1. /\ cur' = Idle /\ queue' = <<>> /\ Len(queue') = 0
      /\ admitted' = {} /\ backlog' = 0 /\ closed' = FALSE
      /\ at' \in [Calls -> Nat]
      /\ \A c \in Calls : at[c] <= at'[c] /\ at'[c] <= Len(plan[c])
      /\ crashes' = crashes + 1
      /\ UNCHANGED <<plan, status, raw, composed, done, failed, faulted, faults>>
  BY CrashStep
<1>2. ASSUME NEW op \in lost' PROVE op \in Ops
  <2>1. CASE op \in lost
    BY <2>1 DEF TypeOK
  <2>2. CASE \E j \in 1..Len(queue) : op = queue[j]
    BY <2>2, QueuedOp
  <2>3. CASE Applying /\ op = cur.op
    BY <2>3, JobFields DEF Applying
  <2>4. CASE \E c \in Calls : Left(c) /\ at[c] > 0 /\ op = NextOp(c)
    BY <2>4, NextOpIsOp
  <2>5. QED BY <2>1, <2>2, <2>3, <2>4, CrashStep
<1>3. /\ queue' \in Seq(Ops) /\ cur' \in {Idle} \cup Jobs /\ admitted' \subseteq Calls
      /\ lost' \subseteq Ops
  BY <1>1, <1>2
<1>4. closed' \in BOOLEAN
  BY <1>1
<1>5. backlog' \in Int /\ crashes' \in Nat
  BY <1>1 DEF TypeOK
<1>6. TypeOK'
  BY <1>1, <1>3, <1>4, <1>5 DEF TypeOK
<1>7. Ordered'
  BY <1>1 DEF Ordered
<1>8. Staged'
  BY <1>1 DEF Staged
<1>9. QED BY <1>6, <1>7, <1>8

LEMMA LineStep == ASSUME LineInv, [Next]_vars PROVE LineInv'
<1>1. CASE \E c \in Calls : AdmitPayload(c)
  BY <1>1, AdmitKeepsLine
<1>2. CASE \E c \in Calls : Enqueue(c)
  BY <1>2, EnqueueKeepsLine
<1>3. CASE \E c \in Calls : SendOnClosed(c)
  BY <1>3, SendKeepsLine
<1>4. CASE Take
  BY <1>4, TakeKeepsLine
<1>5. CASE Write
  BY <1>5, WriteKeepsLine
<1>6. CASE Busy \/ Fault
  BY <1>6, StallKeepsLine
<1>7. CASE Release
  BY <1>7, ReleaseKeepsLine
<1>8. CASE Close
  BY <1>8, CloseKeepsLine
<1>9. CASE Crash
  BY <1>9, CrashKeepsLine
<1>10. CASE UNCHANGED vars
  <2>1. UNCHANGED <<plan, at, admitted, queue, cur, backlog, status, raw, composed, done,
                    failed, faulted, lost, closed, faults, crashes>>
    BY <1>10 DEF vars, db, history
  <2>2. TypeOK'
    BY <2>1 DEF LineInv, TypeOK
  <2>3. Ordered' /\ Staged'
    BY <2>1 DEF LineInv, Ordered, Submitted, Staged
  <2>4. QED BY <2>2, <2>3 DEF LineInv
<1>11. QED
  BY <1>1, <1>2, <1>3, <1>4, <1>5, <1>6, <1>7, <1>8, <1>9, <1>10 DEF Next, WriterStep

(* The ledger's variables keep their types, and every write that waits or  *)
(* is being applied is the n-th of its call's plan, behind the earlier     *)
(* ones of its call: the queue and the writer never reorder a request      *)
(* (ledger.go:54-67).                                                      *)
THEOREM LineStaysInOrder == Spec => []LineInv
<1>1. Init => LineInv
  BY LineInit
<1>2. LineInv /\ [Next]_vars => LineInv'
  BY LineStep
<1>3. QED BY <1>1, <1>2, PTL DEF Spec

-----------------------------------------------------------------------------
(* The rows. *)

(* A create or an upsert is the first write of its call. *)
LEMMA OpensFirst ==
    ASSUME LineInv, NEW op \in Ops, Submitted(op), op.kind \in {"create", "upsert"}
    PROVE  op.n = 1
<1>1. op.call \in Calls /\ op.n \in Nat \ {0}
  BY DEF Ops
<1>2. PICK p \in Plans : p = plan[op.call] /\ p \in Seq(Kinds) /\ at[op.call] <= Len(p)
  BY <1>1, PlansSubmitOps DEF LineInv, TypeOK, Ordered
<1>3. at[op.call] \in Nat /\ op.n <= at[op.call] /\ p[op.n] = op.kind
  BY <1>1, <1>2 DEF LineInv, TypeOK, Submitted
<1>4. op.n \in DOMAIN p
  BY <1>1, <1>2, <1>3
<1>5. QED BY <1>3, <1>4, PlansOpenFirst

(* What hangs off a row comes after the write that opens it. *)
LEMMA HangsOffARow ==
    ASSUME LineInv, NEW op \in Ops, Submitted(op), op.kind \in {"finalize", "payload", "composition"}
    PROVE  op.n > 1 /\ plan[op.call][1] \in {"create", "upsert"}
<1>1. op.call \in Calls /\ op.n \in Nat \ {0}
  BY DEF Ops
<1>2. PICK p \in Plans : p = plan[op.call] /\ p \in Seq(Kinds) /\ at[op.call] <= Len(p)
  BY <1>1, PlansSubmitOps DEF LineInv, TypeOK, Ordered
<1>3. at[op.call] \in Nat /\ op.n <= at[op.call] /\ p[op.n] = op.kind
  BY <1>1, <1>2 DEF LineInv, TypeOK, Submitted
<1>4. op.n \in DOMAIN p
  BY <1>1, <1>2, <1>3
<1>5. p[1] \in {"create", "upsert"}
  BY <1>3, <1>4, PlansOpenFirst
<1>6. op.n # 1
  BY <1>3, <1>5
<1>7. QED BY <1>1, <1>2, <1>5, <1>6

LEMMA CommitMoves ==
    ASSUME TypeOK, NEW stage, NEW c \in Calls, Accepts(stage, c), Commit(stage, c)
    PROVE  /\ \A d \in Calls : d # c => status'[d] = status[d]
           /\ \A d \in Calls : status[d] # "absent" => status'[d] # "absent"
           /\ \A d \in Calls : status[d] = "final" => status'[d] = "final"
           /\ stage = "create" => status'[c] = "pending"
           /\ stage = "finalize" => status[c] # "absent" /\ status'[c] = "final"
           /\ stage \notin {"create", "finalize"} => status' = status
           /\ raw \subseteq raw'
           /\ stage = "payload" => c \in raw' /\ status'[c] # "absent"
<1>1. status \in [Calls -> Statuses]
  BY DEF TypeOK
<1>2. CASE stage = "create"
  <2>1. status[c] = "absent" /\ status' = [status EXCEPT ![c] = "pending"] /\ raw' = raw
    BY <1>2 DEF Accepts, Commit
  <2>2. QED BY <1>1, <1>2, <2>1
<1>3. CASE stage = "finalize"
  <2>1. status[c] # "absent" /\ status' = [status EXCEPT ![c] = "final"] /\ raw' = raw
    BY <1>3 DEF Accepts, Commit
  <2>2. QED BY <1>1, <1>3, <2>1
<1>4. CASE stage = "payload"
  BY <1>4 DEF Accepts, Commit
<1>5. CASE stage \notin {"create", "finalize", "payload"}
  BY <1>5 DEF Commit
<1>6. QED BY <1>2, <1>3, <1>4, <1>5

LEMMA RowInit == ASSUME Init PROVE RowInv
BY DEF Init, RowInv, AfterSeesTheRow, Applying

(* A step that writes no row. *)
LEMMA SameRows ==
    ASSUME RowInv, UNCHANGED <<status, raw, done>>,
           \A c \in Calls : NoRowYet(c)' => NoRowYet(c),
           Applying' => /\ Applying
                        /\ cur'.op = cur.op /\ cur'.stage = cur.stage
    PROVE  RowInv'
BY DEF RowInv, AfterSeesTheRow

LEMMA WriteKeepsRows == ASSUME LineInv, RowInv, Write PROVE RowInv'
<1>a. cur # Idle /\ cur.op \in Ops /\ cur.op.call \in Calls
  BY WriteStep, JobFields DEF LineInv
<1>b. PICK op \in Ops, c \in Calls : op = cur.op /\ c = cur.op.call
  BY <1>a
<1>1. /\ cur # Idle /\ ~cur.settled /\ cur' # Idle /\ cur'.op = op
      /\ op = cur.op /\ c = op.call /\ cur'.op.call = c
      /\ UNCHANGED <<at, queue>>
  BY <1>b, WriteStep
<1>2. op \in Ops /\ c \in Calls /\ op.kind \in Kinds /\ op.n \in Nat \ {0}
  BY <1>b DEF Ops
<1>3. Submitted(op) /\ Applying
  BY <1>1 DEF LineInv, Ordered, Applying
<1>4. cur'.settled \/ cur'.stage = "finalize"
  BY WriteStep
<1>5. \A d \in Calls : NoRowYet(d)' => NoRowYet(d)
  BY <1>1, <1>4 DEF NoRowYet, Applying
<1>6. CASE ~Accepts(cur.stage, c)
  <2>1. cur'.settled /\ UNCHANGED <<status, raw, done>>
    BY <1>1, <1>6, WriteStep
  <2>2. QED BY <1>5, <2>1, SameRows DEF Applying
<1>7. CASE Accepts(cur.stage, c)
  <2>1. TypeOK /\ Commit(cur.stage, c) /\ Staged
    BY <1>1, <1>7, WriteStep DEF LineInv
  <2>2. /\ \A d \in Calls : d # c => status'[d] = status[d]
        /\ \A d \in Calls : status[d] # "absent" => status'[d] # "absent"
        /\ \A d \in Calls : status[d] = "final" => status'[d] = "final"
        /\ cur.stage = "create" => status'[c] = "pending"
        /\ cur.stage = "finalize" => status[c] # "absent" /\ status'[c] = "final"
        /\ cur.stage \notin {"create", "finalize"} => status' = status
        /\ raw \subseteq raw'
        /\ cur.stage = "payload" => c \in raw' /\ status'[c] # "absent"
    BY <2>1, <1>2, <1>7, CommitMoves
  <2>3. cur.stage = "create" => ~NoRowYet(c)'
    <3> SUFFICES ASSUME cur.stage = "create", NoRowYet(c)' PROVE FALSE
      OBVIOUS
    <3>1. op.kind \in {"create", "upsert"}
      BY <1>1, <2>1 DEF Staged
    <3>2. op.n = 1
      BY <3>1, <1>2, <1>3, OpensFirst
    <3>3. at[c] >= 1 /\ at[c] \in Nat
      <4>1. at[c] \in Nat
        BY <1>2 DEF LineInv, TypeOK
      <4>2. op.n <= at[c]
        BY <1>1, <1>3 DEF Submitted
      <4>3. QED BY <4>1, <4>2, <3>2
    <3>4. \A j \in 1..Len(queue) : queue[j].call = c => op.n < queue[j].n
      BY <1>1 DEF LineInv, Ordered
    <3>5. QED BY <3>2, <3>3, <3>4, <1>1, <1>4 DEF NoRowYet, Applying
  <2>4. ASSUME NEW d \in Calls, NoRowYet(d)' PROVE status'[d] = "absent"
    <3>1. status[d] = "absent"
      BY <2>4, <1>5 DEF RowInv
    <3>2. CASE d = c
      <4>1. cur.stage # "create"
        BY <3>2, <2>3, <2>4
      <4>2. cur.stage # "finalize"
        BY <3>1, <3>2, <2>2
      <4>3. status' = status
        BY <4>1, <4>2, <2>2
      <4>4. QED BY <4>3, <3>1
    <3>3. CASE d # c
      BY <3>1, <3>3, <2>2
    <3>4. QED BY <3>2, <3>3
  <2>5. ASSUME NEW o \in done', o.call \in Calls
        PROVE  /\ o.kind = "create" => status'[o.call] # "absent"
               /\ o.kind \in {"finalize", "upsert"} => status'[o.call] = "final"
               /\ o.kind = "payload" => o.call \in raw' /\ status'[o.call] # "absent"
    <3>1. CASE o \in done
      BY <3>1, <2>2, <2>5 DEF RowInv, AfterSeesTheRow
    <3>2. CASE o \notin done
      <4>1. o = op /\ ~GoesOn
        BY <3>2, <1>1, <1>7, WriteStep
      <4>2. o.kind = "upsert" => cur.stage = "finalize"
        BY <4>1, <1>1, <2>1 DEF GoesOn, Staged
      <4>3. o.kind # "upsert" => cur.stage = o.kind
        BY <4>1, <1>1, <2>1 DEF Staged
      <4>4. o.call = c
        BY <4>1, <1>1
      <4>5. o.kind = "create" => status'[c] # "absent"
        BY <4>3, <2>2
      <4>6. o.kind = "finalize" \/ o.kind = "upsert" => status'[c] = "final"
        BY <4>2, <4>3, <2>2
      <4>7. o.kind = "payload" => c \in raw' /\ status'[c] # "absent"
        BY <4>3, <2>2
      <4>8. QED BY <4>4, <4>5, <4>6, <4>7
    <3>3. QED BY <3>1, <3>2
  <2>6. \A o \in done' : o.call \in Calls
    <3>1. done' \subseteq Ops
      BY WriteKeepsLine DEF LineInv, TypeOK
    <3>2. QED BY <3>1 DEF Ops
  <2>7. (Applying /\ cur.op.kind = "upsert" /\ cur.stage = "finalize"
           => status[cur.op.call] # "absent")'
    <3>1. CASE GoesOn
      BY <3>1, <1>1, <2>2 DEF GoesOn
    <3>2. CASE ~GoesOn
      BY <3>2, <1>1, <1>7, WriteStep DEF Applying
    <3>3. QED BY <3>1, <3>2
  <2>8. QED BY <2>4, <2>5, <2>6, <2>7 DEF RowInv, AfterSeesTheRow
<1>8. QED BY <1>6, <1>7

LEMMA TakeKeepsRows == ASSUME LineInv, RowInv, Take PROVE RowInv'
<1>1. /\ cur = Idle /\ Len(queue) \in Nat /\ Len(queue) >= 1
      /\ cur'.op = queue[1]
      /\ cur'.stage = IF queue[1].kind = "upsert" THEN "create" ELSE queue[1].kind
      /\ \A j \in 1..Len(queue') : j + 1 \in 1..Len(queue) /\ queue'[j] = queue[j + 1]
      /\ UNCHANGED <<at, status, raw, done>>
  BY TakeStep DEF db, history
<1>2. 1 \in 1..Len(queue) /\ queue[1] \in Ops /\ Submitted(queue[1])
  <2>1. 1 \in 1..Len(queue)
    BY <1>1
  <2>2. QED BY <2>1, QueuedOp DEF LineInv, Ordered
<1>3. cur'.stage = "create" => queue[1].n = 1
  BY <1>1, <1>2, OpensFirst
<1>4. ASSUME NEW c \in Calls, NoRowYet(c)' PROVE NoRowYet(c)
  <2>1. CASE at'[c] = 0
    BY <2>1, <1>1 DEF NoRowYet
  <2>2. CASE \E j \in 1..Len(queue') : queue'[j].call = c /\ queue'[j].n = 1
    BY <2>2, <1>1 DEF NoRowYet
  <2>3. CASE Applying' /\ cur'.stage = "create" /\ cur'.op.call = c
    BY <2>3, <1>1, <1>2, <1>3 DEF NoRowYet
  <2>4. QED BY <1>4, <2>1, <2>2, <2>3 DEF NoRowYet
<1>5. cur'.stage # "finalize" \/ cur'.op.kind # "upsert"
  BY <1>1
<1>6. QED BY <1>1, <1>4, <1>5 DEF RowInv, AfterSeesTheRow

LEMMA EnqueueKeepsRows == ASSUME LineInv, RowInv, NEW c \in Calls, Enqueue(c) PROVE RowInv'
<1>1. TypeOK /\ queue \in Seq(Ops) /\ Left(c)
  BY DEF LineInv, TypeOK, Enqueue
<1>2. /\ queue' = Append(queue, NextOp(c))
      /\ at' = [at EXCEPT ![c] = @ + 1]
      /\ UNCHANGED <<cur, status, raw, done>>
  BY DEF Enqueue, db, history
<1>3. PICK op \in Ops : op = NextOp(c) /\ op.call = c /\ op.n = at[c] + 1
  BY <1>1, NextOpIsOp
<1>4. \A j \in 1..Len(queue') :
         (j \in 1..Len(queue) /\ queue'[j] = queue[j]) \/ queue'[j] = op
  BY <1>1, <1>2, <1>3
<1>5. \A d \in Calls : at[d] \in Nat /\ (at'[d] = 0 => at[d] = 0)
  BY <1>2 DEF LineInv, TypeOK
<1>6. ASSUME NEW d \in Calls, NoRowYet(d)' PROVE NoRowYet(d)
  <2>1. CASE at'[d] = 0
    BY <2>1, <1>5 DEF NoRowYet
  <2>2. CASE \E j \in 1..Len(queue') : queue'[j].call = d /\ queue'[j].n = 1
    BY <2>2, <1>3, <1>4, <1>5 DEF NoRowYet
  <2>3. CASE Applying' /\ cur'.stage = "create" /\ cur'.op.call = d
    BY <2>3, <1>2 DEF NoRowYet, Applying
  <2>4. QED BY <1>6, <2>1, <2>2, <2>3 DEF NoRowYet
<1>7. QED BY <1>2, <1>6, SameRows DEF Applying

(* A step that moves nothing into the line, and no request back. *)
LEMMA QuietKeepsRows ==
    ASSUME RowInv, UNCHANGED <<status, raw, done, queue>>,
           \A d \in Calls : at'[d] = 0 => at[d] = 0,
           Applying' => /\ Applying
                        /\ cur'.op = cur.op /\ cur'.stage = cur.stage
    PROVE  RowInv'
<1>1. \A d \in Calls : NoRowYet(d)' => NoRowYet(d)
  BY DEF NoRowYet
<1>2. QED BY <1>1, SameRows

LEMMA RowStep == ASSUME LineInv, RowInv, [Next]_vars PROVE RowInv'
<1>1. CASE \E c \in Calls : AdmitPayload(c)
  <2>1. PICK c \in Calls : AdmitPayload(c)
    BY <1>1
  <2>2. at' = at \/ at' = [at EXCEPT ![c] = @ + 1]
    BY <2>1 DEF AdmitPayload
  <2>3. \A d \in Calls : at'[d] = 0 => at[d] = 0
    <3>1. at \in [Calls -> Nat]
      BY DEF LineInv, TypeOK
    <3>2. QED BY <2>2, <3>1
  <2>4. UNCHANGED <<status, raw, done, queue, cur>>
    BY <2>1 DEF AdmitPayload, db, history
  <2>5. QED BY <2>3, <2>4, QuietKeepsRows DEF Applying
<1>2. CASE \E c \in Calls : Enqueue(c)
  BY <1>2, EnqueueKeepsRows
<1>3. CASE \E c \in Calls : SendOnClosed(c)
  <2>1. PICK c \in Calls : SendOnClosed(c)
    BY <1>3
  <2>2. at' = [at EXCEPT ![c] = Len(plan[c])] /\ at[c] < Len(plan[c])
    BY <2>1 DEF SendOnClosed, Left
  <2>3. at \in [Calls -> Nat] /\ Len(plan[c]) \in Nat
    BY PlanIsSeq DEF LineInv, TypeOK
  <2>4. \A d \in Calls : at'[d] = 0 => at[d] = 0
    BY <2>2, <2>3
  <2>5. UNCHANGED <<status, raw, done, queue, cur>>
    BY <2>1 DEF SendOnClosed, db, history
  <2>6. QED BY <2>4, <2>5, QuietKeepsRows DEF Applying
<1>4. CASE Take
  BY <1>4, TakeKeepsRows
<1>5. CASE Write
  BY <1>5, WriteKeepsRows
<1>6. CASE Busy \/ Fault
  <2>1. /\ cur # Idle /\ ~cur.settled
        /\ cur'.op = cur.op /\ cur'.stage = cur.stage
        /\ UNCHANGED <<status, raw, done, queue, at>>
    BY <1>6, StallStep
  <2>2. QED BY <2>1, QuietKeepsRows DEF Applying
<1>7. CASE Release
  <2>1. cur' = Idle /\ UNCHANGED <<status, raw, done, queue, at>>
    BY <1>7 DEF Release, db, history
  <2>2. QED BY <2>1, QuietKeepsRows DEF Applying
<1>8. CASE Close
  <2>1. UNCHANGED <<status, raw, done, queue, at, cur>>
    BY <1>8 DEF Close, db, history
  <2>2. QED BY <2>1, QuietKeepsRows DEF Applying
<1>9. CASE Crash
  <2>1. /\ cur' = Idle /\ Len(queue') = 0 /\ UNCHANGED <<status, raw, done>>
        /\ at \in [Calls -> Nat] /\ at' \in [Calls -> Nat]
        /\ \A c \in Calls : at[c] <= at'[c]
    BY <1>9, CrashStep DEF LineInv, TypeOK
  <2>2. \A c \in Calls : NoRowYet(c)' => NoRowYet(c)
    BY <2>1 DEF NoRowYet, Applying
  <2>3. QED BY <2>1, <2>2, SameRows DEF Applying
<1>10. CASE UNCHANGED vars
  <2>1. UNCHANGED <<status, raw, done, queue, at, cur>>
    BY <1>10 DEF vars, db, history
  <2>2. QED BY <2>1, QuietKeepsRows DEF Applying
<1>11. QED
  BY <1>1, <1>2, <1>3, <1>4, <1>5, <1>6, <1>7, <1>8, <1>9, <1>10 DEF Next, WriterStep

(* What runs After a write finds what that write stored, at once and for   *)
(* ever (ledger.go:91-96), whatever is queued, retried, failed or lost.    *)
THEOREM AfterAlwaysSeesTheRow == Spec => []AfterSeesTheRow
<1>1. Init => RowInv
  BY RowInit
<1>2. LineInv /\ RowInv /\ [Next]_vars => RowInv'
  BY RowStep
<1>3. RowInv => AfterSeesTheRow
  BY DEF RowInv
<1>4. QED BY <1>1, <1>2, <1>3, LineStaysInOrder, PTL DEF Spec

-----------------------------------------------------------------------------
(* The fate of every write. *)

Told(c, i) == [call |-> c, n |-> i, kind |-> plan[c][i]]

Fate(c, i) ==
    \/ plan[c][i] = "payload"
    \/ Told(c, i) \in InHand \cup done \cup lost
    \/ Told(c, i) \in failed /\ c \in faulted
    \/ \E earlier \in lost : earlier.call = c /\ earlier.n < i

LEMMA FateIs == OnlyPayloadsAreDropped <=> \A c \in Calls : \A i \in 1..at[c] : Fate(c, i)
BY DEF OnlyPayloadsAreDropped, Fate, Told

LEMMA InHandIs ==
    ASSUME queue \in Seq(Ops), NEW op
    PROVE  op \in InHand <=> \/ \E j \in 1..Len(queue) : op = queue[j]
                             \/ cur # Idle /\ op = cur.op
BY DEF InHand, Queued

LEMMA InHandNextIs ==
    ASSUME queue' \in Seq(Ops), NEW op
    PROVE  op \in InHand' <=> \/ \E j \in 1..Len(queue') : op = queue'[j]
                              \/ cur' # Idle /\ op = cur'.op
BY DEF InHand, Queued

(* A step that forgets no write keeps every fate. *)
LEMMA FateStays ==
    ASSUME plan' = plan, done \subseteq done', lost \subseteq lost', failed \subseteq failed',
           faulted \subseteq faulted',
           \A op : op \in InHand =>
              \/ op.kind = "payload"
              \/ op \in InHand' \cup done' \cup lost'
              \/ op \in failed' /\ op.call \in faulted',
           NEW c \in Calls, NEW i, Fate(c, i)
    PROVE  Fate(c, i)'
<1>a. PICK op : op = Told(c, i)
  OBVIOUS
<1>1. op = Told(c, i) /\ op.call = c /\ op.kind = plan[c][i]
  BY <1>a DEF Told
<1>2. op = Told(c, i)'
  BY <1>1 DEF Told
<1>3. CASE plan[c][i] = "payload"
  BY <1>3 DEF Fate
<1>4. CASE op \in InHand
  BY <1>1, <1>2, <1>4 DEF Fate
<1>5. CASE op \in done \cup lost
  BY <1>2, <1>5 DEF Fate
<1>6. CASE op \in failed /\ c \in faulted
  BY <1>2, <1>6 DEF Fate
<1>7. CASE \E earlier \in lost : earlier.call = c /\ earlier.n < i
  BY <1>7 DEF Fate
<1>8. QED BY <1>1, <1>3, <1>4, <1>5, <1>6, <1>7 DEF Fate

(* ... and no request moves past a write that has no fate. *)
LEMMA FatesStay ==
    ASSUME LineInv, LineInv', OnlyPayloadsAreDropped,
           plan' = plan, done \subseteq done', lost \subseteq lost', failed \subseteq failed',
           faulted \subseteq faulted',
           \A op : op \in InHand =>
              \/ op.kind = "payload"
              \/ op \in InHand' \cup done' \cup lost'
              \/ op \in failed' /\ op.call \in faulted',
           \A c \in Calls : \A i \in 1..at'[c] : i > at[c] => Fate(c, i)'
    PROVE  OnlyPayloadsAreDropped'
<1>1. ASSUME NEW c \in Calls, NEW i \in 1..at'[c] PROVE Fate(c, i)'
  <2>1. at[c] \in Nat /\ at'[c] \in Nat
    BY DEF LineInv, TypeOK
  <2>2. CASE i \in 1..at[c]
    <3>1. Fate(c, i)
      BY <2>2, FateIs
    <3>2. QED BY <3>1, FateStays
  <2>3. CASE i \notin 1..at[c]
    BY <2>1, <2>3
  <2>4. QED BY <2>2, <2>3
<1>2. QED BY <1>1 DEF OnlyPayloadsAreDropped, Fate, Told

LEMMA SubmittedIsTold ==
    ASSUME LineInv, NEW op \in Ops, Submitted(op)
    PROVE  op = Told(op.call, op.n)
BY DEF Ops, Submitted, Told

LEMMA NextIsTold ==
    ASSUME LineInv, NEW c \in Calls
    PROVE  NextOp(c) = Told(c, at[c] + 1)
BY DEF NextOp, Told

(* The store refuses a write that is not a payload only if it failed an    *)
(* earlier write of the call by itself.                                    *)
LEMMA RefusedIsAccounted ==
    ASSUME LineInv, RowInv, FateInv, Applying, ~Accepts(cur.stage, cur.op.call),
           cur.op.kind # "payload"
    PROVE  cur.op.call \in faulted
<1>1. cur # Idle /\ ~cur.settled
  BY DEF Applying
<1>2. PICK op \in Ops, c \in Calls :
         op = cur.op /\ c = op.call /\ op.n \in Nat \ {0} /\ op.kind \in Kinds
  BY <1>1, JobFields DEF LineInv
<1>3. Submitted(op) /\ at[c] \in Nat /\ op.n <= at[c]
  BY <1>1, <1>2 DEF LineInv, Ordered, Submitted, TypeOK
<1>4. cur.stage # "create"
  <2> SUFFICES ASSUME cur.stage = "create" PROVE FALSE
    OBVIOUS
  <2>1. NoRowYet(c)
    BY <1>2 DEF NoRowYet
  <2>2. status[c] = "absent"
    BY <2>1 DEF RowInv
  <2>3. QED BY <2>2, <1>2 DEF Accepts
<1>5. op.kind # "upsert"
  <2> SUFFICES ASSUME op.kind = "upsert" PROVE FALSE
    OBVIOUS
  <2>1. cur.stage = "finalize"
    BY <1>1, <1>2, <1>4 DEF LineInv, Staged
  <2>2. status[c] # "absent"
    BY <1>2, <2>1 DEF RowInv
  <2>3. QED BY <2>1, <2>2, <1>2 DEF Accepts
<1>6. cur.stage = op.kind
  BY <1>1, <1>2, <1>5 DEF LineInv, Staged
<1>7. op.kind \in {"finalize", "composition"} /\ status[c] = "absent"
  BY <1>2, <1>4, <1>5, <1>6 DEF Accepts, Kinds
<1>8. op.n > 1 /\ plan[c][1] \in {"create", "upsert"}
  BY <1>2, <1>3, <1>7, HangsOffARow
<1>a. PICK first : first = Told(c, 1)
  OBVIOUS
<1>9. first = Told(c, 1) /\ first.call = c /\ first.n = 1 /\ first.kind = plan[c][1]
  BY <1>a DEF Told
<1>10. Fate(c, 1)
  <2>1. 1 \in 1..at[c]
    BY <1>3, <1>8, <1>2
  <2>2. QED BY <2>1, FateIs DEF FateInv
<1>11. first \notin InHand
  <2>1. \A j \in 1..Len(queue) : queue[j].call = c => op.n < queue[j].n
    BY <1>1, <1>2 DEF LineInv, Ordered
  <2>2. ~ \E j \in 1..Len(queue) : first = queue[j]
    BY <2>1, <1>2, <1>8, <1>9
  <2>3. first # cur.op
    BY <1>2, <1>8, <1>9
  <2>4. queue \in Seq(Ops)
    BY DEF LineInv, TypeOK
  <2>5. QED BY <2>2, <2>3, <2>4, InHandIs
<1>12. first \notin done
  <2> SUFFICES ASSUME first \in done PROVE FALSE
    OBVIOUS
  <2>1. CASE first.kind = "create"
    BY <2>1, <1>7, <1>9 DEF RowInv
  <2>2. CASE first.kind = "upsert"
    BY <2>2, <1>7, <1>9 DEF RowInv, AfterSeesTheRow
  <2>3. QED BY <2>1, <2>2, <1>8, <1>9
<1>13. first \notin lost
  BY <1>1, <1>2, <1>8, <1>9 DEF FateInv, LostLast
<1>14. ~ \E earlier \in lost : earlier.call = c /\ earlier.n < 1
  <2>1. \A earlier \in lost : earlier \in Ops
    BY DEF LineInv, TypeOK
  <2>2. \A earlier \in lost : earlier.n \in Nat \ {0}
    BY <2>1 DEF Ops
  <2>3. QED BY <2>2
<1>15. QED BY <1>2, <1>8, <1>9, <1>10, <1>11, <1>12, <1>13, <1>14 DEF Fate

LEMMA LineTypes ==
    ASSUME LineInv
    PROVE  /\ queue \in Seq(Ops) /\ Len(queue) \in Nat
           /\ \A c \in Calls : /\ at[c] \in Nat /\ at[c] <= Len(plan[c])
                               /\ Len(plan[c]) \in Nat
           /\ \A op \in lost : /\ op.call \in Calls /\ op.n \in Nat \ {0}
           /\ \A op \in done \cup failed \cup lost : op \in Ops
<1>1. queue \in Seq(Ops) /\ lost \subseteq Ops /\ done \subseteq Ops /\ failed \subseteq Ops
  BY DEF LineInv, TypeOK
<1>2. \A op \in lost : op.call \in Calls /\ op.n \in Nat \ {0}
  <2>1. \A op \in Ops : op.call \in Calls /\ op.n \in Nat \ {0}
    BY DEF Ops
  <2>2. QED BY <1>1, <2>1
<1>3. ASSUME NEW c \in Calls
      PROVE  at[c] \in Nat /\ at[c] <= Len(plan[c]) /\ Len(plan[c]) \in Nat
  BY PlanIsSeq DEF LineInv, TypeOK, Ordered
<1>4. QED BY <1>1, <1>2, <1>3

(* A request that still has something to submit has lost nothing. *)
LEMMA LostIsOver ==
    ASSUME LineInv, LostLast, NEW c \in Calls, Left(c), NEW op \in lost
    PROVE  op.call # c
BY LineTypes DEF LostLast, Left

(* A step that leaves the line and what was lost alone. *)
LEMMA SameLost ==
    ASSUME LostLast, plan' = plan, queue' = queue, lost' = lost,
           \A op \in lost : at'[op.call] = at[op.call],
           cur' = Idle \/ (cur # Idle /\ cur'.op = cur.op)
    PROVE  LostLast'
BY DEF LostLast

LEMMA FateInit == ASSUME Init PROVE FateInv
BY DEF Init, FateInv, LostLast, OnlyPayloadsAreDropped

LEMMA AdmitKeepsFate == ASSUME LineInv, FateInv, NEW c \in Calls, AdmitPayload(c) PROVE FateInv'
<1>1. /\ at' = at \/ at' = [at EXCEPT ![c] = @ + 1]
      /\ Left(c) /\ NextOp(c).kind = "payload"
      /\ UNCHANGED <<plan, queue, cur, done, failed, faulted, lost>>
  BY DEF AdmitPayload, db, history
<1>2. LineInv'
  BY AdmitKeepsLine
<1>3. at \in [Calls -> Nat]
  BY DEF LineInv, TypeOK
<1>4. LostLast'
  <2>1. \A op \in lost : op.call \in Calls /\ op.call # c
    BY <1>1, LineTypes, LostIsOver DEF FateInv
  <2>2. \A op \in lost : at'[op.call] = at[op.call]
    BY <2>1, <1>1, <1>3
  <2>3. QED BY <2>2, <1>1, SameLost DEF FateInv
<1>5. OnlyPayloadsAreDropped'
  <2>1. InHand' = InHand
    BY <1>1 DEF InHand, Queued
  <2>2. ASSUME NEW d \in Calls, NEW i \in 1..at'[d], i > at[d] PROVE Fate(d, i)'
    <3>1. d = c /\ i = at[c] + 1
      BY <2>2, <1>1, <1>3
    <3>2. plan'[d][i] = "payload"
      BY <3>1, <1>1, NextOpIsOp DEF LineInv
    <3>3. QED BY <3>2 DEF Fate
  <2>3. QED BY <2>1, <2>2, <1>1, <1>2, FatesStay DEF FateInv
<1>6. QED BY <1>1, <1>4, <1>5 DEF FateInv, Accounted

LEMMA EnqueueKeepsFate == ASSUME LineInv, FateInv, NEW c \in Calls, Enqueue(c) PROVE FateInv'
<1>1. /\ queue' = Append(queue, NextOp(c))
      /\ at' = [at EXCEPT ![c] = @ + 1]
      /\ Left(c)
      /\ UNCHANGED <<plan, cur, done, failed, faulted, lost>>
  BY DEF Enqueue, db, history
<1>2. LineInv'
  BY EnqueueKeepsLine
<1>3. at \in [Calls -> Nat] /\ queue \in Seq(Ops) /\ queue' \in Seq(Ops)
  BY <1>2 DEF LineInv, TypeOK
<1>4. PICK op \in Ops : op = NextOp(c)
  BY <1>1, NextOpIsOp DEF LineInv
<1>5. op.call = c /\ op.n = at[c] + 1 /\ op = Told(c, at[c] + 1)
  BY <1>1, <1>4, NextOpIsOp, NextIsTold DEF LineInv
<1>6. /\ Len(queue) \in Nat /\ Len(queue') = Len(queue) + 1 /\ queue'[Len(queue) + 1] = op
      /\ \A j \in 1..Len(queue) : queue'[j] = queue[j]
  BY <1>1, <1>3, <1>4
<1>7. LostLast'
  <2>1. \A o \in lost : o.call \in Calls /\ o.call # c
    BY <1>1, LineTypes, LostIsOver DEF FateInv
  <2>2. \A o \in lost : at'[o.call] = at[o.call]
    BY <2>1, <1>1, <1>3
  <2>3. ASSUME NEW o \in lost, NEW j \in 1..Len(queue'), queue'[j].call = o.call
        PROVE  queue'[j].n < o.n
    <3>1. j \in 1..Len(queue)
      BY <2>1, <2>3, <1>5, <1>6
    <3>2. QED BY <3>1, <2>3, <1>6 DEF FateInv, LostLast
  <2>4. QED BY <2>2, <2>3, <1>1 DEF FateInv, LostLast
<1>8. OnlyPayloadsAreDropped'
  <2>1. ASSUME NEW o \in InHand PROVE o \in InHand'
    <3>1. CASE \E j \in 1..Len(queue) : o = queue[j]
      <4>1. \E j \in 1..Len(queue') : o = queue'[j]
        BY <3>1, <1>6
      <4>2. QED BY <4>1, <1>3, InHandNextIs
    <3>2. CASE cur # Idle /\ o = cur.op
      BY <3>2, <1>1, <1>3, InHandNextIs
    <3>3. QED BY <3>1, <3>2, <1>3, InHandIs
  <2>2. ASSUME NEW d \in Calls, NEW i \in 1..at'[d], i > at[d] PROVE Fate(d, i)'
    <3>1. d = c /\ i = at[c] + 1
      BY <2>2, <1>1, <1>3
    <3>2. op \in InHand'
      <4>1. \E j \in 1..Len(queue') : op = queue'[j]
        BY <1>6
      <4>2. QED BY <4>1, <1>3, InHandNextIs
    <3>3. op = Told(d, i)'
      BY <3>1, <1>1, <1>5 DEF Told
    <3>4. QED BY <3>2, <3>3 DEF Fate
  <2>3. QED BY <2>1, <2>2, <1>1, <1>2, FatesStay DEF FateInv
<1>9. QED BY <1>1, <1>7, <1>8 DEF FateInv, Accounted

LEMMA SendKeepsFate == ASSUME LineInv, FateInv, NEW c \in Calls, SendOnClosed(c) PROVE FateInv'
<1>1. /\ lost' = lost \cup {NextOp(c)}
      /\ at' = [at EXCEPT ![c] = Len(plan[c])]
      /\ Left(c)
      /\ UNCHANGED <<plan, queue, cur, done, failed, faulted>>
  BY DEF SendOnClosed, db, history
<1>2. LineInv'
  BY SendKeepsLine
<1>3. at \in [Calls -> Nat] /\ at'[c] = Len(plan[c]) /\ Len(plan[c]) \in Nat
  BY <1>1, LineTypes DEF LineInv, TypeOK
<1>4. PICK op \in Ops : op = NextOp(c)
  BY <1>1, NextOpIsOp DEF LineInv
<1>5. op.call = c /\ op.n = at[c] + 1 /\ op = Told(c, at[c] + 1)
  BY <1>1, <1>4, NextOpIsOp, NextIsTold DEF LineInv
<1>6. ASSUME NEW o \in lost'
      PROVE  /\ at'[o.call] = Len(plan[o.call])
             /\ \A j \in 1..Len(queue) : queue[j].call = o.call => queue[j].n < o.n
             /\ cur # Idle /\ cur.op.call = o.call => cur.op.n < o.n
  <2>1. CASE o \in lost
    <3>1. o.call \in Calls /\ o.call # c
      BY <2>1, <1>1, LineTypes, LostIsOver DEF FateInv
    <3>2. at'[o.call] = at[o.call]
      BY <3>1, <1>1, <1>3
    <3>3. QED BY <2>1, <3>2 DEF FateInv, LostLast
  <2>2. CASE o = op
    <3>1. ASSUME NEW j \in 1..Len(queue), queue[j].call = c PROVE queue[j].n < op.n
      <4>1. queue[j].n \in Nat /\ queue[j].n <= at[c] /\ at[c] \in Nat
        BY <3>1, <1>3, QueuedOp DEF LineInv, Ordered, Submitted
      <4>2. QED BY <4>1, <1>5
    <3>2. cur # Idle /\ cur.op.call = c => cur.op.n < op.n
      <4>1. cur # Idle /\ cur.op.call = c => cur.op.n \in Nat /\ cur.op.n <= at[c]
        BY JobFields DEF LineInv, Ordered, Submitted
      <4>2. QED BY <4>1, <1>3, <1>5
    <3>3. QED BY <2>2, <3>1, <3>2, <1>3, <1>5
  <2>3. QED BY <2>1, <2>2, <1>1, <1>4
<1>7. LostLast'
  BY <1>1, <1>6 DEF LostLast
<1>8. OnlyPayloadsAreDropped'
  <2>1. InHand' = InHand
    BY <1>1 DEF InHand, Queued
  <2>2. ASSUME NEW d \in Calls, NEW i \in 1..at'[d], i > at[d] PROVE Fate(d, i)'
    <3>1. d = c
      BY <2>2, <1>1, <1>3
    <3>2. op \in lost'
      BY <1>1, <1>4
    <3>3. CASE i = at[c] + 1
      <4>1. op = Told(d, i)'
        BY <3>1, <3>3, <1>1, <1>5 DEF Told
      <4>2. QED BY <4>1, <3>2 DEF Fate
    <3>4. CASE i # at[c] + 1
      <4>1. op.call = d /\ op.n < i
        BY <3>1, <3>4, <2>2, <1>3, <1>5
      <4>2. QED BY <4>1, <3>2 DEF Fate
    <3>5. QED BY <3>3, <3>4
  <2>3. QED BY <2>1, <2>2, <1>1, <1>2, FatesStay DEF FateInv
<1>9. QED BY <1>1, <1>7, <1>8 DEF FateInv, Accounted

LEMMA TakeKeepsFate == ASSUME LineInv, FateInv, Take PROVE FateInv'
<1>1. /\ cur = Idle /\ Len(queue) \in Nat /\ Len(queue) >= 1
      /\ cur' # Idle /\ cur'.op = queue[1] /\ ~cur'.settled
      /\ queue' \in Seq(Ops) /\ Len(queue') = Len(queue) - 1
      /\ \A j \in 1..Len(queue') : j + 1 \in 1..Len(queue) /\ queue'[j] = queue[j + 1]
      /\ UNCHANGED <<plan, at, done, failed, faulted, lost>>
  BY TakeStep DEF history
<1>2. LineInv' /\ queue \in Seq(Ops)
  BY TakeKeepsLine DEF LineInv, TypeOK
<1>3. LostLast'
  <2>1. 1 \in 1..Len(queue)
    BY <1>1
  <2>2. \A o \in lost : /\ at'[o.call] = Len(plan'[o.call])
                        /\ queue[1].call = o.call => queue[1].n < o.n
    BY <2>1, <1>1 DEF FateInv, LostLast
  <2>3. ASSUME NEW o \in lost, NEW j \in 1..Len(queue'), queue'[j].call = o.call
        PROVE  queue'[j].n < o.n
    BY <2>3, <1>1 DEF FateInv, LostLast
  <2>4. QED BY <2>2, <2>3, <1>1 DEF LostLast
<1>4. OnlyPayloadsAreDropped'
  <2>1. ASSUME NEW o \in InHand PROVE o \in InHand'
    <3>1. PICK j \in 1..Len(queue) : o = queue[j]
      BY <1>1, <1>2, InHandIs
    <3>2. CASE j = 1
      BY <3>1, <3>2, <1>1, InHandNextIs
    <3>3. CASE j # 1
      <4>1. PICK k \in 1..Len(queue') : k + 1 = j
        <5>1. j - 1 \in 1..Len(queue') /\ (j - 1) + 1 = j
          BY <3>3, <1>1
        <5>2. QED BY <5>1
      <4>2. queue'[k] = o
        BY <3>1, <4>1, <1>1
      <4>3. QED BY <4>2, <1>1, InHandNextIs
    <3>4. QED BY <3>2, <3>3
  <2>2. \A d \in Calls : \A i \in 1..at'[d] : ~(i > at[d])
    BY <1>1, LineTypes
  <2>3. QED BY <2>1, <2>2, <1>1, <1>2, FatesStay DEF FateInv
<1>5. QED BY <1>1, <1>3, <1>4 DEF FateInv

(* The writer goes on with its write, or is through with it. *)
LEMMA WorkKeepsFate ==
    ASSUME LineInv, LineInv', FateInv, cur # Idle, cur' # Idle, cur'.op = cur.op,
           UNCHANGED <<plan, at, queue, lost>>,
           done \subseteq done', failed \subseteq failed', faulted \subseteq faulted',
           cur'.settled => Accounted(cur.op)'
    PROVE  FateInv'
<1>1. LostLast'
  BY SameLost DEF FateInv
<1>2. InHand' = InHand
  BY DEF InHand, Queued
<1>3. \A d \in Calls : \A i \in 1..at'[d] : ~(i > at[d])
  BY LineTypes
<1>4. OnlyPayloadsAreDropped'
  BY <1>2, <1>3, FatesStay DEF FateInv
<1>5. QED BY <1>1, <1>4 DEF FateInv

LEMMA WriteKeepsFate == ASSUME LineInv, RowInv, FateInv, Write PROVE FateInv'
<1>1. /\ cur # Idle /\ ~cur.settled /\ cur' # Idle /\ cur'.op = cur.op
      /\ UNCHANGED <<plan, at, queue, faulted, lost>>
      /\ done \subseteq done' /\ failed \subseteq failed'
  BY WriteStep
<1>2. cur'.settled => Accounted(cur.op)'
  <2>1. CASE Accepts(cur.stage, cur.op.call) /\ GoesOn
    BY <2>1, WriteStep
  <2>2. CASE Accepts(cur.stage, cur.op.call) /\ ~GoesOn
    <3>1. cur.op \in done'
      BY <2>2, WriteStep
    <3>2. QED BY <3>1, <1>1 DEF Accounted
  <2>3. CASE ~Accepts(cur.stage, cur.op.call)
    <3>1. cur.op \in failed'
      BY <2>3, WriteStep
    <3>2. cur.op.kind = "payload" \/ cur.op.call \in faulted'
      BY <2>3, <1>1, RefusedIsAccounted DEF Applying
    <3>3. QED BY <3>1, <3>2, <1>1 DEF Accounted
  <2>4. QED BY <2>1, <2>2, <2>3
<1>3. QED BY <1>1, <1>2, WriteKeepsLine, WorkKeepsFate

LEMMA StallKeepsFate == ASSUME LineInv, FateInv, Busy \/ Fault PROVE FateInv'
<1>1. /\ cur # Idle /\ cur' # Idle /\ cur'.op = cur.op
      /\ UNCHANGED <<plan, at, queue, lost, done>>
      /\ failed \subseteq failed' /\ faulted \subseteq faulted'
  BY StallStep
<1>2. cur'.settled => cur.op \in failed' /\ cur.op.call \in faulted'
  BY StallStep
<1>3. cur'.settled => Accounted(cur.op)'
  BY <1>1, <1>2 DEF Accounted
<1>4. QED BY <1>1, <1>3, StallKeepsLine, WorkKeepsFate

LEMMA ReleaseKeepsFate == ASSUME LineInv, FateInv, Release PROVE FateInv'
<1>1. /\ cur # Idle /\ cur.settled /\ cur' = Idle
      /\ UNCHANGED <<plan, at, queue, done, failed, faulted, lost>>
  BY DEF Release, db, history
<1>2. LineInv' /\ queue \in Seq(Ops) /\ queue' \in Seq(Ops)
  BY ReleaseKeepsLine DEF LineInv, TypeOK
<1>3. LostLast'
  BY <1>1, SameLost DEF FateInv
<1>4. ASSUME NEW o, o \in InHand
      PROVE  o.kind = "payload" \/ o \in InHand' \cup done' \/ (o \in failed' /\ o.call \in faulted')
  <2>1. CASE \E j \in 1..Len(queue) : o = queue[j]
    BY <2>1, <1>1, <1>2, InHandNextIs
  <2>2. CASE o = cur.op
    BY <2>2, <1>1 DEF FateInv, Accounted
  <2>3. QED BY <1>4, <2>1, <2>2, <1>2, InHandIs
<1>5. \A d \in Calls : \A i \in 1..at'[d] : ~(i > at[d])
  BY <1>1, LineTypes
<1>6. OnlyPayloadsAreDropped'
  BY <1>1, <1>2, <1>4, <1>5, FatesStay DEF FateInv
<1>7. QED BY <1>1, <1>3, <1>6 DEF FateInv

LEMMA CrashKeepsFate == ASSUME LineInv, FateInv, Crash PROVE FateInv'
<1>1. /\ cur' = Idle /\ queue' = <<>> /\ Len(queue') = 0
      /\ \A c \in Calls : at'[c] = IF at[c] > 0 THEN Len(plan[c]) ELSE 0
      /\ lost \subseteq lost'
      /\ \A j \in 1..Len(queue) : queue[j] \in lost'
      /\ Applying => cur.op \in lost'
      /\ \A c \in Calls : Left(c) /\ at[c] > 0 => NextOp(c) \in lost'
      /\ UNCHANGED <<plan, done, failed, faulted>>
  BY CrashStep
<1>2. LineInv' /\ queue \in Seq(Ops)
  BY CrashKeepsLine DEF LineInv, TypeOK
<1>3. ASSUME NEW o \in lost' PROVE at'[o.call] = Len(plan[o.call])
  <2>1. o.call \in Calls
    <3>1. o \in Ops
      BY <1>2 DEF LineInv, TypeOK
    <3>2. QED BY <3>1 DEF Ops
  <2>2. CASE o \in lost
    BY <2>1, <2>2, <1>1, LineTypes DEF FateInv, LostLast
  <2>3. CASE \E j \in 1..Len(queue) : o = queue[j]
    <3>1. o.n \in Nat \ {0} /\ o.n <= at[o.call] /\ at[o.call] \in Nat
      BY <2>1, <2>3, QueuedOp, LineTypes DEF LineInv, Ordered, Submitted
    <3>2. QED BY <3>1, <2>1, <1>1
  <2>4. CASE Applying /\ o = cur.op
    <3>1. o.n \in Nat \ {0} /\ o.n <= at[o.call] /\ at[o.call] \in Nat
      BY <2>1, <2>4, JobFields, LineTypes DEF LineInv, Ordered, Submitted, Applying
    <3>2. QED BY <3>1, <2>1, <1>1
  <2>5. CASE \E c \in Calls : Left(c) /\ at[c] > 0 /\ o = NextOp(c)
    <3>1. PICK c \in Calls : Left(c) /\ at[c] > 0 /\ o = NextOp(c)
      BY <2>5
    <3>2. o.call = c
      BY <3>1, NextOpIsOp DEF LineInv
    <3>3. QED BY <3>1, <3>2, <1>1
  <2>6. QED BY <2>2, <2>3, <2>4, <2>5, CrashStep
<1>4. LostLast'
  BY <1>1, <1>3 DEF LostLast
<1>5. ASSUME NEW o, o \in InHand
      PROVE  \/ o.kind = "payload"
             \/ o \in done' \cup lost'
             \/ o \in failed' /\ o.call \in faulted'
  <2>1. CASE \E j \in 1..Len(queue) : o = queue[j]
    BY <2>1, <1>1
  <2>2. CASE cur # Idle /\ o = cur.op
    <3>1. CASE Applying
      BY <3>1, <2>2, <1>1
    <3>2. CASE ~Applying
      BY <3>2, <2>2, <1>1 DEF FateInv, Accounted, Applying
    <3>3. QED BY <3>1, <3>2
  <2>3. QED BY <1>5, <2>1, <2>2, <1>2, InHandIs
<1>6. ASSUME NEW c \in Calls, NEW i \in 1..at'[c], i > at[c] PROVE Fate(c, i)'
  <2>1. at[c] > 0 /\ at'[c] = Len(plan[c]) /\ at[c] \in Nat /\ Len(plan[c]) \in Nat
    BY <1>6, <1>1, LineTypes
  <2>2. Left(c)
    BY <2>1, <1>6 DEF Left
  <2>3. PICK op \in Ops : op = NextOp(c) /\ op \in lost'
    BY <2>1, <2>2, <1>1, NextOpIsOp DEF LineInv
  <2>4. op.call = c /\ op.n = at[c] + 1 /\ op = Told(c, at[c] + 1)
    BY <2>2, <2>3, NextOpIsOp, NextIsTold DEF LineInv
  <2>5. CASE i = at[c] + 1
    <3>1. op = Told(c, i)'
      BY <2>4, <2>5, <1>1 DEF Told
    <3>2. QED BY <3>1, <2>3 DEF Fate
  <2>6. CASE i # at[c] + 1
    <3>1. op.n < i
      BY <2>1, <2>4, <2>6, <1>6
    <3>2. QED BY <3>1, <2>3, <2>4 DEF Fate
  <2>7. QED BY <2>5, <2>6
<1>7. OnlyPayloadsAreDropped'
  BY <1>1, <1>2, <1>5, <1>6, FatesStay DEF FateInv
<1>8. QED BY <1>1, <1>4, <1>7 DEF FateInv

LEMMA FateStep == ASSUME LineInv, RowInv, FateInv, [Next]_vars PROVE FateInv'
<1>1. CASE \E c \in Calls : AdmitPayload(c)
  BY <1>1, AdmitKeepsFate
<1>2. CASE \E c \in Calls : Enqueue(c)
  BY <1>2, EnqueueKeepsFate
<1>3. CASE \E c \in Calls : SendOnClosed(c)
  BY <1>3, SendKeepsFate
<1>4. CASE Take
  BY <1>4, TakeKeepsFate
<1>5. CASE Write
  BY <1>5, WriteKeepsFate
<1>6. CASE Busy \/ Fault
  BY <1>6, StallKeepsFate
<1>7. CASE Release
  BY <1>7, ReleaseKeepsFate
<1>8. CASE Close \/ UNCHANGED vars
  <2>1. UNCHANGED <<plan, at, queue, cur, done, failed, faulted, lost>>
    BY <1>8 DEF Close, vars, db, history
  <2>2. QED BY <2>1 DEF FateInv, LostLast, Accounted, OnlyPayloadsAreDropped, InHand, Queued
<1>9. CASE Crash
  BY <1>9, CrashKeepsFate
<1>10. QED
  BY <1>1, <1>2, <1>3, <1>4, <1>5, <1>6, <1>7, <1>8, <1>9 DEF Next, WriterStep

LEMMA FatesHold == Spec => [](LineInv /\ FateInv)
<1>1. Init => RowInv /\ FateInv
  BY RowInit, FateInit
<1>2. LineInv /\ RowInv /\ FateInv /\ [Next]_vars => RowInv' /\ FateInv'
  BY RowStep, FateStep
<1>3. QED BY <1>1, <1>2, LineStaysInOrder, PTL DEF Spec

(* Nothing but a payload is ever dropped, and an update without its row or *)
(* a child without its parent is only refused after the store failed a     *)
(* write of that call by itself (ledger.go:9-17, 54-67).                   *)
THEOREM NothingElseIsDropped == Spec => []OnlyPayloadsAreDropped
<1>1. FateInv => OnlyPayloadsAreDropped
  BY DEF FateInv
<1>2. QED BY <1>1, FatesHold, PTL

(* When a closed ledger has returned, everything it accepted was written,  *)
(* was given up by the store, or died in a crash (ledger.go:495-505).      *)
THEOREM ClosedLedgerIsDrained == Spec => []CloseDrains
<1>1. LineInv /\ FateInv => CloseDrains
  <2> SUFFICES ASSUME LineInv, FateInv, Exited, NEW c \in Calls, NEW i \in 1..at[c]
               PROVE  \/ Told(c, i) \in done \cup failed \cup lost
                      \/ Told(c, i).kind = "payload"
                      \/ \E earlier \in lost : earlier.call = c /\ earlier.n < i
    BY DEF CloseDrains, Told
  <2>1. InHand = {}
    BY DEF Exited, InHand, Queued
  <2>2. Fate(c, i)
    BY FateIs DEF FateInv
  <2>3. Told(c, i).kind = plan[c][i]
    BY DEF Told
  <2>4. QED BY <2>1, <2>2, <2>3 DEF Fate
<1>2. QED BY <1>1, FatesHold, PTL

-----------------------------------------------------------------------------
(* The byte budget. *)

(* What a write is charged, as a function. *)
Bytes == [op \in Ops |-> Charge(op)]

LEMMA BytesAre == ASSUME NEW op \in Ops PROVE Bytes[op] = Charge(op) /\ Bytes[op] \in Nat
<1>1. op.call \in Calls
  BY DEF Ops
<1>2. Charge(op) \in Nat
  BY <1>1, SizesPositive DEF Charge
<1>3. QED BY <1>2 DEF Bytes

LEMMA PayloadsWeigh ==
    ASSUME NEW op \in Ops, op.kind = "payload"
    PROVE  Bytes[op] = Size[op.call] /\ Bytes[op] \in Nat \ {0}
<1>1. op.call \in Calls
  BY DEF Ops
<1>2. QED BY <1>1, BytesAre, SizesPositive DEF Charge

(* The sum of the property is the sum of that function. *)
LEMMA ChargeIsSum ==
    ASSUME NEW S, S \subseteq Ops
    PROVE  MapThenSumSet(Charge, S) = SumOver(Bytes, S)
<1> DEFINE Eq(g) == g = [s \in SUBSET S |-> IF s = {} THEN 0 ELSE Charge(Pick(s)) + g[s \ {Pick(s)}]]
<1>1. MapThenSumSet(Charge, S) = (CHOOSE g : Eq(g))[S]
  BY DEF MapThenSumSet, MapThenFoldSet, Pick
<1>2. \A s \in SUBSET S : s # {} => Charge(Pick(s)) = Bytes[Pick(s)]
  <2> SUFFICES ASSUME NEW s \in SUBSET S, s # {} PROVE Charge(Pick(s)) = Bytes[Pick(s)]
    OBVIOUS
  <2>1. Pick(s) \in Ops
    BY PickInSet
  <2>2. QED BY <2>1, BytesAre
<1>3. ASSUME NEW g PROVE Eq(g) <=> IsSum(g, Bytes, S)
  BY <1>2 DEF IsSum
<1> HIDE DEF Eq
<1>4. (CHOOSE g : Eq(g)) = (CHOOSE g : IsSum(g, Bytes, S))
  BY <1>3, Zenon
<1>5. QED BY <1>1, <1>4, SumOverIsIter

(* Only an empty set of payloads weighs nothing. *)
LEMMA NothingWeighsNothing ==
    ASSUME NEW S, IsFiniteSet(S), S \subseteq Ops, \A op \in S : op.kind = "payload",
           SumOver(Bytes, S) = 0
    PROVE  S = {}
<1> SUFFICES ASSUME NEW op \in S PROVE FALSE
  OBVIOUS
<1>1. \A o \in S : Bytes[o] \in Nat
  BY BytesAre
<1>2. IsFiniteSet(S \ {op}) /\ \A o \in S \ {op} : Bytes[o] \in Nat
  BY <1>1, FS_RemoveElement
<1>3. SumOver(Bytes, S) = Bytes[op] + SumOver(Bytes, S \ {op})
  BY <1>1, SumOverRemove
<1>4. SumOver(Bytes, S \ {op}) \in Nat
  BY <1>2, SumOverType
<1>5. Bytes[op] \in Nat \ {0}
  BY PayloadsWeigh
<1>6. QED BY <1>3, <1>4, <1>5

(* A request whose body is charged is about to queue that body. *)
Reserved == ~closed => \A c \in admitted : Left(c) /\ NextOp(c).kind = "payload"

LEMMA ImageIsFinite ==
    ASSUME NEW S, IsFiniteSet(S), NEW f
    PROVE  IsFiniteSet({f[x] : x \in S})
<1>1. PICK g, T : g = [x \in S |-> f[x]] /\ T = {f[x] : x \in S}
  OBVIOUS
<1>2. g \in Surjection(S, T)
  BY <1>1 DEF Surjection
<1>3. IsFiniteSet(T)
  BY <1>2, FS_Surjection
<1>4. QED BY <1>1, <1>3

(* What is charged is a finite set of payloads. *)
LEMMA MemoryIs ==
    ASSUME LineInv, Reserved, ~closed
    PROVE  /\ PayloadsInMemory \subseteq Ops
           /\ \A op \in PayloadsInMemory : op.kind = "payload"
           /\ IsFiniteSet(PayloadsInMemory)
<1>1. queue \in Seq(Ops) /\ admitted \subseteq Calls
  BY DEF LineInv, TypeOK
<1>2. \A op \in InHand : op \in Ops
  BY <1>1, InHandIs, QueuedOp, JobFields DEF LineInv
<1>3. \A c \in admitted : NextOp(c) \in Ops /\ NextOp(c).kind = "payload"
  BY <1>1, NextOpIsOp DEF Reserved, LineInv
<1>4. IsFiniteSet(InHand)
  <2>1. IsFiniteSet({queue[i] : i \in 1..Len(queue)})
    <3>1. IsFiniteSet(1..Len(queue))
      BY <1>1, FS_Interval
    <3>2. QED BY <3>1, ImageIsFinite
  <2>2. IsFiniteSet({queue[i] : i \in 1..Len(queue)} \cup {cur.op})
    BY <2>1, FS_AddElement
  <2>3. InHand \subseteq {queue[i] : i \in 1..Len(queue)} \cup {cur.op}
    BY <1>1, InHandIs
  <2>4. QED BY <2>2, <2>3, FS_Subset
<1>5. IsFiniteSet({NextOp(c) : c \in admitted})
  <2>1. IsFiniteSet(admitted)
    BY <1>1, FinitelyManyCalls, FS_Subset
  <2>2. PICK f : f = [c \in admitted |-> NextOp(c)]
    OBVIOUS
  <2>3. IsFiniteSet({f[c] : c \in admitted})
    BY <2>1, ImageIsFinite
  <2>4. {f[c] : c \in admitted} = {NextOp(c) : c \in admitted}
    BY <2>2
  <2>5. QED BY <2>3, <2>4
<1>6. IsFiniteSet(InHand \cup {NextOp(c) : c \in admitted})
  BY <1>4, <1>5, FS_Union
<1>7. PayloadsInMemory \subseteq InHand \cup {NextOp(c) : c \in admitted}
  BY DEF PayloadsInMemory
<1>8. IsFiniteSet(PayloadsInMemory)
  BY <1>6, <1>7, FS_Subset
<1>9. QED BY <1>2, <1>3, <1>8 DEF PayloadsInMemory

(* The property, on the set of payloads. *)
Fair(b, S) ==
    /\ b = SumOver(Bytes, S)
    /\ (Budget > 0 /\ b > Budget) => Cardinality(S) = 1

ChargeInv == Reserved /\ (closed \/ Fair(backlog, PayloadsInMemory))

LEMMA BoundedIs ==
    ASSUME LineInv, Reserved, ~closed
    PROVE  BacklogIsExactAndBounded <=> Fair(backlog, PayloadsInMemory)
<1>1. MapThenSumSet(Charge, PayloadsInMemory) = SumOver(Bytes, PayloadsInMemory)
  BY MemoryIs, ChargeIsSum
<1>2. QED BY <1>1 DEF BacklogIsExactAndBounded, Fair

LEMMA BoundedIf == LineInv /\ ChargeInv => BacklogIsExactAndBounded
BY BoundedIs DEF BacklogIsExactAndBounded, ChargeInv

(* A body joins what is charged, and one leaves. *)
LEMMA FairJoin ==
    ASSUME NEW b \in Int, NEW S, IsFiniteSet(S), S \subseteq Ops,
           \A op \in S : op.kind = "payload", Fair(b, S),
           NEW op \in Ops, op \notin S, op.kind = "payload",
           Budget = 0 \/ b = 0 \/ b + Size[op.call] <= Budget
    PROVE  Fair(b + Size[op.call], S \cup {op})
<1>1. \A o \in S \cup {op} : Bytes[o] \in Nat
  BY BytesAre
<1>2. SumOver(Bytes, S \cup {op}) = Bytes[op] + SumOver(Bytes, S)
  BY <1>1, SumOverAdd
<1>3. Bytes[op] = Size[op.call] /\ Bytes[op] \in Nat /\ b = SumOver(Bytes, S)
  BY PayloadsWeigh DEF Fair
<1>4. b + Size[op.call] = SumOver(Bytes, S \cup {op})
  BY <1>2, <1>3
<1>5. ASSUME Budget > 0, b + Size[op.call] > Budget PROVE Cardinality(S \cup {op}) = 1
  <2>1. b = 0
    BY <1>3, <1>5, BoundsPositive
  <2>2. S = {}
    BY <2>1, <1>3, NothingWeighsNothing
  <2>3. S \cup {op} = {op}
    BY <2>2
  <2>4. QED BY <2>3, FS_Singleton
<1>6. QED BY <1>4, <1>5 DEF Fair

LEMMA FairLeave ==
    ASSUME NEW b \in Int, NEW S, IsFiniteSet(S), S \subseteq Ops,
           \A op \in S : op.kind = "payload", Fair(b, S), NEW op \in S
    PROVE  Fair(b - Size[op.call], S \ {op})
<1>1. \A o \in S : Bytes[o] \in Nat
  BY BytesAre
<1>2. PICK rest : rest = SumOver(Bytes, S \ {op})
  OBVIOUS
<1>3. SumOver(Bytes, S) = Bytes[op] + rest
  BY <1>1, <1>2, SumOverRemove
<1>4. rest \in Nat
  <2>1. IsFiniteSet(S \ {op}) /\ \A o \in S \ {op} : Bytes[o] \in Nat
    BY <1>1, FS_RemoveElement
  <2>2. QED BY <2>1, <1>2, SumOverType
<1>5. Bytes[op] = Size[op.call] /\ Bytes[op] \in Nat \ {0} /\ b = SumOver(Bytes, S)
  BY PayloadsWeigh DEF Fair
<1>6. b - Size[op.call] = rest
  BY <1>3, <1>4, <1>5
<1>7. ASSUME Budget > 0, rest > Budget PROVE FALSE
  <2>1. b > Budget
    BY <1>3, <1>4, <1>5, <1>7, BoundsPositive
  <2>2. Cardinality(S) = 1
    BY <2>1, <1>7 DEF Fair
  <2>3. Cardinality(S \ {op}) = 0 /\ IsFiniteSet(S \ {op})
    BY <2>2, FS_RemoveElement
  <2>4. S \ {op} = {}
    BY <2>3, FS_EmptySet
  <2>5. rest = 0
    BY <2>4, <1>2, SumOverEmpty
  <2>6. QED BY <2>5, <1>7, BoundsPositive
<1>8. QED BY <1>2, <1>6, <1>7 DEF Fair

LEMMA NextOpStays ==
    ASSUME NEW c, plan' = plan, at'[c] = at[c]
    PROVE  NextOp(c)' = NextOp(c) /\ Left(c)' = Left(c)
BY DEF NextOp, Left

LEMMA MemoryHas ==
    ASSUME NEW op
    PROVE  op \in PayloadsInMemory <=> \/ op \in InHand /\ op.kind = "payload"
                                       \/ \E c \in admitted : op = NextOp(c)
BY DEF PayloadsInMemory

LEMMA MemoryNextHas ==
    ASSUME NEW op
    PROVE  op \in PayloadsInMemory' <=> \/ op \in InHand' /\ op.kind = "payload"
                                        \/ \E c \in admitted' : op = NextOp(c)'
BY DEF PayloadsInMemory

LEMMA ChargeInit == ASSUME Init PROVE ChargeInv
<1>1. PayloadsInMemory = {}
  BY DEF Init, PayloadsInMemory, InHand, Queued
<1>2. Fair(0, {})
  BY SumOverEmpty, BoundsPositive DEF Fair
<1>3. QED BY <1>1, <1>2 DEF Init, ChargeInv, Reserved

(* A step that leaves what is charged alone. *)
LEMMA SameCharge ==
    ASSUME ChargeInv, InHand' = InHand, admitted' = admitted, plan' = plan,
           \A c \in admitted : at'[c] = at[c], closed' = closed, backlog' = backlog
    PROVE  ChargeInv'
<1>1. \A c \in admitted : NextOp(c)' = NextOp(c) /\ Left(c)' = Left(c)
  BY NextOpStays
<1>2. \A op : op \in PayloadsInMemory' <=> op \in PayloadsInMemory
  BY <1>1, MemoryHas, MemoryNextHas
<1>3. PayloadsInMemory' = PayloadsInMemory
  BY <1>2
<1>4. Reserved'
  BY <1>1 DEF ChargeInv, Reserved
<1>5. QED BY <1>3, <1>4 DEF ChargeInv, Fair

LEMMA AdmitKeepsCharge == ASSUME LineInv, ChargeInv, NEW c \in Calls, AdmitPayload(c) PROVE ChargeInv'
<1>1. /\ Left(c) /\ NextOp(c).kind = "payload" /\ c \notin admitted
      /\ UNCHANGED <<plan, queue, cur, closed>>
  BY DEF AdmitPayload
<1>2. InHand' = InHand
  BY <1>1 DEF InHand, Queued
<1>3. CASE ~Fits(Size[c])
  <2>1. at' = [at EXCEPT ![c] = @ + 1] /\ UNCHANGED <<admitted, backlog>>
    BY <1>3 DEF AdmitPayload
  <2>2. \A d \in admitted : at'[d] = at[d]
    BY <2>1, <1>1 DEF LineInv, TypeOK
  <2>3. QED BY <2>1, <2>2, <1>1, <1>2, SameCharge
<1>4. CASE Fits(Size[c])
  <2>1. admitted' = admitted \cup {c} /\ backlog' = backlog + Size[c] /\ at' = at
    BY <1>4 DEF AdmitPayload
  <2>2. \A d : NextOp(d)' = NextOp(d) /\ Left(d)' = Left(d)
    BY <2>1, <1>1, NextOpStays
  <2>3. Reserved'
    BY <2>1, <2>2, <1>1 DEF ChargeInv, Reserved
  <2>4. CASE ~closed
    <3>1. PICK op \in Ops : op = NextOp(c) /\ op.call = c /\ op.n = at[c] + 1
      BY <1>1, NextOpIsOp DEF LineInv
    <3>2. PICK S : S = PayloadsInMemory
      OBVIOUS
    <3>3. Reserved /\ Fair(backlog, S)
      BY <2>4, <3>2 DEF ChargeInv
    <3>4. IsFiniteSet(S) /\ S \subseteq Ops /\ \A o \in S : o.kind = "payload"
      BY <2>4, <3>2, <3>3, MemoryIs
    <3>5. op \notin S
      <4>1. at[c] \in Nat /\ queue \in Seq(Ops) /\ admitted \subseteq Calls
        BY DEF LineInv, TypeOK
      <4>2. \A j \in 1..Len(queue) : queue[j] # op
        BY <3>1, <4>1 DEF LineInv, Ordered, Submitted
      <4>3. cur # Idle => cur.op # op
        BY <3>1, <4>1 DEF LineInv, Ordered, Submitted
      <4>4. op \notin InHand
        BY <4>1, <4>2, <4>3, InHandIs
      <4>5. \A d \in admitted : NextOp(d) # op
        <5>1. \A d \in admitted : NextOp(d).call = d
          BY <2>4, <3>3, <4>1, NextOpIsOp DEF Reserved, LineInv
        <5>2. QED BY <5>1, <3>1, <1>1
      <4>6. QED BY <4>4, <4>5, <3>2, MemoryHas
    <3>6. \A o : o \in PayloadsInMemory' <=> o \in S \/ o = op
      BY <1>1, <1>2, <2>1, <2>2, <3>1, <3>2, MemoryHas, MemoryNextHas
    <3>7. PayloadsInMemory' = S \cup {op}
      BY <3>6
    <3>8. backlog \in Int /\ op.kind = "payload" /\ backlog' = backlog + Size[op.call]
      BY <1>1, <2>1, <3>1 DEF LineInv, TypeOK
    <3>9. Budget = 0 \/ backlog = 0 \/ backlog + Size[op.call] <= Budget
      BY <1>4, <3>1 DEF Fits
    <3>10. Fair(backlog + Size[op.call], S \cup {op})
      BY <3>3, <3>4, <3>5, <3>8, <3>9, FairJoin
    <3>11. Fair(backlog, PayloadsInMemory)'
      BY <3>7, <3>8, <3>10 DEF Fair
    <3>12. QED BY <2>3, <3>11 DEF ChargeInv
  <2>5. CASE closed
    BY <2>3, <2>5, <1>1 DEF ChargeInv
  <2>6. QED BY <2>4, <2>5
<1>5. QED BY <1>3, <1>4

LEMMA EnqueueKeepsCharge == ASSUME LineInv, ChargeInv, NEW c \in Calls, Enqueue(c) PROVE ChargeInv'
<1>1. /\ Left(c) /\ (NextOp(c).kind = "payload" => c \in admitted) /\ ~closed
      /\ queue' = Append(queue, NextOp(c))
      /\ at' = [at EXCEPT ![c] = @ + 1]
      /\ admitted' = admitted \ {c}
      /\ UNCHANGED <<plan, cur, backlog, closed>>
  BY DEF Enqueue
<1>2. PICK op \in Ops : op = NextOp(c)
  BY <1>1, NextOpIsOp DEF LineInv
<1>3. queue \in Seq(Ops) /\ queue' \in Seq(Ops)
  BY EnqueueKeepsLine DEF LineInv, TypeOK
<1>4. Reserved /\ admitted \subseteq Calls
  BY DEF ChargeInv, LineInv, TypeOK
<1>5. \A d \in admitted' : NextOp(d)' = NextOp(d) /\ Left(d)' = Left(d)
  <2>1. \A d \in admitted' : at'[d] = at[d]
    BY <1>1, <1>4 DEF LineInv, TypeOK
  <2>2. QED BY <2>1, <1>1, NextOpStays
<1>6. ASSUME NEW o PROVE o \in InHand' <=> o \in InHand \/ o = op
  <2>1. /\ Len(queue) \in Nat /\ Len(queue') = Len(queue) + 1 /\ queue'[Len(queue) + 1] = op
        /\ \A j \in 1..Len(queue) : queue'[j] = queue[j]
    BY <1>1, <1>2, <1>3
  <2>2. (\E j \in 1..Len(queue') : o = queue'[j]) <=> (\E j \in 1..Len(queue) : o = queue[j]) \/ o = op
    <3>1. 1..Len(queue') = 1..Len(queue) \cup {Len(queue) + 1}
      BY <2>1
    <3>2. QED BY <3>1, <2>1
  <2>3. QED BY <2>2, <1>1, <1>3, InHandIs, InHandNextIs
<1>7. op.kind = "payload" <=> c \in admitted
  BY <1>1, <1>2, <1>4 DEF Reserved
<1>8. \A o : o \in PayloadsInMemory' <=> o \in PayloadsInMemory
  <2> SUFFICES ASSUME NEW o PROVE o \in PayloadsInMemory' <=> o \in PayloadsInMemory
    OBVIOUS
  <2>1. (\E d \in admitted' : o = NextOp(d)') <=> (\E d \in admitted \ {c} : o = NextOp(d))
    BY <1>1, <1>5
  <2>2. (\E d \in admitted : o = NextOp(d))
        <=> (\E d \in admitted \ {c} : o = NextOp(d)) \/ (c \in admitted /\ o = op)
    BY <1>2
  <2>3. QED BY <2>1, <2>2, <1>6, <1>7, MemoryHas, MemoryNextHas
<1>9. PayloadsInMemory' = PayloadsInMemory
  BY <1>8
<1>10. Reserved'
  BY <1>1, <1>4, <1>5 DEF Reserved
<1>11. QED BY <1>1, <1>9, <1>10 DEF ChargeInv, Fair

LEMMA TakeKeepsCharge == ASSUME LineInv, ChargeInv, Take PROVE ChargeInv'
<1>1. /\ cur = Idle /\ Len(queue) \in Nat /\ Len(queue) >= 1
      /\ cur' # Idle /\ cur'.op = queue[1]
      /\ queue' \in Seq(Ops) /\ Len(queue') = Len(queue) - 1
      /\ \A j \in 1..Len(queue') : j + 1 \in 1..Len(queue) /\ queue'[j] = queue[j + 1]
      /\ UNCHANGED <<plan, at, admitted, backlog, closed>>
  BY TakeStep
<1>2. queue \in Seq(Ops)
  BY DEF LineInv, TypeOK
<1>3. ASSUME NEW o PROVE o \in InHand' <=> o \in InHand
  <2>1. o \in InHand <=> \E j \in 1..Len(queue) : o = queue[j]
    BY <1>1, <1>2, InHandIs
  <2>2. o \in InHand' <=> (\E j \in 1..Len(queue') : o = queue'[j]) \/ o = queue[1]
    BY <1>1, InHandNextIs
  <2>3. ASSUME NEW j \in 1..Len(queue), j # 1
        PROVE  \E k \in 1..Len(queue') : queue'[k] = queue[j]
    <3>1. j - 1 \in 1..Len(queue') /\ (j - 1) + 1 = j
      BY <2>3, <1>1
    <3>2. queue'[j - 1] = queue[(j - 1) + 1]
      BY <3>1, <1>1
    <3>3. QED BY <3>1, <3>2
  <2>4. 1 \in 1..Len(queue)
    BY <1>1
  <2>5. QED BY <2>1, <2>2, <2>3, <2>4, <1>1
<1>4. InHand' = InHand
  BY <1>3
<1>5. QED BY <1>1, <1>4, SameCharge

LEMMA ReleaseKeepsCharge == ASSUME LineInv, ChargeInv, Release PROVE ChargeInv'
<1>1. /\ cur # Idle /\ cur' = Idle /\ backlog' = backlog - Charge(cur.op)
      /\ UNCHANGED <<plan, at, admitted, queue, closed>>
  BY DEF Release, Released
<1>2. /\ queue \in Seq(Ops) /\ queue' \in Seq(Ops) /\ admitted \subseteq Calls
      /\ backlog \in Int /\ at \in [Calls -> Nat]
  BY <1>1 DEF LineInv, TypeOK
<1>3. PICK op \in Ops : op = cur.op /\ op.call \in Calls /\ op.n \in Nat
  BY <1>1, JobFields DEF LineInv
<1>4. \A d \in admitted : NextOp(d)' = NextOp(d) /\ Left(d)' = Left(d)
  BY <1>1, NextOpStays
<1>5. Reserved'
  BY <1>1, <1>4 DEF ChargeInv, Reserved
<1>6. CASE closed
  BY <1>1, <1>5, <1>6 DEF ChargeInv
<1>7. CASE ~closed
  <2>1. PICK S : S = PayloadsInMemory
    OBVIOUS
  <2>2. Reserved /\ Fair(backlog, S)
    BY <1>7, <2>1 DEF ChargeInv
  <2>3. IsFiniteSet(S) /\ S \subseteq Ops /\ \A o \in S : o.kind = "payload"
    BY <1>7, <2>1, <2>2, MemoryIs
  <2>4. \A j \in 1..Len(queue) : queue[j] # op
    <3>1. ASSUME NEW j \in 1..Len(queue), queue[j] = op PROVE FALSE
      <4>1. cur.op.n < queue[j].n
        BY <3>1, <1>1, <1>3 DEF LineInv, Ordered
      <4>2. QED BY <4>1, <3>1, <1>3
    <3>2. QED BY <3>1
  <2>5. \A d \in admitted : NextOp(d) # op
    <3>1. ASSUME NEW d \in admitted, NextOp(d) = op PROVE FALSE
      <4>1. op.call = d /\ op.n = at[d] + 1
        BY <3>1, <1>2, <1>7, <2>2, NextOpIsOp DEF Reserved, LineInv
      <4>2. op.n <= at[op.call]
        BY <1>1, <1>3 DEF LineInv, Ordered, Submitted
      <4>3. QED BY <4>1, <4>2, <1>2
    <3>2. QED BY <3>1
  <2>6. ASSUME NEW o PROVE o \in InHand <=> o \in InHand' \/ o = op
    BY <1>1, <1>2, <1>3, InHandIs, InHandNextIs
  <2>7. op \notin InHand'
    BY <1>1, <1>2, <2>4, InHandNextIs
  <2>8. ASSUME NEW o PROVE o \in PayloadsInMemory' <=> o \in S /\ o # op
    <3>1. (\E d \in admitted' : o = NextOp(d)') <=> (\E d \in admitted : o = NextOp(d))
      BY <1>1, <1>4
    <3>2. QED BY <3>1, <2>1, <2>5, <2>6, <2>7, MemoryHas, MemoryNextHas
  <2>9. PayloadsInMemory' = S \ {op}
    BY <2>8
  <2>10. CASE op.kind = "payload"
    <3>1. op \in S
      BY <2>1, <2>6, <2>10, MemoryHas
    <3>2. backlog' = backlog - Size[op.call]
      BY <1>1, <1>3, <2>10 DEF Charge
    <3>3. Fair(backlog - Size[op.call], S \ {op})
      BY <1>2, <2>2, <2>3, <3>1, FairLeave
    <3>4. Fair(backlog, PayloadsInMemory)'
      BY <2>9, <3>2, <3>3 DEF Fair
    <3>5. QED BY <3>4, <1>5 DEF ChargeInv
  <2>11. CASE op.kind # "payload"
    <3>1. S \ {op} = S /\ backlog' = backlog
      BY <1>1, <1>2, <1>3, <2>3, <2>11 DEF Charge
    <3>2. Fair(backlog, PayloadsInMemory)'
      BY <2>2, <2>9, <3>1 DEF Fair
    <3>3. QED BY <3>2, <1>5 DEF ChargeInv
  <2>12. QED BY <2>10, <2>11
<1>8. QED BY <1>6, <1>7

LEMMA ChargeStep == ASSUME LineInv, ChargeInv, [Next]_vars PROVE ChargeInv'
<1>1. CASE \E c \in Calls : AdmitPayload(c)
  BY <1>1, AdmitKeepsCharge
<1>2. CASE \E c \in Calls : Enqueue(c)
  BY <1>2, EnqueueKeepsCharge
<1>3. CASE (\E c \in Calls : SendOnClosed(c)) \/ Close
  <2>1. closed' = TRUE
    BY <1>3 DEF SendOnClosed, Close
  <2>2. QED BY <2>1 DEF ChargeInv, Reserved
<1>4. CASE Take
  BY <1>4, TakeKeepsCharge
<1>5. CASE Write \/ Busy \/ Fault
  <2>1. /\ cur # Idle /\ cur' # Idle /\ cur'.op = cur.op
        /\ UNCHANGED <<plan, at, admitted, queue, backlog, closed>>
    BY <1>5, WriteStep, StallStep
  <2>2. InHand' = InHand
    BY <2>1 DEF InHand, Queued
  <2>3. QED BY <2>1, <2>2, SameCharge
<1>6. CASE Release
  BY <1>6, ReleaseKeepsCharge
<1>7. CASE Crash
  <2>1. cur' = Idle /\ queue' = <<>> /\ admitted' = {} /\ backlog' = 0
    BY <1>7, CrashStep
  <2>2. InHand' = {} /\ PayloadsInMemory' = {}
    BY <2>1 DEF InHand, Queued, PayloadsInMemory
  <2>3. Fair(0, {})
    BY SumOverEmpty, BoundsPositive DEF Fair
  <2>4. QED BY <2>1, <2>2, <2>3 DEF ChargeInv, Reserved
<1>8. CASE UNCHANGED vars
  <2>1. UNCHANGED <<plan, at, admitted, queue, cur, backlog, closed>>
    BY <1>8 DEF vars
  <2>2. InHand' = InHand
    BY <2>1 DEF InHand, Queued
  <2>3. QED BY <2>1, <2>2, SameCharge
<1>9. QED
  BY <1>1, <1>2, <1>3, <1>4, <1>5, <1>6, <1>7, <1>8 DEF Next, WriterStep

(* The bytes charged are those of the bodies in memory, no more and no     *)
(* less, and only a single body ever exceeds the budget                    *)
(* (ledger.go:314-330).                                                    *)
THEOREM BacklogIsAlwaysExact == Spec => []BacklogIsExactAndBounded
<1>1. Init => ChargeInv
  BY ChargeInit
<1>2. LineInv /\ ChargeInv /\ [Next]_vars => ChargeInv'
  BY ChargeStep
<1>3. LineInv /\ ChargeInv => BacklogIsExactAndBounded
  BY BoundedIf
<1>4. QED BY <1>1, <1>2, <1>3, LineStaysInOrder, PTL DEF Spec

-----------------------------------------------------------------------------
(* The call log. *)

LEMMA LogInit == ASSUME Init PROVE Log!Init
BY DEF Init, Log!Init

(* A commit is a step of the log; the outcome of a row that has one        *)
(* already changes nothing.                                                *)
LEMMA CommitIsLogStep ==
    ASSUME TypeOK, NEW stage, NEW c \in Calls, Accepts(stage, c), Commit(stage, c)
    PROVE  Log!Next \/ UNCHANGED <<status, raw \cup composed>>
<1>1. status \in [Calls -> Statuses]
  BY DEF TypeOK
<1>2. CASE stage = "create"
  <2>1. Log!Open(c)
    BY <1>2 DEF Accepts, Commit, Log!Open
  <2>2. QED BY <2>1 DEF Log!Next
<1>3. CASE stage = "finalize"
  <2>1. /\ status[c] \in {"pending", "final"}
        /\ status' = [status EXCEPT ![c] = "final"] /\ raw' = raw /\ composed' = composed
    BY <1>1, <1>3 DEF Accepts, Commit, Statuses
  <2>2. CASE status[c] = "pending"
    <3>1. Log!Conclude(c)
      BY <2>1, <2>2 DEF Log!Conclude
    <3>2. QED BY <3>1 DEF Log!Next
  <2>3. CASE status[c] = "final"
    BY <1>1, <2>1, <2>3
  <2>4. QED BY <2>1, <2>2, <2>3
<1>4. CASE stage \in {"payload", "composition"}
  <2>1. /\ status[c] # "absent" /\ status' = status
        /\ (raw \cup composed)' = (raw \cup composed) \cup {c}
    BY <1>4 DEF Accepts, Commit
  <2>2. Log!Trace(c)
    BY <2>1 DEF Log!Trace
  <2>3. QED BY <2>2 DEF Log!Next
<1>5. CASE stage \notin {"create", "finalize", "payload", "composition"}
  BY <1>5 DEF Commit
<1>6. QED BY <1>2, <1>3, <1>4, <1>5

LEMMA LogStep ==
    ASSUME LineInv, [Next]_vars
    PROVE  Log!Next \/ UNCHANGED <<status, raw \cup composed>>
<1>1. CASE Write
  <2>1. CASE Accepts(cur.stage, cur.op.call)
    <3>1. PICK c \in Calls, stage \in Kinds : stage = cur.stage /\ c = cur.op.call
      BY <1>1, WriteStep, JobFields DEF LineInv
    <3>2. Accepts(stage, c) /\ Commit(stage, c)
      BY <1>1, <2>1, <3>1, WriteStep
    <3>3. QED BY <3>2, CommitIsLogStep DEF LineInv
  <2>2. CASE ~Accepts(cur.stage, cur.op.call)
    BY <1>1, <2>2, WriteStep
  <2>3. QED BY <2>1, <2>2
<1>2. CASE ~Write
  <2>1. UNCHANGED <<status, raw, composed>>
    BY <1>2 DEF Next, WriterStep, AdmitPayload, Enqueue, SendOnClosed, Take, Busy, Fault,
                Release, Close, Crash, vars, db
  <2>2. QED BY <2>1
<1>3. QED BY <1>1, <1>2

(* Whatever queues, retries, fails, closes or crashes in front of it, the  *)
(* store's tables behave as the call log: a row opens once, gets its       *)
(* outcome once, and a trace hangs only off a row that exists.             *)
THEOREM LedgerImplementsCallLog == Spec => ImplementsCallLog
<1>1. Init => Log!Init
  BY LogInit
<1>2. LineInv /\ [Next]_vars => [Log!Next]_<<status, raw \cup composed>>
  BY LogStep
<1>3. QED BY <1>1, <1>2, LineStaysInOrder, PTL DEF Spec, ImplementsCallLog, Log!Spec
=============================================================================
