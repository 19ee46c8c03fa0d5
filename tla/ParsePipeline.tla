--------------------------- MODULE ParsePipeline ---------------------------
(***************************************************************************)
(* The parse pipeline (internal/proxy/pipeline.go): the ledger's writer    *)
(* submits the captured calls one after another, workers parse them, and   *)
(* the queue is bounded by its slots and by the bytes it holds.  The       *)
(* writer is a single goroutine, so a submission is one step; the workers  *)
(* give bytes back at any time.                                            *)
(***************************************************************************)
EXTENDS Integers, Sequences, SequencesExt, FiniteSets, FiniteSetsExt

CONSTANTS
    Workers,
    ParseSlots, ParseBudget,
    JobSizes,
    MaxJobs             \* bound

ASSUME ParseAssumption ==
    /\ JobSizes \subseteq Nat /\ ParseBudget \in Nat
    /\ IsFiniteSet(Workers)

VARIABLES
    size,               \* of the jobs submitted so far
    queue, working,     \* queued, and per worker the one it processes
    queuedBytes,
    processed,          \* history: the jobs processed
    closing             \* Close was called: the channel is closed

parseVars == <<size, queue, working, queuedBytes, processed, closing>>

NoJob == 0

ParseInit ==
    /\ size = <<>> /\ queue = <<>> /\ working = [w \in Workers |-> NoJob]
    /\ queuedBytes = 0 /\ processed = {} /\ closing = FALSE

(* submit charges the job before it looks.  An empty queue admits one job,
   however large; a refused job's bytes are given back. *)
Fits_UnlessFull(bytes) == queuedBytes < ParseBudget
Fits(bytes) == queuedBytes + bytes <= ParseBudget \/ queuedBytes = 0

Submit ==
    /\ Len(size) < MaxJobs /\ ~closing
    /\ \E bytes \in JobSizes :
        /\ size' = Append(size, bytes)
        /\ IF Fits(bytes) /\ Len(queue) < ParseSlots
           THEN queue' = Append(queue, Len(size')) /\ queuedBytes' = queuedBytes + bytes
           ELSE UNCHANGED <<queue, queuedBytes>>
    /\ UNCHANGED <<working, processed, closing>>

TakeJob(w) ==
    /\ working[w] = NoJob /\ queue # <<>>
    /\ working' = [working EXCEPT ![w] = Head(queue)]
    /\ queue' = Tail(queue)
    /\ UNCHANGED <<size, queuedBytes, processed, closing>>

(* process, and then the bytes. *)
Process(w) ==
    /\ working[w] # NoJob
    /\ processed' = processed \cup {working[w]}
    /\ working' = [working EXCEPT ![w] = NoJob]
    /\ queuedBytes' = queuedBytes - size[working[w]]
    /\ UNCHANGED <<size, queue, closing>>

(* Close, once the ledger's writer has ended. *)
CloseQueue ==
    /\ ~closing
    /\ closing' = TRUE
    /\ UNCHANGED <<size, queue, working, queuedBytes, processed>>

ParseNext ==
    \/ Submit \/ CloseQueue
    \/ \E w \in Workers : TakeJob(w) \/ Process(w)

-----------------------------------------------------------------------------
(* The bytes the queue is charged with are those of the jobs it holds, so no
   path forgets to give them back, and they stay within the budget but for one
   job let into an empty queue, which requests without a body may share
   (submit, worker). *)
ParseQueueIsExact ==
    LET held == Range(queue) \cup (Range(working) \ {NoJob}) IN
    /\ queuedBytes = MapThenSumSet(LAMBDA j : size[j], held)
    /\ queuedBytes <= ParseBudget \/ Cardinality({j \in held : size[j] > 0}) = 1
=============================================================================
