---------------------------- MODULE Housekeeping ----------------------------
(***************************************************************************)
(* What runs beside the requests and how it ends: the janitor's sweep over *)
(* the retention tiers, the drain of the retired parsed_calls table, the   *)
(* feed, the spend flusher, the checkpointer and the proxy's forks, all on *)
(* one store, and main's deferred calls, which stop them and close it      *)
(* (cmd/songguo, internal/janitor, store/retention.go).  What the feed,    *)
(* the flusher and the forks write is in Config, Spend, Ledger and         *)
(* Sessions; here they hold the write lock and change the rows that the    *)
(* sweep looks at.                                                         *)
(***************************************************************************)
EXTENDS Integers, Sequences, FiniteSets, FiniteSetsExt, Functions, TLC

CONSTANTS
    Held,               \* per tier, the rows an earlier life left: id -> time
    Parsed,             \* how many rows may be left in parsed_calls
    Window,             \* per tier; 0 never prunes
    Batch, DrainBatch,
    MaxNow, MaxWrites, MaxFailures, MaxSweeps       \* bounds

VARIABLES
    now,
    tiers,              \* per tier: id -> its timestamp
    parsed,             \* rows of parsed_calls, or Dropped
    analysed,           \* the planner has statistics
    sweep,              \* the janitor: its tier, and the sweep's now
    drain,              \* the drain: where it is, or why it rests
    lock,               \* who is inside a statement under writeMu
    jobs,               \* the goroutines that run
    deferred,           \* main's deferred calls still to run
    closed,             \* the database handle is closed
    writes, failures, sweeps

housekeepingVars ==
    <<now, tiers, parsed, analysed, sweep, drain, lock, jobs, deferred, closed,
      writes, failures, sweeps>>

Dropped == -1
NoLock == "none"
Tiers == <<"raw", "calls", "sessions">>
Background == {"feed", "janitor", "drain", "spend", "checkpointer", "forks"}

(* What main defers, in the order it runs on the way out. *)
OnTheWayOut == <<"stopFeed", "stopJanitor", "stopSpend", "feed", "janitor", "spend",
                 "stopPressure", "forks", "checkpointer">>

HousekeepingInit ==
    /\ now = 0
    /\ tiers = Held /\ parsed \in Parsed /\ analysed = FALSE
    /\ sweep = [at |-> "idle", since |-> 0]
    /\ drain = "pending"
    /\ lock = NoLock
    /\ jobs = {} /\ deferred = OnTheWayOut /\ closed = FALSE
    /\ writes = 0 /\ failures = 0 /\ sweeps = 0

(* The store is open and main has started its goroutines. *)
StartJobs ==
    /\ jobs = {} /\ deferred = OnTheWayOut
    /\ jobs' = Background
    /\ drain' = "check"
    /\ UNCHANGED <<now, tiers, parsed, analysed, sweep, lock, deferred, closed, writes, failures,
                   sweeps>>

Called(call) == call \notin Range(deferred)

Cancelled_NotTheDrain(job) ==
    \/ job = "feed" /\ Called("stopFeed")
    \/ job = "janitor" /\ Called("stopJanitor")
    \/ job = "spend" /\ Called("stopSpend")
    \/ deferred # <<>> /\ job = Head(deferred) /\ job \in {"forks", "checkpointer"}
Cancelled(job) ==
    \/ job = "feed" /\ Called("stopFeed")
    \/ job \in {"janitor", "drain"} /\ Called("stopJanitor")
    \/ job = "spend" /\ Called("stopSpend")
    \/ deferred # <<>> /\ job = Head(deferred) /\ job \in {"forks", "checkpointer"}

Tick ==
    /\ now < MaxNow
    /\ now' = now + 1
    /\ UNCHANGED <<tiers, parsed, analysed, sweep, drain, lock, jobs, deferred, closed, writes,
                   failures, sweeps>>

-----------------------------------------------------------------------------
(* Statements under writeMu *)

Take(job) ==
    /\ job \in jobs /\ lock = NoLock
    /\ lock' = job
    /\ UNCHANGED <<now, tiers, parsed, analysed, sweep, drain, jobs, deferred, closed, failures>>

BeginWrite(job) ==
    /\ writes < MaxWrites
    /\ writes' = writes + 1
    /\ Take(job)
    /\ UNCHANGED sweeps

(* The forks add a call with its body, or touch its session. *)
EndWrite(job) ==
    /\ job \in {"feed", "spend", "forks"} /\ lock = job
    /\ lock' = NoLock
    /\ \/ /\ job = "forks"
          /\ LET id == "new" IN
             tiers' = [tiers EXCEPT !["calls"] = (id :> now) @@ @, !["raw"] = (id :> now) @@ @]
       \/ /\ job = "forks"
          /\ tiers' = [tiers EXCEPT !["sessions"] = [s \in DOMAIN @ |-> now]]
       \/ job # "forks" /\ UNCHANGED tiers
    /\ UNCHANGED <<now, parsed, analysed, sweep, drain, jobs, deferred, closed, writes, failures,
                   sweeps>>

-----------------------------------------------------------------------------
(* The sweep *)

Following(tier) ==
    CASE tier = "raw" -> "calls" [] tier = "calls" -> "sessions"
      [] tier = "sessions" -> "optimize" [] tier = "optimize" -> "idle"

AdvanceTo(at) == sweep' = [sweep EXCEPT !.at = at]

StartSweep ==
    /\ "janitor" \in jobs /\ sweep.at = "idle" /\ ~Cancelled("janitor")
    /\ sweeps < MaxSweeps
    /\ sweeps' = sweeps + 1
    /\ sweep' = [at |-> "raw", since |-> now]
    /\ UNCHANGED <<now, tiers, parsed, analysed, drain, lock, jobs, deferred, closed, writes,
                   failures>>

Sweeps(tier) == sweep.at = tier /\ lock # "janitor"

(* A tier that is never pruned, and every tier once the context is cancelled. *)
SkipTier ==
    \E tier \in Range(Tiers) :
        /\ Sweeps(tier)
        /\ Window[tier] = 0 \/ Cancelled("janitor")
        /\ AdvanceTo(Following(tier))
        /\ UNCHANGED <<now, tiers, parsed, analysed, drain, lock, jobs, deferred, closed, writes,
                       failures, sweeps>>

BeginPrune ==
    /\ \E tier \in Range(Tiers) :
           Sweeps(tier) /\ Window[tier] > 0 /\ ~Cancelled("janitor")
    /\ Take("janitor")
    /\ UNCHANGED <<writes, sweeps>>

Expired(tier) == {r \in DOMAIN tiers[tier] : tiers[tier][r] < sweep.since - Window[tier]}

Pruned(table, ids) == Restrict(table, DOMAIN table \ ids)

(* pruneOlderThan, one batch: whichever expired rows the LIMIT picks.  A call
   takes its body with it.  A short batch was the last. *)
EndPrune ==
    \E tier \in Range(Tiers) :
        /\ sweep.at = tier /\ lock = "janitor"
        /\ lock' = NoLock
        /\ \/ \E gone \in SUBSET Expired(tier) :
                /\ Cardinality(gone) = Min({Batch[tier], Cardinality(Expired(tier))})
                /\ tiers' = [tiers EXCEPT ![tier] = Pruned(@, gone),
                                ![IF tier = "calls" THEN "raw" ELSE tier] = Pruned(@, gone)]
                /\ AdvanceTo(IF Cardinality(gone) < Batch[tier] THEN Following(tier) ELSE tier)
                /\ UNCHANGED failures
           \/ /\ Cancelled("janitor")
              /\ AdvanceTo(Following(tier))
              /\ UNCHANGED <<tiers, failures>>
           \/ /\ failures < MaxFailures
              /\ failures' = failures + 1
              /\ AdvanceTo(Following(tier))
              /\ UNCHANGED tiers
        /\ UNCHANGED <<now, parsed, analysed, drain, jobs, deferred, closed, writes, sweeps>>

(* Optimize: a full ANALYZE the first time.  A failure is only logged. *)
BeginOptimize == sweep.at = "optimize" /\ Take("janitor") /\ UNCHANGED <<writes, sweeps>>

EndOptimize ==
    /\ sweep.at = "optimize" /\ lock = "janitor"
    /\ lock' = NoLock
    /\ analysed' \in IF Cancelled("janitor") THEN {analysed, TRUE} ELSE {TRUE}
    /\ AdvanceTo("idle")
    /\ UNCHANGED <<now, tiers, parsed, drain, jobs, deferred, closed, writes, failures, sweeps>>

-----------------------------------------------------------------------------
(* The drain.  Each time round it asks the pressure monitor, whose answer may
   be anything: the level is above normal, or half the I/O line is reached. *)

Exits(job) == jobs' = jobs \ {job}
Resting == {"running", "paused", "retrying"}

DrainCheck ==
    /\ "drain" \in jobs /\ drain = "check"
    /\ \/ drain' = "paused" /\ UNCHANGED jobs
       \/ parsed = Dropped /\ drain' = "done" /\ Exits("drain")
       \/ parsed # Dropped /\ drain' = "batch" /\ UNCHANGED jobs
    /\ UNCHANGED <<now, tiers, parsed, analysed, sweep, lock, deferred, closed, writes, failures,
                   sweeps>>

BeginBatch == drain = "batch" /\ Take("drain") /\ UNCHANGED <<writes, sweeps>>

(* DrainParsedCalls: an empty table is dropped. *)
EndBatch ==
    /\ lock = "drain"
    /\ lock' = NoLock
    /\ \/ /\ parsed > 0
          /\ parsed' = Max({0, parsed - DrainBatch})
          /\ drain' = "running"
          /\ UNCHANGED <<jobs, failures>>
       \/ /\ parsed = 0
          /\ parsed' = Dropped
          /\ drain' = "done" /\ Exits("drain")
          /\ UNCHANGED failures
       \/ /\ Cancelled("drain")
          /\ drain' = "over" /\ Exits("drain")
          /\ UNCHANGED <<parsed, failures>>
       \/ /\ failures < MaxFailures
          /\ failures' = failures + 1
          /\ drain' = "retrying"
          /\ UNCHANGED <<parsed, jobs>>
    /\ UNCHANGED <<now, tiers, analysed, sweep, deferred, closed, writes, sweeps>>

Rest ==
    /\ drain \in Resting
    /\ \/ ~Cancelled("drain") /\ drain' = "check" /\ UNCHANGED jobs
       \/ Cancelled("drain") /\ drain' = "over" /\ Exits("drain")
    /\ UNCHANGED <<now, tiers, parsed, analysed, sweep, lock, deferred, closed, writes, failures,
                   sweeps>>

-----------------------------------------------------------------------------
(* The way out *)

(* A goroutine returns; the janitor waits for the drain first. *)
Return(job) ==
    /\ job \in jobs \ {"drain"} /\ Cancelled(job) /\ lock # job
    /\ job = "janitor" => sweep.at = "idle" /\ "drain" \notin jobs
    /\ Exits(job)
    /\ UNCHANGED <<now, tiers, parsed, analysed, sweep, drain, lock, deferred, closed, writes,
                   failures, sweeps>>

(* A deferred call cancels a context, or waits for a goroutine to return. *)
Waited_NotForTheJanitor(call) == call \in Background \ {"janitor"} => call \notin jobs
Waited(call) == call \in Background => call \notin jobs

Defer ==
    /\ drain # "pending" /\ deferred # <<>>
    /\ Waited(Head(deferred))
    /\ deferred' = Tail(deferred)
    /\ closed' = (deferred' = <<>>)
    /\ UNCHANGED <<now, tiers, parsed, analysed, sweep, drain, lock, jobs, writes, failures,
                   sweeps>>

HousekeepingNext ==
    \/ StartJobs \/ Tick
    \/ \E job \in {"feed", "spend", "forks"} : BeginWrite(job) \/ EndWrite(job)
    \/ StartSweep \/ SkipTier \/ BeginPrune \/ EndPrune \/ BeginOptimize \/ EndOptimize
    \/ DrainCheck \/ BeginBatch \/ EndBatch \/ Rest
    \/ \E job \in Background : Return(job)
    \/ Defer

(* Every goroutine is scheduled, and a Go mutex starves nobody: a statement in
   flight ends, the janitor and the drain get the lock when they ask for it,
   and what is over returns.  Neither time nor load nor the signal to exit has
   to come. *)
HousekeepingFairness ==
    /\ WF_housekeepingVars((\E job \in Background : EndWrite(job)) \/ EndPrune \/ EndOptimize
                           \/ EndBatch)
    /\ SF_housekeepingVars(BeginPrune \/ SkipTier \/ BeginOptimize)
    /\ SF_housekeepingVars(BeginBatch)
    /\ WF_housekeepingVars(DrainCheck \/ Rest)
    /\ WF_housekeepingVars(\E job \in Background : Return(job))
    /\ WF_housekeepingVars(Defer /\ deferred # OnTheWayOut)

-----------------------------------------------------------------------------
(* Properties *)

(* The store is closed after the last statement of every goroutine main
   started, whatever each was doing when the signal came: a DELETE of the
   janitor or of its drain is never cut short by the close (janitor.go Wait
   and Run, main.go's deferred calls). *)
NothingRunsOnAClosedStore == closed => jobs = {} /\ lock = NoLock

(* The drain gets to the end of the table and drops it, although it yields to
   pressure, to the write lock and to failures, once the load stays low; and
   the way out, once begun, always ends with the store closed. *)
HousekeepingEnds ==
    /\ <>[](drain \notin {"pending", "paused"} /\ deferred = OnTheWayOut) => <>(parsed = Dropped)
    /\ deferred # OnTheWayOut ~> closed
=============================================================================
