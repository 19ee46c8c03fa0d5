------------------------------ MODULE CallLog ------------------------------
(***************************************************************************)
(* What the ledger promises of the call log, whatever queues behind it:    *)
(* a call's row is opened once, then given its outcome once, and a trace   *)
(* hangs only off a row that exists.                                       *)
(***************************************************************************)
CONSTANT Calls

VARIABLES
    status,         \* "absent", "pending" or "final" for each call
    traced          \* the calls with a captured payload or a composition

Init ==
    /\ status = [c \in Calls |-> "absent"]
    /\ traced = {}

Open(c) ==
    /\ status[c] = "absent"
    /\ status' = [status EXCEPT ![c] = "pending"]
    /\ UNCHANGED traced

Conclude(c) ==
    /\ status[c] = "pending"
    /\ status' = [status EXCEPT ![c] = "final"]
    /\ UNCHANGED traced

Trace(c) ==
    /\ status[c] # "absent"
    /\ traced' = traced \cup {c}
    /\ UNCHANGED status

Next == \E c \in Calls : Open(c) \/ Conclude(c) \/ Trace(c)

Spec == Init /\ [][Next]_<<status, traced>>
=============================================================================
