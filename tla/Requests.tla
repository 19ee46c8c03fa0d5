------------------------------ MODULE Requests ------------------------------
(***************************************************************************)
(* internal/proxy, ServeHTTP and handleWebSocket: one client call from its *)
(* arrival to its last deferred statement.  Calls of one user share its    *)
(* spend and its rate window; all of them share one credential's slots.    *)
(* A client has one call at a time and comes back for another.             *)
(*                                                                         *)
(* A call passes routing, budget, rate and gate, is then sent, relayed,    *)
(* charged and recorded, and settles (the deferred release).  Other calls  *)
(* run between any two of these.  The spend tracker, the gate and the      *)
(* ledger appear as what their own modules show them to be: an exact       *)
(* balance, a pool of slots, a table written in order.                     *)
(*                                                                         *)
(* Left out: a call that fails authentication or whose body cannot be read *)
(* (it changes nothing), users without a budget or an RPM (the check is    *)
(* skipped), and what a call tells the router (Router models it).          *)
(***************************************************************************)
EXTENDS Integers, FiniteSets, FiniteSetsExt

CONSTANTS
    Clients, Users,
    UserOf,         \* the user whose key each client presents
    Capturing,      \* the users whose calls are captured
    Budget,         \* user.Budget, in whole units
    MaxCost,        \* the dearest a single call can be
    RPM,            \* user.RPM
    Window,         \* rateWindow, in ticks
    Capacity,       \* max_concurrency of the credential
    MaxBlind        \* bound: budget lookups that fail, per user

ASSUME ClientsFinite == IsFiniteSet(Clients)
ASSUME UserOfType == UserOf \in [Clients -> Users]
ASSUME CostPositive == MaxCost \in Nat \ {0}
ASSUME BudgetPositive == Budget \in Nat \ {0}
ASSUME RateNat == RPM \in Nat \ {0} /\ Window \in Nat \ {0}
ASSUME CapacityNat == Capacity \in Nat \ {0}

VARIABLES
    at,         \* where each client's call stands
    call,       \* what is known and stored of the client's latest call
    cost,       \* what the call being finished is priced at
    slots,      \* the clients whose call holds a slot of the credential
    spent,      \* spend.Tracker's balance of each user
    since,      \* ticks since each user's window began; Window: none
    count,      \* window.count
    billed,     \* history: the sum of the costs on each user's rows
    recent,     \* history: how many calls of each user passed, by age
    blind       \* history: budget checks that failed open

money == <<cost, spent, billed, blind>>
rate == <<since, count, recent>>
vars == <<at, call, slots, money, rate>>

Places == {"idle", "routing", "budget", "rate", "gate", "sending", "relaying",
           "charging", "recording", "settling"}

(* What a call can come to: turned away by the gateway, dead on the way to *)
(* the vendor, or answered by it.                                          *)
Refusals == {"out_of_scope", "no_upstream", "unmatched", "over_budget", "rate_limited"}
Failures == {"client_gone", "build_failed", "transport_error", "hijack_failed"}
Outcomes == Refusals \cup Failures \cup {"answered"}

Calls == [kind : {"http", "websocket"}, capture : BOOLEAN,
          told : Outcomes \cup {"nothing"},
          row : Outcomes \cup {"none", "pending"},
          trace : {"none", "request", "pair"}]

NoCall == [kind |-> "http", capture |-> FALSE, told |-> "nothing",
           row |-> "none", trace |-> "none"]

ClientsOf(u) == {c \in Clients : UserOf[c] = u}
IsHTTP(c) == call[c].kind = "http"

Init ==
    /\ at = [c \in Clients |-> "idle"]
    /\ call = [c \in Clients |-> NoCall]
    /\ cost = [c \in Clients |-> 0]
    /\ slots = {}
    /\ spent = [u \in Users |-> 0]
    /\ since = [u \in Users |-> Window]
    /\ count = [u \in Users |-> 0]
    /\ billed = [u \in Users |-> 0]
    /\ recent = [u \in Users |-> [age \in 0..(Window - 1) |-> 0]]
    /\ blind = [u \in Users |-> 0]

Go(c, place) == at' = [at EXCEPT ![c] = place]

(* pressure.Capture: the user's wish, unless the host is short right now.  *)
Allowed(wish) == {FALSE, wish}

-----------------------------------------------------------------------------
(* Answering a call that reaches no vendor, or whose vendor never answered *)

(* denyCapture: the client hears the outcome, the row is finalized with    *)
(* it, and a captured refusal stores request and synthesized answer.       *)
Deny(c, outcome, capture) ==
    call' = [call EXCEPT ![c].told = outcome, ![c].row = outcome,
                         ![c].trace = IF capture THEN "pair" ELSE @]

(* A WebSocket is denied with writeError alone: no row was opened for it.  *)
WriteError(c, outcome) == call' = [call EXCEPT ![c].told = outcome]

(* append: an upsert writes the whole row of a WebSocket at once. *)
AppendRow(c, outcome) ==
    call' = [call EXCEPT ![c].told = outcome, ![c].row = outcome]

(* A denial by policy or routing, with the call's own capture decision. *)
TurnAway_LeavesPending(c, outcome) == WriteError(c, outcome)
TurnAway(c, outcome) ==
    IF IsHTTP(c) THEN Deny(c, outcome, call[c].capture)
    ELSE IF outcome = "unmatched" THEN AppendRow(c, outcome)
    ELSE WriteError(c, outcome)

-----------------------------------------------------------------------------
(* ServeHTTP up to createCall.  A WebSocket branches off before its body   *)
(* is read and before a row is opened.                                     *)
Arrive(c, kind) ==
    /\ at[c] = "idle"
    /\ \E capture \in Allowed(kind = "http" /\ UserOf[c] \in Capturing) :
          call' = [call EXCEPT ![c] =
                      [kind |-> kind, capture |-> capture, told |-> "nothing",
                       row |-> IF kind = "http" THEN "pending" ELSE "none",
                       trace |-> "none"]]
    /\ Go(c, "routing")
    /\ UNCHANGED <<slots, money, rate>>

Resolve(c) ==
    /\ at[c] = "routing"
    /\ \/ /\ Go(c, "budget")
          /\ UNCHANGED call
       \/ /\ \E outcome \in {"out_of_scope", "no_upstream", "unmatched"} : TurnAway(c, outcome)
          /\ Go(c, "idle")
    /\ UNCHANGED <<slots, money, rate>>

CheckBudget_AllowsEqual(c) ==
    /\ at[c] = "budget"
    /\ IF spent[UserOf[c]] <= Budget THEN Go(c, "rate") /\ UNCHANGED call
       ELSE TurnAway(c, "over_budget") /\ Go(c, "idle")
    /\ UNCHANGED <<slots, money, rate>>
CheckBudget(c) ==
    /\ at[c] = "budget"
    /\ IF spent[UserOf[c]] < Budget THEN Go(c, "rate") /\ UNCHANGED call
       ELSE TurnAway(c, "over_budget") /\ Go(c, "idle")
    /\ UNCHANGED <<slots, money, rate>>

(* The lookup fails: a bookkeeping failure must not deny a call.  (It can  *)
(* only fail until the user's total is in memory; here, at any time.)      *)
FailOpen(c) ==
    /\ at[c] = "budget"
    /\ blind[UserOf[c]] < MaxBlind
    /\ blind' = [blind EXCEPT ![UserOf[c]] = @ + 1]
    /\ Go(c, "rate")
    /\ UNCHANGED <<call, slots, cost, spent, billed, rate>>

(* rateLimiter.allow: the window that has run out is replaced by one in    *)
(* which this call is the first.  The clock is read right before the lock. *)
Expired(u) == since[u] >= Window
OpenWindow_CountsFromZero(u) ==
    since' = [since EXCEPT ![u] = 0] /\ count' = [count EXCEPT ![u] = 0]
OpenWindow(u) ==
    since' = [since EXCEPT ![u] = 0] /\ count' = [count EXCEPT ![u] = 1]

Admitted(u) ==
    /\ \/ Expired(u) /\ OpenWindow(u)
       \/ /\ ~Expired(u) /\ count[u] < RPM
          /\ count' = [count EXCEPT ![u] = @ + 1]
          /\ UNCHANGED since
    /\ recent' = [recent EXCEPT ![u][0] = @ + 1]

(* Past the limiter a captured call stores its request at once, before it  *)
(* waits for anything (captureRequest).                                    *)
CaptureRequest(c) ==
    call' = [call EXCEPT ![c].trace = IF call[c].capture THEN "request" ELSE @]

CheckRate(c) ==
    /\ at[c] = "rate"
    /\ \/ /\ Admitted(UserOf[c])
          /\ CaptureRequest(c)
          /\ Go(c, "gate")
       \/ /\ ~Expired(UserOf[c]) /\ count[UserOf[c]] >= RPM
          /\ TurnAway(c, "rate_limited")
          /\ Go(c, "idle")
          /\ UNCHANGED rate
    /\ UNCHANGED <<slots, money>>

(* A WebSocket whose vendor has no usable origin ends before the gate. *)
BadOrigin(c) ==
    /\ at[c] = "gate" /\ ~IsHTTP(c)
    /\ WriteError(c, "build_failed")
    /\ Go(c, "idle")
    /\ UNCHANGED <<slots, money, rate>>

-----------------------------------------------------------------------------
(* The gate, the vendor, and the way back *)

(* Gate, as the pool of slots it implements (SlotPool), under one limit. *)
Acquire(c) ==
    /\ at[c] = "gate"
    /\ Cardinality(slots) < Capacity
    /\ slots' = slots \cup {c}
    /\ Go(c, "sending")
    /\ UNCHANGED <<call, money, rate>>

GiveUp_StoresPair(c) ==
    /\ at[c] = "gate"
    /\ IF IsHTTP(c) THEN Deny(c, "client_gone", call[c].capture)
       ELSE WriteError(c, "client_gone")
    /\ Go(c, "idle")
    /\ UNCHANGED <<slots, money, rate>>
GiveUp(c) ==
    /\ at[c] = "gate"
    /\ IF IsHTTP(c) THEN Deny(c, "client_gone", FALSE)
       ELSE WriteError(c, "client_gone")
    /\ Go(c, "idle")
    /\ UNCHANGED <<slots, money, rate>>

(* Nothing comes back from the vendor. *)
SendFails(c) ==
    /\ at[c] = "sending"
    /\ \/ IsHTTP(c) /\ \E outcome \in {"build_failed", "transport_error"} : Deny(c, outcome, FALSE)
       \/ ~IsHTTP(c) /\ AppendRow(c, "transport_error")
    /\ Go(c, "settling")
    /\ UNCHANGED <<slots, money, rate>>

(* A refused upgrade is relayed as it is, and that is the whole session. *)
HandshakeRefused(c) ==
    /\ at[c] = "sending" /\ ~IsHTTP(c)
    /\ AppendRow(c, "answered")
    /\ Go(c, "settling")
    /\ UNCHANGED <<slots, money, rate>>

(* The vendor's status line reaches the client; its body follows. *)
Answer(c) ==
    /\ at[c] = "sending"
    /\ call' = [call EXCEPT ![c].told = "answered"]
    /\ Go(c, "relaying")
    /\ UNCHANGED <<slots, money, rate>>

(* The client's connection cannot be taken over after a 101: no row. *)
HijackFails(c) ==
    /\ at[c] = "relaying" /\ ~IsHTTP(c)
    /\ WriteError(c, "hijack_failed")
    /\ Go(c, "settling")
    /\ UNCHANGED <<slots, money, rate>>

(* The relay ends, however it ends, and the call is priced.  Capture is    *)
(* decided again.                                                          *)
Relayed(c) ==
    /\ at[c] = "relaying"
    /\ \E price \in 0..MaxCost : cost' = [cost EXCEPT ![c] = price]
    /\ \E capture \in Allowed(call[c].capture) : call' = [call EXCEPT ![c].capture = capture]
    /\ Go(c, "charging")
    /\ UNCHANGED <<slots, spent, billed, blind, rate>>

(* spend.Add, before the row is queued *)
Charge_Overwrites(c) ==
    /\ at[c] = "charging"
    /\ spent' = [spent EXCEPT ![UserOf[c]] = cost[c]]
    /\ Go(c, "recording")
    /\ UNCHANGED <<call, slots, cost, billed, blind, rate>>
Charge(c) ==
    /\ at[c] = "charging"
    /\ spent' = [spent EXCEPT ![UserOf[c]] = @ + cost[c]]
    /\ Go(c, "recording")
    /\ UNCHANGED <<call, slots, cost, billed, blind, rate>>

(* Submit: the row, and the trace behind it. *)
Record(c) ==
    /\ at[c] = "recording"
    /\ call' = [call EXCEPT ![c].row = "answered",
                            ![c].trace = IF call[c].capture THEN "pair" ELSE @]
    /\ billed' = [billed EXCEPT ![UserOf[c]] = @ + cost[c]]
    /\ cost' = [cost EXCEPT ![c] = 0]
    /\ Go(c, "settling")
    /\ UNCHANGED <<slots, spent, blind, rate>>

(* The deferred release of the slot, last of all. *)
Release_Forgets(c) ==
    /\ at[c] = "settling"
    /\ Go(c, "idle")
    /\ UNCHANGED <<call, slots, money, rate>>
Release(c) ==
    /\ at[c] = "settling"
    /\ slots' = slots \ {c}
    /\ Go(c, "idle")
    /\ UNCHANGED <<call, money, rate>>

Tick ==
    /\ since' = [u \in Users |-> IF since[u] < Window THEN since[u] + 1 ELSE Window]
    /\ recent' = [u \in Users |-> [age \in 0..(Window - 1) |->
                                      IF age = 0 THEN 0 ELSE recent[u][age - 1]]]
    /\ UNCHANGED <<at, call, slots, money, count>>

(* What the handler does by itself; Arrive and GiveUp are the client's. *)
Proceed(c) ==
    \/ Resolve(c) \/ CheckBudget(c) \/ FailOpen(c) \/ CheckRate(c)
    \/ BadOrigin(c) \/ SendFails(c) \/ HandshakeRefused(c) \/ Answer(c)
    \/ HijackFails(c) \/ Relayed(c) \/ Charge(c) \/ Record(c) \/ Release(c)

Next ==
    \/ \E c \in Clients :
          \/ \E kind \in {"http", "websocket"} : Arrive(c, kind)
          \/ Acquire(c) \/ GiveUp(c) \/ Proceed(c)
    \/ Tick

Spec == Init /\ [][Next]_vars

(* The handler runs, and an exchange with a vendor ends.  The gate serves  *)
(* its queue in order (Gate!HeadLeavesQueue), so a call that finds room    *)
(* again and again gets it.                                                *)
FairSpec ==
    /\ Spec
    /\ \A c \in Clients : WF_vars(Proceed(c)) /\ SF_vars(Acquire(c))

-----------------------------------------------------------------------------
SlotPlaces == {"sending", "relaying", "charging", "recording", "settling"}

(* Every variable has its type; a slot is held from Acquire to Release and *)
(* at no other time.                                                       *)
TypeOK ==
    /\ at \in [Clients -> Places]
    /\ call \in [Clients -> Calls]
    /\ cost \in [Clients -> 0..MaxCost]
    /\ spent \in [Users -> Nat] /\ billed \in [Users -> Nat] /\ blind \in [Users -> Nat]
    /\ since \in [Users -> 0..Window] /\ count \in [Users -> Nat]
    /\ recent \in [Users -> [0..(Window - 1) -> Nat]]
    /\ slots = {c \in Clients : at[c] \in SlotPlaces}

(* "Budget enforcement is a coarse pre-check; concurrent calls can cross   *)
(* the cap" (proxy-takeaway.md:270), but never by more than one call's     *)
(* cost for each client of the user, and one for each check that failed.   *)
OvershootBounded ==
    \A u \in Users :
        spent[u] < Budget + MaxCost * (Cardinality(ClientsOf(u)) + blind[u])

(* The window is fixed, not sliding (ratelimit.go:11), so a minute that    *)
(* straddles two of them may see more than RPM calls pass: the end of one  *)
(* and all of the next, but never the call that opened the first.          *)
RateHeld ==
    \A u \in Users : MapThenSumSet(LAMBDA age : recent[u][age], 0..(Window - 1)) <= 2 * RPM - 1

(* What a user was charged is on its rows, or about to be: the balance is  *)
(* ahead of the rows by exactly the calls between spend.Add and Submit     *)
(* (proxy.go:1153-1163).                                                   *)
SpendMatchesRows ==
    \A u \in Users :
        spent[u] = billed[u] + MapThenSumSet(LAMBDA c : cost[c],
                                             {c \in ClientsOf(u) : at[c] = "recording"})

(* A row says what its client was told, from the moment the call is over,  *)
(* and is pending until then (arch-gateway.md, the two-phase call write).  *)
(* A WebSocket without a row was turned away, or never got its pipe.       *)
RowsTellTheAnswer ==
    \A c \in Clients :
        /\ at[c] \in {"idle", "settling"} /\ call[c] # NoCall =>
              \/ call[c].row = call[c].told /\ call[c].row \in Outcomes
              \/ /\ ~IsHTTP(c) /\ call[c].row = "none"
                 /\ call[c].told \notin {"unmatched", "transport_error", "answered"}
        /\ at[c] \notin {"idle", "settling"} =>
              call[c].row = IF IsHTTP(c) THEN "pending" ELSE "none"

(* Nothing is stored of a user who did not ask for it.  Request and answer *)
(* are stored together only when the client really got that answer, from   *)
(* the vendor or as a refusal; a refused call never leaves a request only. *)
TracesMatchOutcomes ==
    \A c \in Clients :
        /\ call[c].trace # "none" => UserOf[c] \in Capturing /\ IsHTTP(c)
        /\ call[c].trace = "pair" => call[c].told \in Refusals \cup {"answered"}
        /\ call[c].trace = "request" => call[c].told \notin Refusals

(* Every call comes to an end, the ones that wait for a slot included: no  *)
(* path through the handler keeps its slot.                                *)
EveryCallEnds == \A c \in Clients : at[c] # "idle" ~> at[c] = "idle"
=============================================================================
