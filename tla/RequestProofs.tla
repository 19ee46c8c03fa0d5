--------------------------- MODULE RequestProofs ---------------------------
(***************************************************************************)
(* What a call through the gateway guarantees for any clients and users    *)
(* and for every budget, price, rate and capacity.                         *)
(***************************************************************************)
EXTENDS Requests, SumTheorems, FiniteSetTheorems, TLAPS

(* What the steps write about a call stays a call. *)
LEMMA DenyType ==
  ASSUME call \in [Clients -> Calls], NEW c \in Clients, NEW o \in Outcomes,
         NEW b \in BOOLEAN, Deny(c, o, b) \/ WriteError(c, o) \/ AppendRow(c, o)
  PROVE  call' \in [Clients -> Calls]
  BY DEF Deny, WriteError, AppendRow, Calls

LEMMA TurnAwayType ==
  ASSUME call \in [Clients -> Calls], NEW c \in Clients, NEW o \in Outcomes, TurnAway(c, o)
  PROVE  call' \in [Clients -> Calls]
  BY DEF TurnAway, Deny, WriteError, AppendRow, Calls

LEMMA CaptureType ==
  ASSUME call \in [Clients -> Calls], NEW c \in Clients, CaptureRequest(c)
  PROVE  call' \in [Clients -> Calls]
  BY DEF CaptureRequest, Calls

LEMMA ArriveType ==
  ASSUME call \in [Clients -> Calls], NEW c \in Clients, NEW k \in {"http", "websocket"},
         Arrive(c, k)
  PROVE  call' \in [Clients -> Calls]
  <1>1. PICK b \in Allowed(k = "http" /\ UserOf[c] \in Capturing) :
          call' = [call EXCEPT ![c] =
                      [kind |-> k, capture |-> b, told |-> "nothing",
                       row |-> IF k = "http" THEN "pending" ELSE "none",
                       trace |-> "none"]]
    BY DEF Arrive
  <1>2. b \in BOOLEAN
    BY DEF Allowed
  <1>3. QED
    BY <1>1, <1>2 DEF Calls

LEMMA RelayedType ==
  ASSUME call \in [Clients -> Calls], NEW c \in Clients, Relayed(c)
  PROVE  call' \in [Clients -> Calls]
  <1>1. PICK b \in Allowed(call[c].capture) : call' = [call EXCEPT ![c].capture = b]
    BY DEF Relayed
  <1>2. b \in BOOLEAN
    BY DEF Allowed, Calls
  <1>3. QED
    BY <1>1, <1>2 DEF Calls

LEMMA RecordType ==
  ASSUME call \in [Clients -> Calls], NEW c \in Clients, Record(c)
  PROVE  call' \in [Clients -> Calls]
  <1>1. call' = [call EXCEPT ![c].row = "answered",
                             ![c].trace = IF call[c].capture THEN "pair" ELSE @]
    BY DEF Record
  <1>2. PICK t \in {"none", "request", "pair"} :
          call' = [call EXCEPT ![c].row = "answered", ![c].trace = t]
    BY <1>1 DEF Calls
  <1>3. QED
    BY <1>2 DEF Calls, Outcomes

LEMMA OneMore ==
  ASSUME NEW S, NEW f \in [S -> Nat], NEW x \in S
  PROVE  [f EXCEPT ![x] = @ + 1] \in [S -> Nat]
  OBVIOUS

LEMMA AdmittedType ==
  ASSUME TypeOK, NEW u \in Users, Admitted(u)
  PROVE  /\ since' \in [Users -> 0..Window]
         /\ count' \in [Users -> Nat]
         /\ recent' \in [Users -> [0..(Window - 1) -> Nat]]
  <1>1. since' \in [Users -> 0..Window] /\ count' \in [Users -> Nat]
    <2>1. 0 \in 0..Window /\ count[u] + 1 \in Nat
      BY RateNat DEF TypeOK
    <2>2. CASE OpenWindow(u)
      BY <2>1, <2>2 DEF TypeOK, OpenWindow
    <2>3. CASE count' = [count EXCEPT ![u] = @ + 1] /\ UNCHANGED since
      BY <2>1, <2>3 DEF TypeOK
    <2>4. QED
      BY <2>2, <2>3 DEF Admitted
  <1>2. recent' \in [Users -> [0..(Window - 1) -> Nat]]
    <2>1. 0 \in 0..(Window - 1)
      BY RateNat
    <2>2. recent[u] \in [0..(Window - 1) -> Nat]
      BY DEF TypeOK
    <2>3. [recent[u] EXCEPT ![0] = @ + 1] \in [0..(Window - 1) -> Nat]
      BY <2>1, <2>2, OneMore
    <2>4. QED
      BY <2>3 DEF TypeOK, Admitted
  <1>3. QED
    BY <1>1, <1>2

(* A step that stays outside the slots, or inside them, keeps them exact.  *)
LEMMA SlotsStay ==
  ASSUME TypeOK, NEW c \in Clients, NEW p \in Places, Go(c, p), UNCHANGED slots,
         at[c] \in SlotPlaces <=> p \in SlotPlaces
  PROVE  /\ at' \in [Clients -> Places]
         /\ slots' = {d \in Clients : at'[d] \in SlotPlaces}
  BY DEF TypeOK, Go

(* Every action keeps every variable in its type, and the slots are those  *)
(* of the calls between Acquire and Release: whatever path a call takes    *)
(* through ServeHTTP, it releases its slot, and only once.                 *)
THEOREM RequestsTypeCorrect == Spec => []TypeOK
  <1>1. Init => TypeOK
    BY RateNat, CostPositive
       DEF Init, TypeOK, Places, SlotPlaces, NoCall, Calls, Outcomes
  <1>2. TypeOK /\ [Next]_vars => TypeOK'
    <2> SUFFICES ASSUME TypeOK, [Next]_vars
                 PROVE  TypeOK'
      OBVIOUS
    <2> USE UserOfType DEF vars, money, rate
    <2>1. ASSUME NEW c \in Clients, NEW k \in {"http", "websocket"}, Arrive(c, k)
          PROVE  TypeOK'
      <3>1. call' \in [Clients -> Calls]
        BY <2>1, ArriveType DEF TypeOK
      <3>2. QED
        BY <2>1, <3>1, SlotsStay DEF TypeOK, Arrive, Places, SlotPlaces
    <2>2. ASSUME NEW c \in Clients, Resolve(c)
          PROVE  TypeOK'
      <3>1. call' \in [Clients -> Calls]
        BY <2>2, TurnAwayType DEF TypeOK, Resolve, Outcomes, Refusals
      <3>2. QED
        BY <2>2, <3>1, SlotsStay DEF TypeOK, Resolve, Places, SlotPlaces
    <2>3. ASSUME NEW c \in Clients, CheckBudget(c)
          PROVE  TypeOK'
      <3>1. call' \in [Clients -> Calls]
        BY <2>3, TurnAwayType DEF TypeOK, CheckBudget, Outcomes, Refusals
      <3>2. QED
        BY <2>3, <3>1, SlotsStay DEF TypeOK, CheckBudget, Places, SlotPlaces
    <2>4. ASSUME NEW c \in Clients, FailOpen(c)
          PROVE  TypeOK'
      <3>1. blind' \in [Users -> Nat]
        BY <2>4 DEF TypeOK, FailOpen
      <3>2. QED
        BY <2>4, <3>1, SlotsStay DEF TypeOK, FailOpen, Places, SlotPlaces
    <2>5. ASSUME NEW c \in Clients, CheckRate(c)
          PROVE  TypeOK'
      <3>1. call' \in [Clients -> Calls]
        BY <2>5, TurnAwayType, CaptureType DEF TypeOK, CheckRate, Outcomes, Refusals
      <3>2. /\ since' \in [Users -> 0..Window] /\ count' \in [Users -> Nat]
            /\ recent' \in [Users -> [0..(Window - 1) -> Nat]]
        BY <2>5, AdmittedType DEF TypeOK, CheckRate
      <3>3. QED
        BY <2>5, <3>1, <3>2, SlotsStay DEF TypeOK, CheckRate, Places, SlotPlaces
    <2>6. ASSUME NEW c \in Clients, BadOrigin(c) \/ GiveUp(c)
          PROVE  TypeOK'
      <3>1. call' \in [Clients -> Calls]
        BY <2>6, DenyType DEF TypeOK, BadOrigin, GiveUp, Outcomes, Failures
      <3>2. QED
        BY <2>6, <3>1, SlotsStay DEF TypeOK, BadOrigin, GiveUp, Places, SlotPlaces
    <2>7. ASSUME NEW c \in Clients, Acquire(c)
          PROVE  TypeOK'
      BY <2>7 DEF TypeOK, Acquire, Go, Places, SlotPlaces
    <2>8. ASSUME NEW c \in Clients,
                 SendFails(c) \/ HandshakeRefused(c) \/ Answer(c) \/ HijackFails(c)
          PROVE  TypeOK'
      <3>1. call' \in [Clients -> Calls]
        BY <2>8, DenyType DEF TypeOK, SendFails, HandshakeRefused, Answer, HijackFails,
                              WriteError, Outcomes, Failures
      <3>2. QED
        BY <2>8, <3>1, SlotsStay
           DEF TypeOK, SendFails, HandshakeRefused, Answer, HijackFails, Places, SlotPlaces
    <2>9. ASSUME NEW c \in Clients, Relayed(c)
          PROVE  TypeOK'
      <3>1. call' \in [Clients -> Calls]
        BY <2>9, RelayedType DEF TypeOK
      <3>2. QED
        BY <2>9, <3>1, SlotsStay DEF TypeOK, Relayed, Places, SlotPlaces
    <2>10. ASSUME NEW c \in Clients, Charge(c)
           PROVE  TypeOK'
      <3>1. spent' \in [Users -> Nat]
        BY <2>10, CostPositive DEF TypeOK, Charge
      <3>2. QED
        BY <2>10, <3>1, SlotsStay DEF TypeOK, Charge, Places, SlotPlaces
    <2>11. ASSUME NEW c \in Clients, Record(c)
           PROVE  TypeOK'
      <3>1. call' \in [Clients -> Calls]
        BY <2>11, RecordType DEF TypeOK
      <3>2. billed' \in [Users -> Nat] /\ cost' \in [Clients -> 0..MaxCost]
        BY <2>11, CostPositive DEF TypeOK, Record
      <3>3. QED
        BY <2>11, <3>1, <3>2, SlotsStay DEF TypeOK, Record, Places, SlotPlaces
    <2>12. ASSUME NEW c \in Clients, Release(c)
           PROVE  TypeOK'
      BY <2>12 DEF TypeOK, Release, Go, Places, SlotPlaces
    <2>13. CASE Tick
      <3>1. since' \in [Users -> 0..Window]
        BY <2>13, RateNat DEF TypeOK, Tick
      <3>2. recent' \in [Users -> [0..(Window - 1) -> Nat]]
        BY <2>13, RateNat DEF TypeOK, Tick
      <3>3. QED
        BY <2>13, <3>1, <3>2 DEF TypeOK, Tick
    <2>14. CASE UNCHANGED vars
      BY <2>14 DEF TypeOK
    <2>15. QED
      BY <2>1, <2>2, <2>3, <2>4, <2>5, <2>6, <2>7, <2>8, <2>9, <2>10, <2>11, <2>12,
         <2>13, <2>14 DEF Next, Proceed
  <1>3. QED
    BY <1>1, <1>2, PTL DEF Spec
-----------------------------------------------------------------------------

(* The overshoot.  Counting what each call past its check may still cost   *)
(* makes the bound inductive: a check that passes finds spent below the    *)
(* budget whatever the others owe, one that fails open raises both sides,  *)
(* and a charge turns what was owed into what is spent.                    *)
Owing(u) == {c \in ClientsOf(u) : at[c] \in {"rate", "gate", "sending", "relaying", "charging"}}

OwedWithinBound ==
    \A u \in Users :
        spent[u] + MaxCost * Cardinality(Owing(u))
            < Budget + MaxCost * (Cardinality(ClientsOf(u)) + blind[u])

LEMMA TimesMonotone ==
  ASSUME NEW m \in Nat, NEW i \in Nat, NEW j \in Nat, i <= j
  PROVE  m * i \in Nat /\ m * i <= m * j
  OBVIOUS

LEMMA TimesSuccessor ==
  ASSUME NEW m \in Nat, NEW i \in Nat
  PROVE  m * (i + 1) = m * i + m /\ m * i \in Nat
  OBVIOUS

LEMMA ClientsOfFinite ==
  ASSUME NEW u
  PROVE  /\ IsFiniteSet(ClientsOf(u))
         /\ Cardinality(ClientsOf(u)) \in Nat
         /\ IsFiniteSet(Owing(u)) /\ IsFiniteSet(Owing(u)')
         /\ Cardinality(Owing(u)) \in Nat /\ Cardinality(Owing(u)') \in Nat
         /\ Cardinality(Owing(u)) <= Cardinality(ClientsOf(u))
         /\ Cardinality(Owing(u)') <= Cardinality(ClientsOf(u))
  <1>1. ClientsOf(u) \subseteq Clients /\ IsFiniteSet(ClientsOf(u))
    BY ClientsFinite, FS_Subset DEF ClientsOf
  <1>2. Owing(u) \subseteq ClientsOf(u) /\ Owing(u)' \subseteq ClientsOf(u)
    BY DEF Owing, ClientsOf
  <1>3. QED
    BY <1>1, <1>2, FS_Subset, FS_CardinalityType

(* Nobody new owes anything: the bound stands. *)
LEMMA BoundStands ==
  ASSUME TypeOK, OwedWithinBound, UNCHANGED <<spent, blind>>,
         \A u \in Users : Owing(u)' \subseteq Owing(u)
  PROVE  OwedWithinBound'
  <1> SUFFICES ASSUME NEW u \in Users
               PROVE  spent[u] + MaxCost * Cardinality(Owing(u)')
                        < Budget + MaxCost * (Cardinality(ClientsOf(u)) + blind[u])
    BY DEF OwedWithinBound, ClientsOf
  <1>1. Cardinality(Owing(u)') <= Cardinality(Owing(u))
    BY ClientsOfFinite, FS_Subset
  <1>2. /\ MaxCost * Cardinality(Owing(u)') \in Nat
        /\ MaxCost * Cardinality(Owing(u)) \in Nat
        /\ MaxCost * Cardinality(Owing(u)') <= MaxCost * Cardinality(Owing(u))
    BY <1>1, ClientsOfFinite, TimesMonotone, CostPositive
  <1>3. MaxCost * (Cardinality(ClientsOf(u)) + blind[u]) \in Nat
    BY ClientsOfFinite, TimesMonotone, CostPositive DEF TypeOK
  <1>4. spent[u] \in Nat /\ Budget \in Nat
    BY BudgetPositive DEF TypeOK
  <1>5. QED
    BY <1>2, <1>3, <1>4 DEF OwedWithinBound

LEMMA BoundAtCheck ==
  ASSUME TypeOK, OwedWithinBound, NEW c \in Clients, CheckBudget(c)
  PROVE  OwedWithinBound'
  <1>1. CASE Go(c, "idle")
    <2>1. \A u \in Users : Owing(u)' \subseteq Owing(u)
      BY <1>1 DEF Owing, Go, TypeOK, ClientsOf
    <2>2. QED
      BY <2>1, BoundStands DEF CheckBudget, money
  <1>2. CASE spent[UserOf[c]] < Budget /\ Go(c, "rate")
    <2> SUFFICES ASSUME NEW u \in Users
                 PROVE  spent[u] + MaxCost * Cardinality(Owing(u)')
                          < Budget + MaxCost * (Cardinality(ClientsOf(u)) + blind[u])
      BY DEF OwedWithinBound, ClientsOf, CheckBudget, money
    <2>1. CASE u = UserOf[c]
      <3>1. /\ MaxCost * Cardinality(Owing(u)') \in Nat
            /\ MaxCost * (Cardinality(ClientsOf(u)) + blind[u]) \in Nat
            /\ MaxCost * Cardinality(Owing(u)') <= MaxCost * (Cardinality(ClientsOf(u)) + blind[u])
        <4>1. /\ Cardinality(ClientsOf(u)) + blind[u] \in Nat
              /\ Cardinality(Owing(u)') <= Cardinality(ClientsOf(u)) + blind[u]
          BY ClientsOfFinite DEF TypeOK
        <4>2. QED
          BY <4>1, ClientsOfFinite, TimesMonotone, CostPositive
      <3>2. spent[u] \in Nat /\ Budget \in Nat
        BY BudgetPositive DEF TypeOK
      <3>3. QED
        BY <1>2, <2>1, <3>1, <3>2
    <2>2. CASE u # UserOf[c]
      <3>1. Owing(u)' = Owing(u)
        BY <1>2, <2>2 DEF Owing, Go, TypeOK, ClientsOf
      <3>2. QED
        BY <3>1 DEF OwedWithinBound
    <2>3. QED
      BY <2>1, <2>2
  <1>3. QED
    BY <1>1, <1>2 DEF CheckBudget

LEMMA BoundAtFailOpen ==
  ASSUME TypeOK, OwedWithinBound, NEW c \in Clients, FailOpen(c)
  PROVE  OwedWithinBound'
  <1> SUFFICES ASSUME NEW u \in Users
               PROVE  spent[u] + MaxCost * Cardinality(Owing(u)')
                        < Budget + MaxCost * (Cardinality(ClientsOf(u)) + blind'[u])
    BY DEF OwedWithinBound, ClientsOf, FailOpen
  <1>1. CASE u = UserOf[c]
    <2>1. c \notin Owing(u) /\ Owing(u)' = Owing(u) \cup {c}
      BY <1>1 DEF Owing, ClientsOf, FailOpen, Go, TypeOK
    <2>2. Cardinality(Owing(u)') = Cardinality(Owing(u)) + 1
      BY <2>1, ClientsOfFinite, FS_AddElement
    <2>3. blind'[u] = blind[u] + 1 /\ blind[u] \in Nat /\ spent[u] \in Nat /\ Budget \in Nat
      BY <1>1, UserOfType, BudgetPositive DEF FailOpen, TypeOK
    <2>4. /\ MaxCost * (Cardinality(Owing(u)) + 1) = MaxCost * Cardinality(Owing(u)) + MaxCost
          /\ MaxCost * Cardinality(Owing(u)) \in Nat
      BY ClientsOfFinite, TimesSuccessor, CostPositive
    <2>5. DEFINE k == Cardinality(ClientsOf(u)) + blind[u]
    <2>6. k \in Nat /\ Cardinality(ClientsOf(u)) + blind'[u] = k + 1
      BY <2>3, ClientsOfFinite
    <2>7. MaxCost * (k + 1) = MaxCost * k + MaxCost /\ MaxCost * k \in Nat
      BY <2>6, TimesSuccessor, CostPositive
    <2>8. spent[u] + MaxCost * Cardinality(Owing(u)) < Budget + MaxCost * k
      BY DEF OwedWithinBound
    <2>9. QED
      BY <2>2, <2>3, <2>4, <2>6, <2>7, <2>8, CostPositive
  <1>2. CASE u # UserOf[c]
    <2>1. Owing(u)' = Owing(u) /\ blind'[u] = blind[u]
      BY <1>2 DEF Owing, ClientsOf, FailOpen, Go, TypeOK
    <2>2. QED
      BY <2>1 DEF OwedWithinBound
  <1>3. QED
    BY <1>1, <1>2

LEMMA BoundAtCharge ==
  ASSUME TypeOK, OwedWithinBound, NEW c \in Clients, Charge(c)
  PROVE  OwedWithinBound'
  <1> SUFFICES ASSUME NEW u \in Users
               PROVE  spent'[u] + MaxCost * Cardinality(Owing(u)')
                        < Budget + MaxCost * (Cardinality(ClientsOf(u)) + blind[u])
    BY DEF OwedWithinBound, ClientsOf, Charge
  <1>1. CASE u = UserOf[c]
    <2>1. c \in Owing(u) /\ Owing(u)' = Owing(u) \ {c}
      BY <1>1 DEF Owing, ClientsOf, Charge, Go, TypeOK
    <2>2. Cardinality(Owing(u)) = Cardinality(Owing(u)') + 1
      <3>1. Cardinality(Owing(u)') = Cardinality(Owing(u)) - 1
        BY <2>1, ClientsOfFinite, FS_RemoveElement
      <3>2. QED
        BY <3>1, ClientsOfFinite
    <2>3. spent'[u] = spent[u] + cost[c] /\ spent[u] \in Nat /\ cost[c] \in 0..MaxCost
      BY <1>1, UserOfType DEF Charge, TypeOK
    <2>4. /\ MaxCost * (Cardinality(Owing(u)') + 1) = MaxCost * Cardinality(Owing(u)') + MaxCost
          /\ MaxCost * Cardinality(Owing(u)') \in Nat
      BY ClientsOfFinite, TimesSuccessor, CostPositive
    <2>5. MaxCost * (Cardinality(ClientsOf(u)) + blind[u]) \in Nat
      BY ClientsOfFinite, TimesMonotone, CostPositive DEF TypeOK
    <2>6. spent[u] + MaxCost * Cardinality(Owing(u))
             < Budget + MaxCost * (Cardinality(ClientsOf(u)) + blind[u])
      BY DEF OwedWithinBound
    <2>7. QED
      BY <2>2, <2>3, <2>4, <2>5, <2>6, CostPositive, BudgetPositive
  <1>2. CASE u # UserOf[c]
    <2>1. Owing(u)' = Owing(u) /\ spent'[u] = spent[u]
      BY <1>2 DEF Owing, ClientsOf, Charge, Go, TypeOK
    <2>2. QED
      BY <2>1 DEF OwedWithinBound
  <1>3. QED
    BY <1>1, <1>2

(* However many calls of a user run at once, what they take together goes  *)
(* beyond the budget by less than one call's cost each, plus one for every *)
(* check that could not read the balance (proxy.go:307-325, 1153).         *)
THEOREM OvershootIsBounded == Spec => []OvershootBounded
  <1>1. Init => OwedWithinBound
    <2> SUFFICES ASSUME Init, NEW u \in Users
                 PROVE  spent[u] + MaxCost * Cardinality(Owing(u))
                          < Budget + MaxCost * (Cardinality(ClientsOf(u)) + blind[u])
      BY DEF OwedWithinBound
    <2>1. Owing(u) = {} /\ spent[u] = 0 /\ blind[u] = 0
      BY DEF Init, Owing, ClientsOf
    <2>2. Cardinality(Owing(u)) = 0
      BY <2>1, FS_EmptySet
    <2>3. MaxCost * Cardinality(ClientsOf(u)) \in Nat
      BY ClientsOfFinite, TimesMonotone, CostPositive
    <2>4. QED
      BY <2>1, <2>2, <2>3, ClientsOfFinite, CostPositive, BudgetPositive
  <1>2. TypeOK /\ OwedWithinBound /\ [Next]_vars => OwedWithinBound'
    <2> SUFFICES ASSUME TypeOK, OwedWithinBound, [Next]_vars
                 PROVE  OwedWithinBound'
      OBVIOUS
    <2>1. ASSUME NEW c \in Clients,
                 \/ \E kind \in {"http", "websocket"} : Arrive(c, kind)
                 \/ Resolve(c) \/ BadOrigin(c) \/ GiveUp(c)
          PROVE  OwedWithinBound'
      <3>1. \A u \in Users : Owing(u)' \subseteq Owing(u)
        BY <2>1 DEF Owing, ClientsOf, TypeOK, Go, Arrive, Resolve, BadOrigin, GiveUp
      <3>2. QED
        BY <2>1, <3>1, BoundStands DEF Arrive, Resolve, BadOrigin, GiveUp, money
    <2>2. ASSUME NEW c \in Clients, CheckRate(c) \/ Acquire(c) \/ Answer(c) \/ Relayed(c)
          PROVE  OwedWithinBound'
      <3>1. \A u \in Users : Owing(u)' \subseteq Owing(u)
        BY <2>2 DEF Owing, ClientsOf, TypeOK, Go, CheckRate, Acquire, Answer, Relayed
      <3>2. QED
        BY <2>2, <3>1, BoundStands DEF CheckRate, Acquire, Answer, Relayed, money
    <2>3. ASSUME NEW c \in Clients,
                 SendFails(c) \/ HandshakeRefused(c) \/ HijackFails(c) \/ Record(c) \/ Release(c)
          PROVE  OwedWithinBound'
      <3>1. \A u \in Users : Owing(u)' \subseteq Owing(u)
        BY <2>3 DEF Owing, ClientsOf, TypeOK, Go, SendFails, HandshakeRefused, HijackFails,
                    Record, Release
      <3>2. QED
        BY <2>3, <3>1, BoundStands
           DEF SendFails, HandshakeRefused, HijackFails, Record, Release, money
    <2>4. CASE Tick \/ UNCHANGED vars
      <3>1. \A u \in Users : Owing(u)' \subseteq Owing(u)
        BY <2>4 DEF Owing, ClientsOf, Tick, vars
      <3>2. QED
        BY <2>4, <3>1, BoundStands DEF Tick, vars, money
    <2>5. QED
      BY <2>1, <2>2, <2>3, <2>4, BoundAtCheck, BoundAtFailOpen, BoundAtCharge DEF Next, Proceed
  <1>3. TypeOK /\ OwedWithinBound => OvershootBounded
    <2> SUFFICES ASSUME TypeOK, OwedWithinBound, NEW u \in Users
                 PROVE  spent[u] < Budget + MaxCost * (Cardinality(ClientsOf(u)) + blind[u])
      BY DEF OvershootBounded
    <2>1. MaxCost * Cardinality(Owing(u)) \in Nat
      BY ClientsOfFinite, TimesMonotone, CostPositive
    <2>2. MaxCost * (Cardinality(ClientsOf(u)) + blind[u]) \in Nat
      BY ClientsOfFinite, TimesMonotone, CostPositive DEF TypeOK
    <2>3. QED
      BY <2>1, <2>2, BudgetPositive DEF OwedWithinBound, TypeOK
  <1>4. QED
    BY <1>1, <1>2, <1>3, RequestsTypeCorrect, PTL DEF Spec
-----------------------------------------------------------------------------

(* The story of a call: what is told and stored at each place.  A call     *)
(* that is going on has told nothing, or the vendor's status; it has       *)
(* stored its request at most; and it only ever stores what its user       *)
(* wants captured.                                                         *)
RowWhileOpen(c) == IF IsHTTP(c) THEN "pending" ELSE "none"

Ended(c) ==
    \/ call[c] = NoCall
    \/ call[c].row = call[c].told /\ call[c].row \in Outcomes
    \/ /\ ~IsHTTP(c) /\ call[c].row = "none"
       /\ call[c].told \notin {"unmatched", "transport_error", "answered"}

Story(c) ==
    /\ call[c].capture => UserOf[c] \in Capturing /\ IsHTTP(c)
    /\ call[c].trace # "none" => UserOf[c] \in Capturing /\ IsHTTP(c)
    /\ call[c].trace = "pair" => call[c].told \in Refusals \cup {"answered"}
    /\ call[c].trace = "request" => call[c].told \notin Refusals
    /\ at[c] \in {"idle", "settling"} => Ended(c)
    /\ at[c] \notin {"idle", "settling"} =>
          /\ call[c].row = RowWhileOpen(c)
          /\ call[c].trace # "pair"
          /\ call[c].told = IF at[c] \in {"relaying", "charging", "recording"}
                            THEN "answered" ELSE "nothing"
    /\ at[c] \in {"routing", "budget", "rate"} => call[c].trace = "none"

StoriesHold == \A c \in Clients : Story(c)
(* A step of one client leaves the stories of the others alone. *)
OnlyMoves(c) == \A d \in Clients \ {c} : at'[d] = at[d] /\ call'[d] = call[d]

LEMMA OthersKeepTheirStory ==
  ASSUME StoriesHold, NEW c \in Clients, OnlyMoves(c), Story(c)'
  PROVE  StoriesHold'
  <1>1. ASSUME NEW d \in Clients, d # c
        PROVE  Story(d)'
    BY <1>1 DEF StoriesHold, OnlyMoves, Story, Ended, RowWhileOpen, IsHTTP
  <1>2. QED
    BY <1>1 DEF StoriesHold

(* A denial before the gate ends a call that has stored nothing yet. *)
LEMMA TurnedAwayStory ==
  ASSUME TypeOK, NEW c \in Clients, Story(c), at[c] \in {"routing", "budget", "rate"},
         NEW o \in Refusals, TurnAway(c, o), Go(c, "idle")
  PROVE  Story(c)' /\ OnlyMoves(c)
  <1>1. call[c] \in Calls /\ at'[c] = "idle" /\ o \in Outcomes
    BY DEF TypeOK, Go, Outcomes
  <1>2. call[c].trace = "none" /\ call[c].row = RowWhileOpen(c)
    BY DEF Story
  <1>3. CASE IsHTTP(c) /\ call[c].capture
    <2>1. call' = [call EXCEPT ![c].told = o, ![c].row = o, ![c].trace = "pair"]
      BY <1>3 DEF TurnAway, Deny
    <2>2. call'[c].kind = "http" /\ call'[c].told = o /\ call'[c].row = o /\ call'[c].trace = "pair"
      BY <1>1, <1>3, <2>1 DEF TypeOK, Calls, IsHTTP
    <2>3. UserOf[c] \in Capturing
      BY <1>3 DEF Story
    <2>4. QED
      BY <1>1, <2>1, <2>2, <2>3 DEF Story, Ended, IsHTTP, OnlyMoves, Go, TypeOK
  <1>4. CASE IsHTTP(c) /\ ~call[c].capture
    <2>1. call' = [call EXCEPT ![c].told = o, ![c].row = o, ![c].trace = call[c].trace]
      BY <1>4 DEF TurnAway, Deny
    <2>2. call'[c] = [call[c] EXCEPT !.told = o, !.row = o]
      BY <1>1, <1>2, <2>1 DEF TypeOK, Calls
    <2>3. QED
      BY <1>1, <1>2, <1>4, <2>1, <2>2 DEF Story, Ended, IsHTTP, OnlyMoves, Go, TypeOK, Calls
  <1>5. CASE ~IsHTTP(c) /\ o = "unmatched"
    <2>1. call' = [call EXCEPT ![c].told = o, ![c].row = o]
      BY <1>5 DEF TurnAway, AppendRow
    <2>2. call'[c] = [call[c] EXCEPT !.told = o, !.row = o]
      BY <1>1, <2>1 DEF TypeOK, Calls
    <2>3. QED
      BY <1>1, <1>2, <1>5, <2>1, <2>2 DEF Story, Ended, IsHTTP, OnlyMoves, Go, TypeOK, Calls
  <1>6. CASE ~IsHTTP(c) /\ o # "unmatched"
    <2>1. call' = [call EXCEPT ![c].told = o]
      BY <1>6 DEF TurnAway, WriteError
    <2>2. call'[c] = [call[c] EXCEPT !.told = o] /\ call[c].row = "none"
      BY <1>1, <1>2, <1>6, <2>1 DEF TypeOK, Calls, RowWhileOpen
    <2>3. QED
      BY <1>1, <1>2, <1>6, <2>1, <2>2
         DEF Story, Ended, IsHTTP, OnlyMoves, Go, TypeOK, Calls, Refusals
  <1>7. QED
    BY <1>3, <1>4, <1>5, <1>6

(* From the gate on, a denial stores no answer: there was none. *)
LEMMA DeniedStory ==
  ASSUME TypeOK, NEW c \in Clients, Story(c), at[c] \in {"gate", "sending"}, IsHTTP(c),
         NEW o \in {"client_gone", "build_failed", "transport_error"},
         NEW p \in {"idle", "settling"}, Deny(c, o, FALSE), Go(c, p)
  PROVE  Story(c)' /\ OnlyMoves(c)
  <1>1. call[c] \in Calls /\ at'[c] = p /\ o \in Outcomes /\ o \notin Refusals
    BY DEF TypeOK, Go, Outcomes, Failures, Refusals
  <1>2. call[c].trace # "pair"
    BY DEF Story
  <1>3. call' = [call EXCEPT ![c].told = o, ![c].row = o, ![c].trace = call[c].trace]
    BY DEF Deny
  <1>4. call'[c] = [call[c] EXCEPT !.told = o, !.row = o]
    BY <1>1, <1>3 DEF TypeOK, Calls
  <1>5. QED
    BY <1>1, <1>2, <1>3, <1>4 DEF Story, Ended, IsHTTP, OnlyMoves, Go, TypeOK, Calls

(* A WebSocket has no trace, and its row comes with its end or never. *)
LEMMA SocketStory ==
  ASSUME TypeOK, NEW c \in Clients, Story(c), at[c] \in {"gate", "sending", "relaying"},
         ~IsHTTP(c), NEW p \in {"idle", "settling"}, Go(c, p),
         \/ \E o \in {"transport_error", "answered"} : AppendRow(c, o)
         \/ \E o \in {"client_gone", "build_failed", "hijack_failed"} : WriteError(c, o)
  PROVE  Story(c)' /\ OnlyMoves(c)
  <1>1. call[c] \in Calls /\ at'[c] = p
    BY DEF TypeOK, Go
  <1>2. call[c].trace = "none" /\ call[c].row = "none"
    BY <1>1 DEF Story, RowWhileOpen, Calls
  <1>3. CASE \E o \in {"transport_error", "answered"} : AppendRow(c, o)
    <2>1. PICK o \in {"transport_error", "answered"} :
            call' = [call EXCEPT ![c].told = o, ![c].row = o]
      BY <1>3 DEF AppendRow
    <2>2. call'[c] = [call[c] EXCEPT !.told = o, !.row = o] /\ o \in Outcomes
      BY <1>1, <2>1 DEF TypeOK, Calls, Outcomes, Failures
    <2>3. QED
      BY <1>1, <1>2, <2>1, <2>2 DEF Story, Ended, IsHTTP, OnlyMoves, Go, TypeOK, Calls
  <1>4. CASE \E o \in {"client_gone", "build_failed", "hijack_failed"} : WriteError(c, o)
    <2>1. PICK o \in {"client_gone", "build_failed", "hijack_failed"} :
            call' = [call EXCEPT ![c].told = o]
      BY <1>4 DEF WriteError
    <2>2. call'[c] = [call[c] EXCEPT !.told = o]
      BY <1>1, <2>1 DEF TypeOK, Calls
    <2>3. QED
      BY <1>1, <1>2, <2>1, <2>2 DEF Story, Ended, IsHTTP, OnlyMoves, Go, TypeOK, Calls
  <1>5. QED
    BY <1>3, <1>4
(* A call that only moves on takes its story with it. *)
LEMMA MovedStory ==
  ASSUME TypeOK, NEW c \in Clients, Story(c), UNCHANGED call, NEW p \in Places, Go(c, p),
         \/ at[c] = "routing" /\ p = "budget"
         \/ at[c] = "budget" /\ p = "rate"
         \/ at[c] = "gate" /\ p = "sending"
         \/ at[c] = "charging" /\ p = "recording"
         \/ at[c] = "settling" /\ p = "idle"
  PROVE  Story(c)' /\ OnlyMoves(c)
  BY DEF TypeOK, Go, Story, Ended, RowWhileOpen, IsHTTP, OnlyMoves

LEMMA ArriveStory ==
  ASSUME TypeOK, NEW c \in Clients, NEW k \in {"http", "websocket"}, Arrive(c, k)
  PROVE  Story(c)' /\ OnlyMoves(c)
  <1>1. PICK b \in Allowed(k = "http" /\ UserOf[c] \in Capturing) :
          call' = [call EXCEPT ![c] =
                      [kind |-> k, capture |-> b, told |-> "nothing",
                       row |-> IF k = "http" THEN "pending" ELSE "none",
                       trace |-> "none"]]
    BY DEF Arrive
  <1>2. at'[c] = "routing" /\ OnlyMoves(c)
    BY <1>1 DEF TypeOK, Arrive, Go, OnlyMoves
  <1>3. call'[c].told = "nothing" /\ call'[c].trace = "none" /\ call'[c].kind = k
    BY <1>1 DEF TypeOK
  <1>4. call'[c].row = IF k = "http" THEN "pending" ELSE "none"
    BY <1>1 DEF TypeOK
  <1>5. call'[c].capture => UserOf[c] \in Capturing /\ k = "http"
    BY <1>1 DEF TypeOK, Allowed
  <1>6. QED
    BY <1>2, <1>3, <1>4, <1>5 DEF Story, RowWhileOpen, IsHTTP

(* Past the limiter the request is stored if the call is captured. *)
LEMMA AdmittedStory ==
  ASSUME TypeOK, NEW c \in Clients, Story(c), at[c] = "rate", CaptureRequest(c), Go(c, "gate")
  PROVE  Story(c)' /\ OnlyMoves(c)
  <1>1. call[c] \in Calls /\ at'[c] = "gate" /\ call[c].trace = "none"
    BY DEF TypeOK, Go, Story
  <1>2. PICK t \in {"none", "request"} :
          /\ call' = [call EXCEPT ![c].trace = t]
          /\ t = "request" => call[c].capture
    BY <1>1 DEF CaptureRequest
  <1>3. call'[c] = [call[c] EXCEPT !.trace = t]
    BY <1>1, <1>2 DEF TypeOK, Calls
  <1>4. t = "request" => UserOf[c] \in Capturing /\ IsHTTP(c)
    BY <1>2 DEF Story
  <1>5. call[c].told = "nothing" /\ call[c].row = RowWhileOpen(c)
    BY DEF Story
  <1>6. call[c].capture => UserOf[c] \in Capturing /\ IsHTTP(c)
    BY DEF Story
  <1>7. QED
    BY <1>1, <1>2, <1>3, <1>4, <1>5, <1>6
       DEF Story, RowWhileOpen, IsHTTP, OnlyMoves, Go, TypeOK, Calls, Refusals

LEMMA AnswerStory ==
  ASSUME TypeOK, NEW c \in Clients, Story(c), Answer(c)
  PROVE  Story(c)' /\ OnlyMoves(c)
  <1>1. call[c] \in Calls /\ at'[c] = "relaying" /\ at[c] = "sending"
    BY DEF TypeOK, Go, Answer
  <1>2. call'[c] = [call[c] EXCEPT !.told = "answered"]
    BY <1>1 DEF TypeOK, Calls, Answer
  <1>3. QED
    BY <1>1, <1>2 DEF Answer, Story, RowWhileOpen, IsHTTP, OnlyMoves, Go, TypeOK, Calls, Refusals

LEMMA RelayedStory ==
  ASSUME TypeOK, NEW c \in Clients, Story(c), Relayed(c)
  PROVE  Story(c)' /\ OnlyMoves(c)
  <1>1. call[c] \in Calls /\ at'[c] = "charging" /\ at[c] = "relaying"
    BY DEF TypeOK, Go, Relayed
  <1>2. PICK b \in Allowed(call[c].capture) : call' = [call EXCEPT ![c].capture = b]
    BY DEF Relayed
  <1>3. call'[c] = [call[c] EXCEPT !.capture = b] /\ (b => call[c].capture)
    BY <1>1, <1>2 DEF TypeOK, Calls, Allowed
  <1>4. b => UserOf[c] \in Capturing /\ IsHTTP(c)
    BY <1>3 DEF Story
  <1>5. QED
    BY <1>1, <1>2, <1>3, <1>4
       DEF Relayed, Story, RowWhileOpen, IsHTTP, OnlyMoves, Go, TypeOK, Calls

LEMMA RecordStory ==
  ASSUME TypeOK, NEW c \in Clients, Story(c), Record(c)
  PROVE  Story(c)' /\ OnlyMoves(c)
  <1>1. call[c] \in Calls /\ at'[c] = "settling" /\ at[c] = "recording"
    BY DEF TypeOK, Go, Record
  <1>2. PICK t \in {"pair", call[c].trace} :
          /\ call' = [call EXCEPT ![c].row = "answered", ![c].trace = t]
          /\ t # call[c].trace => call[c].capture
    BY <1>1 DEF Record
  <1>3. call'[c] = [call[c] EXCEPT !.row = "answered", !.trace = t]
    BY <1>1, <1>2 DEF TypeOK, Calls
  <1>4. t # "none" => UserOf[c] \in Capturing /\ IsHTTP(c)
    BY <1>2 DEF Story
  <1>5. call[c].told = "answered" /\ (call[c].capture => UserOf[c] \in Capturing /\ IsHTTP(c))
    BY <1>1 DEF Story
  <1>6. QED
    BY <1>1, <1>2, <1>3, <1>4, <1>5
       DEF Record, Story, Ended, IsHTTP, OnlyMoves, Go, TypeOK, Calls, Outcomes, Refusals

LEMMA StoriesAlways == Spec => []StoriesHold
  <1>1. Init => StoriesHold
    BY DEF Init, StoriesHold, Story, Ended, NoCall
  <1>2. TypeOK /\ StoriesHold /\ [Next]_vars => StoriesHold'
    <2> SUFFICES ASSUME TypeOK, StoriesHold, [Next]_vars
                 PROVE  StoriesHold'
      OBVIOUS
    <2>1. ASSUME NEW c \in Clients, Resolve(c) \/ CheckBudget(c) \/ FailOpen(c)
          PROVE  StoriesHold'
      <3>1. Story(c)
        BY DEF StoriesHold
      <3>2. CASE \E o \in Refusals : TurnAway(c, o) /\ Go(c, "idle")
        BY <2>1, <3>1, <3>2, TurnedAwayStory, OthersKeepTheirStory
           DEF Resolve, CheckBudget, FailOpen
      <3>3. CASE /\ UNCHANGED call
                 /\ \/ at[c] = "routing" /\ Go(c, "budget")
                    \/ at[c] = "budget" /\ Go(c, "rate")
        BY <3>1, <3>3, MovedStory, OthersKeepTheirStory DEF Places
      <3>4. CASE Resolve(c)
        <4>1. CASE Go(c, "budget") /\ UNCHANGED call
          BY <3>3, <3>4, <4>1 DEF Resolve
        <4>2. ASSUME NEW o \in {"out_of_scope", "no_upstream", "unmatched"},
                     TurnAway(c, o), Go(c, "idle")
              PROVE  StoriesHold'
          <5>1. o \in Refusals
            BY DEF Refusals
          <5>2. QED
            BY <3>2, <4>2, <5>1
        <4>3. QED
          BY <3>4, <4>1, <4>2 DEF Resolve
      <3>5. CASE CheckBudget(c) \/ FailOpen(c)
        <4>1. "over_budget" \in Refusals
          BY DEF Refusals
        <4>2. QED
          BY <3>2, <3>3, <3>5, <4>1 DEF CheckBudget, FailOpen
      <3>6. QED
        BY <2>1, <3>4, <3>5
    <2>2. ASSUME NEW c \in Clients, CheckRate(c)
          PROVE  StoriesHold'
      <3>1. Story(c) /\ at[c] = "rate"
        BY <2>2 DEF StoriesHold, CheckRate
      <3>2. CASE TurnAway(c, "rate_limited") /\ Go(c, "idle")
        BY <3>1, <3>2, TurnedAwayStory, OthersKeepTheirStory DEF Refusals
      <3>3. CASE CaptureRequest(c) /\ Go(c, "gate")
        BY <3>1, <3>3, AdmittedStory, OthersKeepTheirStory
      <3>4. QED
        BY <2>2, <3>2, <3>3 DEF CheckRate
    <2>3. ASSUME NEW c \in Clients, Acquire(c) \/ Charge(c) \/ Release(c)
          PROVE  StoriesHold'
      <3>1. Story(c)
        BY DEF StoriesHold
      <3>2. QED
        BY <2>3, <3>1, MovedStory, OthersKeepTheirStory DEF Acquire, Charge, Release, Places
    <2>4. ASSUME NEW c \in Clients,
                 BadOrigin(c) \/ GiveUp(c) \/ SendFails(c) \/ HandshakeRefused(c) \/ HijackFails(c)
          PROVE  StoriesHold'
      <3>1. Story(c)
        BY DEF StoriesHold
      <3>2. CASE IsHTTP(c)
        BY <2>4, <3>1, <3>2, DeniedStory, OthersKeepTheirStory
           DEF BadOrigin, GiveUp, SendFails, HandshakeRefused, HijackFails
      <3>3. CASE ~IsHTTP(c)
        <4>1. CASE BadOrigin(c) \/ GiveUp(c)
          BY <3>1, <3>3, <4>1, SocketStory, OthersKeepTheirStory DEF BadOrigin, GiveUp
        <4>2. CASE SendFails(c) \/ HandshakeRefused(c)
          BY <3>1, <3>3, <4>2, SocketStory, OthersKeepTheirStory DEF SendFails, HandshakeRefused
        <4>3. CASE HijackFails(c)
          BY <3>1, <3>3, <4>3, SocketStory, OthersKeepTheirStory DEF HijackFails
        <4>4. QED
          BY <2>4, <3>3, <4>1, <4>2, <4>3
      <3>4. QED
        BY <3>2, <3>3
    <2>5. ASSUME NEW c \in Clients, NEW k \in {"http", "websocket"}, Arrive(c, k)
          PROVE  StoriesHold'
      BY <2>5, ArriveStory, OthersKeepTheirStory
    <2>6. ASSUME NEW c \in Clients, Answer(c) \/ Relayed(c) \/ Record(c)
          PROVE  StoriesHold'
      <3>1. Story(c)
        BY DEF StoriesHold
      <3>2. QED
        BY <2>6, <3>1, AnswerStory, RelayedStory, RecordStory, OthersKeepTheirStory
    <2>7. CASE Tick \/ UNCHANGED vars
      BY <2>7 DEF Tick, vars, StoriesHold, Story, Ended, RowWhileOpen, IsHTTP
    <2>8. QED
      BY <2>1, <2>2, <2>3, <2>4, <2>5, <2>6, <2>7 DEF Next, Proceed
  <1>3. QED
    BY <1>1, <1>2, RequestsTypeCorrect, PTL DEF Spec

(* On every path through ServeHTTP and handleWebSocket, the row a call     *)
(* leaves is what its client was told, and no row of an HTTP call stays    *)
(* pending once the call is over.                                          *)
THEOREM EveryRowTellsTheAnswer == Spec => []RowsTellTheAnswer
  <1>1. StoriesHold => RowsTellTheAnswer
    BY DEF StoriesHold, Story, Ended, RowWhileOpen, RowsTellTheAnswer
  <1>2. QED
    BY <1>1, StoriesAlways, PTL

(* Nothing is stored of a user who does not capture, and an answer is      *)
(* stored only when a client got it.                                       *)
THEOREM EveryTraceMatches == Spec => []TracesMatchOutcomes
  <1>1. StoriesHold => TracesMatchOutcomes
    BY DEF StoriesHold, Story, TracesMatchOutcomes
  <1>2. QED
    BY <1>1, StoriesAlways, PTL
-----------------------------------------------------------------------------

(* The balance of a user is ahead of the rows by what the calls between    *)
(* spend.Add and Submit cost.                                              *)
Recording(u) == {c \in ClientsOf(u) : at[c] = "recording"}

BalanceAhead == \A u \in Users : spent[u] = billed[u] + SumOver(cost, Recording(u))

LEMMA AheadIsMatched == BalanceAhead <=> SpendMatchesRows
  BY DEF BalanceAhead, SpendMatchesRows, SumOver, FoldFunctionOnSet, MapThenSumSet, Recording

LEMMA RecordingFinite ==
  ASSUME NEW u
  PROVE  /\ Recording(u) \subseteq Clients /\ IsFiniteSet(Recording(u))
         /\ Recording(u)' \subseteq Clients /\ IsFiniteSet(Recording(u)')
  <1>1. Recording(u) \subseteq Clients /\ Recording(u)' \subseteq Clients
    BY DEF Recording, ClientsOf
  <1>2. QED
    BY <1>1, ClientsFinite, FS_Subset

(* A step of a call that is not being recorded, to a place where it is not *)
(* either, moves no money.                                                 *)
LEMMA AheadStands ==
  ASSUME TypeOK, BalanceAhead, UNCHANGED <<spent, billed>>,
         \A u \in Users : Recording(u)' = Recording(u),
         \A c \in Clients : at[c] = "recording" => cost'[c] = cost[c]
  PROVE  BalanceAhead'
  <1> SUFFICES ASSUME NEW u \in Users
               PROVE  spent[u] = billed[u] + SumOver(cost', Recording(u))
    BY DEF BalanceAhead
  <1>1. \A c \in Recording(u) : cost'[c] = cost[c]
    BY RecordingFinite DEF Recording
  <1>2. SumOver(cost', Recording(u)) = SumOver(cost, Recording(u))
    BY <1>1, RecordingFinite, SumOverSame
  <1>3. QED
    BY <1>2 DEF BalanceAhead

LEMMA AheadAtMove ==
  ASSUME TypeOK, BalanceAhead, NEW c \in Clients, NEW p \in Places, Go(c, p),
         at[c] # "recording", p # "recording",
         UNCHANGED <<spent, billed>>,
         \A d \in Clients \ {c} : cost'[d] = cost[d]
  PROVE  BalanceAhead'
  <1>1. \A u \in Users : Recording(u)' = Recording(u)
    BY DEF Recording, ClientsOf, Go, TypeOK
  <1>2. QED
    BY <1>1, AheadStands

LEMMA AheadAtCharge ==
  ASSUME TypeOK, BalanceAhead, NEW c \in Clients, Charge(c)
  PROVE  BalanceAhead'
  <1> SUFFICES ASSUME NEW u \in Users
               PROVE  spent'[u] = billed[u] + SumOver(cost, Recording(u)')
    BY DEF BalanceAhead, Charge
  <1>1. CASE u = UserOf[c]
    <2>1. c \notin Recording(u) /\ Recording(u)' = Recording(u) \cup {c}
      BY <1>1 DEF Recording, ClientsOf, Charge, Go, TypeOK
    <2>2. \A d \in Recording(u) \cup {c} : cost[d] \in Nat
      BY RecordingFinite, CostPositive DEF TypeOK
    <2>3. SumOver(cost, Recording(u)') = cost[c] + SumOver(cost, Recording(u))
      BY <2>1, <2>2, RecordingFinite, SumOverAdd
    <2>4. SumOver(cost, Recording(u)) \in Nat
      BY <2>2, RecordingFinite, SumOverType
    <2>5. spent'[u] = spent[u] + cost[c] /\ cost[c] \in Nat /\ billed[u] \in Nat
      BY <1>1, CostPositive, UserOfType DEF Charge, TypeOK
    <2>6. spent[u] = billed[u] + SumOver(cost, Recording(u))
      BY DEF BalanceAhead
    <2>7. QED
      BY <2>3, <2>4, <2>5, <2>6
  <1>2. CASE u # UserOf[c]
    <2>1. Recording(u)' = Recording(u) /\ spent'[u] = spent[u]
      BY <1>2 DEF Recording, ClientsOf, Charge, Go, TypeOK
    <2>2. QED
      BY <2>1 DEF BalanceAhead
  <1>3. QED
    BY <1>1, <1>2

LEMMA AheadAtRecord ==
  ASSUME TypeOK, BalanceAhead, NEW c \in Clients, Record(c)
  PROVE  BalanceAhead'
  <1> SUFFICES ASSUME NEW u \in Users
               PROVE  spent[u] = billed'[u] + SumOver(cost', Recording(u)')
    BY DEF BalanceAhead, Record
  <1>1. Recording(u)' = Recording(u) \ {c}
    BY DEF Recording, ClientsOf, Record, Go, TypeOK
  <1>2. \A d \in Recording(u) : cost[d] \in Nat
    BY RecordingFinite, CostPositive DEF TypeOK
  <1>3. SumOver(cost', Recording(u)') = SumOver(cost, Recording(u)')
    <2>1. \A d \in Recording(u)' : cost'[d] = cost[d]
      BY <1>1, RecordingFinite DEF Record, TypeOK
    <2>2. QED
      BY <2>1, RecordingFinite, SumOverSame
  <1>4. CASE u = UserOf[c]
    <2>1. c \in Recording(u)
      BY <1>4 DEF Recording, ClientsOf, Record
    <2>2. SumOver(cost, Recording(u)) = cost[c] + SumOver(cost, Recording(u)')
      BY <1>1, <1>2, <2>1, RecordingFinite, SumOverRemove
    <2>3. SumOver(cost, Recording(u)') \in Nat
      <3>1. \A d \in Recording(u)' : cost[d] \in Nat
        BY <1>1, <1>2
      <3>2. QED
        BY <3>1, RecordingFinite, SumOverType
    <2>4. billed'[u] = billed[u] + cost[c] /\ cost[c] \in Nat /\ billed[u] \in Nat
      BY <1>4, CostPositive, UserOfType DEF Record, TypeOK
    <2>5. spent[u] = billed[u] + SumOver(cost, Recording(u))
      BY DEF BalanceAhead
    <2>6. QED
      BY <1>3, <2>2, <2>3, <2>4, <2>5
  <1>5. CASE u # UserOf[c]
    <2>1. Recording(u)' = Recording(u) /\ billed'[u] = billed[u]
      BY <1>1, <1>5 DEF Recording, ClientsOf, Record, TypeOK
    <2>2. QED
      BY <1>3, <2>1 DEF BalanceAhead
  <1>6. QED
    BY <1>4, <1>5

(* Whatever calls of one user do between each other's spend.Add and        *)
(* Submit, the balance and the rows differ by those calls and no more.     *)
THEOREM SpendAlwaysMatchesRows == Spec => []SpendMatchesRows
  <1>1. Init => BalanceAhead
    <2> SUFFICES ASSUME Init, NEW u \in Users
                 PROVE  spent[u] = billed[u] + SumOver(cost, Recording(u))
      BY DEF BalanceAhead
    <2>1. Recording(u) = {}
      BY DEF Init, Recording, ClientsOf
    <2>2. QED
      BY <2>1, SumOverEmpty DEF Init
  <1>2. TypeOK /\ BalanceAhead /\ [Next]_vars => BalanceAhead'
    <2> SUFFICES ASSUME TypeOK, BalanceAhead, [Next]_vars
                 PROVE  BalanceAhead'
      OBVIOUS
    <2> USE DEF money, rate
    <2>1. ASSUME NEW c \in Clients, NEW k \in {"http", "websocket"}, Arrive(c, k)
          PROVE  BalanceAhead'
      BY <2>1, AheadAtMove DEF Arrive, Places
    <2>2. ASSUME NEW c \in Clients,
                 Resolve(c) \/ CheckBudget(c) \/ FailOpen(c) \/ CheckRate(c)
          PROVE  BalanceAhead'
      BY <2>2, AheadAtMove DEF Resolve, CheckBudget, FailOpen, CheckRate, Places
    <2>3. ASSUME NEW c \in Clients,
                 BadOrigin(c) \/ Acquire(c) \/ GiveUp(c) \/ SendFails(c) \/ HandshakeRefused(c)
          PROVE  BalanceAhead'
      BY <2>3, AheadAtMove DEF BadOrigin, Acquire, GiveUp, SendFails, HandshakeRefused, Places
    <2>4. ASSUME NEW c \in Clients, Answer(c) \/ HijackFails(c) \/ Release(c)
          PROVE  BalanceAhead'
      BY <2>4, AheadAtMove DEF Answer, HijackFails, Release, Places
    <2>5. ASSUME NEW c \in Clients, Relayed(c)
          PROVE  BalanceAhead'
      <3>1. \A d \in Clients \ {c} : cost'[d] = cost[d]
        BY <2>5 DEF Relayed, TypeOK
      <3>2. QED
        BY <2>5, <3>1, AheadAtMove DEF Relayed, Places
    <2>6. ASSUME NEW c \in Clients, Charge(c) \/ Record(c)
          PROVE  BalanceAhead'
      BY <2>6, AheadAtCharge, AheadAtRecord
    <2>7. CASE Tick \/ UNCHANGED vars
      <3>1. UNCHANGED <<at, cost, spent, billed>>
        BY <2>7 DEF Tick, vars
      <3>2. \A u \in Users : Recording(u)' = Recording(u)
        BY <3>1 DEF Recording, ClientsOf
      <3>3. QED
        BY <3>1, <3>2, AheadStands
    <2>8. QED
      BY <2>1, <2>2, <2>3, <2>4, <2>5, <2>6, <2>7 DEF Next, Proceed
  <1>3. QED
    BY <1>1, <1>2, AheadIsMatched, RequestsTypeCorrect, PTL DEF Spec
-----------------------------------------------------------------------------

(* What the limiter's window, opened s ticks ago with n calls counted,     *)
(* says of the calls w that passed, by age.                                *)
WindowAccounts(s, n, w) ==
    /\ s < Window =>
          /\ n \in 1..RPM
          /\ w[s] >= 1
          /\ SumOver(w, 0..s) <= n
          /\ SumOver(w, 0..(Window - 1)) <= SumOver(w, 0..s) + (RPM - 1)
    /\ s = Window =>
          /\ w[0] = 0
          /\ SumOver(w, 0..(Window - 1)) <= RPM - 1

Ages == 0..(Window - 1)

(* One more call of age 0 is one more in every sum from age 0 on. *)
LEMMA OneMorePassed ==
  ASSUME NEW w \in [Ages -> Nat], NEW n \in Ages
  PROVE  /\ SumOver([w EXCEPT ![0] = @ + 1], 0..n) = SumOver(w, 0..n) + 1
         /\ SumOver(w, 0..n) \in Nat
  <1>1. n \in Nat /\ 0 \in 0..n /\ 0..n \subseteq Ages /\ 0 \in Ages
    BY RateNat DEF Ages
  <1>2. PICK v : v = [w EXCEPT ![0] = @ + 1]
    OBVIOUS
  <1>3. PICK S : S = 0..n
    OBVIOUS
  <1>4. v \in [Ages -> Nat] /\ v[0] = w[0] + 1 /\ \A i \in S \ {0} : v[i] = w[i]
    BY <1>1, <1>2, <1>3
  <1>9. IsFiniteSet(S)
    BY <1>1, <1>3, FS_Interval
  <1>10. 0 \in S /\ \A i \in S : w[i] \in Nat /\ v[i] \in Nat
    BY <1>1, <1>3, <1>4
  <1>5. SumOver(v, S) + w[0] = SumOver(w, S) + v[0]
    BY <1>4, <1>9, <1>10, SumOverChange
  <1>6. SumOver(v, S) \in Nat /\ SumOver(w, S) \in Nat /\ w[0] \in Nat
    BY <1>9, <1>10, SumOverType
  <1>7. SumOver(v, S) = SumOver(w, S) + 1
    BY <1>4, <1>5, <1>6
  <1>8. QED
    BY <1>2, <1>3, <1>6, <1>7

(* allow, past the window's end: the new one is opened by this call, and   *)
(* what the old one let pass is all older than it.                         *)
LEMMA WindowOpens ==
  ASSUME NEW w \in [Ages -> Nat], NEW n, WindowAccounts(Window, n, w)
  PROVE  WindowAccounts(0, 1, [w EXCEPT ![0] = @ + 1])
  <1>1. 0 \in Ages /\ Window - 1 \in Ages /\ RPM \in Nat \ {0} /\ Window \in Nat \ {0}
    BY RateNat DEF Ages
  <1>2. PICK v : v = [w EXCEPT ![0] = @ + 1]
    OBVIOUS
  <1>3. w[0] = 0 /\ SumOver(w, 0..(Window - 1)) <= RPM - 1
    BY DEF WindowAccounts
  <1>4. v[0] = 1
    BY <1>1, <1>2, <1>3
  <1>5. SumOver(w, 0..0) = 0
    <2>1. 0 \in Nat /\ \A i \in 0..0 : w[i] \in Nat
      BY <1>1
    <2>2. SumOver(w, 0..0) = w[0] + SumOver(w, 0..(0 - 1))
      BY <2>1, SumUpTo
    <2>3. 0..(0 - 1) = {}
      OBVIOUS
    <2>4. QED
      BY <2>2, <2>3, <1>3, SumOverEmpty
  <1>6. SumOver(v, 0..0) = SumOver(w, 0..0) + 1
    BY <1>1, <1>2, OneMorePassed
  <1>7. /\ SumOver(v, 0..(Window - 1)) = SumOver(w, 0..(Window - 1)) + 1
        /\ SumOver(w, 0..(Window - 1)) \in Nat
    BY <1>1, <1>2, OneMorePassed
  <1>8. WindowAccounts(0, 1, v)
    BY <1>1, <1>3, <1>4, <1>5, <1>6, <1>7 DEF WindowAccounts
  <1>9. QED
    BY <1>2, <1>8

(* allow, inside the window. *)
LEMMA WindowAdmits ==
  ASSUME NEW w \in [Ages -> Nat], NEW s \in Ages, NEW n \in Nat, n < RPM,
         WindowAccounts(s, n, w)
  PROVE  WindowAccounts(s, n + 1, [w EXCEPT ![0] = @ + 1])
  <1>1. 0 \in Ages /\ Window - 1 \in Ages /\ RPM \in Nat \ {0} /\ Window \in Nat \ {0}
        /\ s \in Nat /\ s < Window
    BY RateNat DEF Ages
  <1>2. PICK v : v = [w EXCEPT ![0] = @ + 1]
    OBVIOUS
  <1>3. /\ n \in 1..RPM /\ w[s] >= 1 /\ SumOver(w, 0..s) <= n
        /\ SumOver(w, 0..(Window - 1)) <= SumOver(w, 0..s) + (RPM - 1)
    BY <1>1 DEF WindowAccounts
  <1>4. v[s] >= 1
    <2>1. v[s] \in {w[s], w[s] + 1} /\ w[s] \in Nat
      BY <1>1, <1>2
    <2>2. QED
      BY <2>1, <1>3
  <1>5. SumOver(v, 0..s) = SumOver(w, 0..s) + 1 /\ SumOver(w, 0..s) \in Nat
    BY <1>2, OneMorePassed
  <1>6. /\ SumOver(v, 0..(Window - 1)) = SumOver(w, 0..(Window - 1)) + 1
        /\ SumOver(w, 0..(Window - 1)) \in Nat
    BY <1>1, <1>2, OneMorePassed
  <1>7. WindowAccounts(s, n + 1, v)
    BY <1>1, <1>3, <1>4, <1>5, <1>6 DEF WindowAccounts
  <1>8. QED
    BY <1>2, <1>7

(* A tick: every call that passed is one tick older. *)
Aged(w) == [age \in 0..(Window - 1) |-> IF age = 0 THEN 0 ELSE w[age - 1]]

LEMMA AgedSums ==
  ASSUME NEW w \in [Ages -> Nat], NEW n \in Ages
  PROVE  /\ SumOver(Aged(w), 0..n) = SumOver(w, 0..(n - 1))
         /\ SumOver(w, 0..n) = w[n] + SumOver(w, 0..(n - 1))
         /\ w[n] \in Nat /\ SumOver(w, 0..(n - 1)) \in Nat
  <1>1. n \in Nat /\ Window \in Nat /\ n <= Window - 1
    BY RateNat DEF Ages
  <1>2. Aged(w)[0] = 0 /\ \A i \in 1..n : Aged(w)[i] = w[i - 1]
    BY <1>1 DEF Aged
  <1>3. \A i \in 0..n : w[i] \in Nat
    BY <1>1 DEF Ages
  <1>4. \A i \in 0..(n - 1) : w[i] \in Nat
    BY <1>1, <1>3
  <1>5. SumOver(Aged(w), 0..n) = SumOver(w, 0..(n - 1))
    BY <1>1, <1>2, <1>4, SumShifted
  <1>6. SumOver(w, 0..n) = w[n] + SumOver(w, 0..(n - 1)) /\ SumOver(w, 0..(n - 1)) \in Nat
    BY <1>1, <1>3, SumUpTo
  <1>7. QED
    BY <1>1, <1>3, <1>5, <1>6

(* The call that opened a window is as old as the window: when the window  *)
(* has run out, that call is too old to count.                             *)
LEMMA WindowAges ==
  ASSUME NEW w \in [Ages -> Nat], NEW s \in 0..Window, NEW n,
         WindowAccounts(s, n, w)
  PROVE  WindowAccounts(IF s < Window THEN s + 1 ELSE Window, n, Aged(w))
  <1>1. Window \in Nat /\ Window - 1 \in Ages /\ 0 \in Ages /\ RPM \in Nat \ {0} /\ s \in Nat
    BY RateNat DEF Ages
  <1>2. Aged(w)[0] = 0
    BY <1>1 DEF Aged, Ages
  <1>3. /\ SumOver(Aged(w), 0..(Window - 1)) = SumOver(w, 0..((Window - 1) - 1))
        /\ SumOver(w, 0..(Window - 1)) = w[Window - 1] + SumOver(w, 0..((Window - 1) - 1))
        /\ w[Window - 1] \in Nat /\ SumOver(w, 0..((Window - 1) - 1)) \in Nat
    BY <1>1, AgedSums
  <1>4. CASE s = Window
    BY <1>1, <1>2, <1>3, <1>4 DEF WindowAccounts
  <1>5. CASE s = Window - 1
    <2>1. w[Window - 1] >= 1 /\ n \in 1..RPM /\ SumOver(w, 0..(Window - 1)) <= n
      BY <1>1, <1>5 DEF WindowAccounts
    <2>2. QED
      BY <1>1, <1>2, <1>3, <1>5, <2>1 DEF WindowAccounts
  <1>6. CASE s < Window - 1
    <2>1. /\ n \in 1..RPM /\ w[s] >= 1 /\ SumOver(w, 0..s) <= n
          /\ SumOver(w, 0..(Window - 1)) <= SumOver(w, 0..s) + (RPM - 1)
      BY <1>1, <1>6 DEF WindowAccounts
    <2>2. s + 1 \in Ages /\ (s + 1) - 1 = s
      BY <1>1, <1>6 DEF Ages
    <2>3. SumOver(Aged(w), 0..(s + 1)) = SumOver(w, 0..s)
      BY <2>2, AgedSums
    <2>4. Aged(w)[s + 1] = w[s]
      BY <1>1, <2>2 DEF Aged, Ages
    <2>5. SumOver(w, 0..s) \in Nat
      <3>1. s \in Nat /\ \A i \in 0..s : w[i] \in Nat
        BY <1>1, <1>6 DEF Ages
      <3>2. QED
        BY <3>1, SumUpTo
    <2>6. QED
      BY <1>1, <1>3, <1>6, <2>1, <2>3, <2>4, <2>5 DEF WindowAccounts
  <1>7. QED
    BY <1>1, <1>4, <1>5, <1>6

RateAccounts == \A u \in Users : WindowAccounts(since[u], count[u], recent[u])

LEMMA RateAtTick ==
  ASSUME TypeOK, RateAccounts, Tick
  PROVE  RateAccounts'
  <1> SUFFICES ASSUME NEW u \in Users
               PROVE  WindowAccounts(since'[u], count'[u], recent'[u])
    BY DEF RateAccounts, WindowAccounts
  <1>1. recent[u] \in [Ages -> Nat] /\ since[u] \in 0..Window
    BY DEF TypeOK, Ages
  <1>2. recent'[u] = Aged(recent[u])
    BY DEF Tick, Aged
  <1>3. since'[u] = (IF since[u] < Window THEN since[u] + 1 ELSE Window) /\ count'[u] = count[u]
    BY DEF Tick
  <1>4. WindowAccounts(since[u], count[u], recent[u])
    BY DEF RateAccounts
  <1>5. QED
    BY <1>1, <1>2, <1>3, <1>4, WindowAges

LEMMA RateAtAdmission ==
  ASSUME TypeOK, RateAccounts, NEW v \in Users, Admitted(v)
  PROVE  RateAccounts'
  <1> SUFFICES ASSUME NEW u \in Users
               PROVE  WindowAccounts(since'[u], count'[u], recent'[u])
    BY DEF RateAccounts, WindowAccounts
  <1>1. recent[u] \in [Ages -> Nat] /\ since[u] \in 0..Window /\ count[u] \in Nat
        /\ Window \in Nat \ {0}
    BY RateNat DEF TypeOK, Ages
  <1>2. WindowAccounts(since[u], count[u], recent[u])
    BY DEF RateAccounts
  <1>3. CASE u # v
    <2>1. since'[u] = since[u] /\ count'[u] = count[u] /\ recent'[u] = recent[u]
      BY <1>3 DEF Admitted, OpenWindow, TypeOK
    <2>2. QED
      BY <1>2, <2>1
  <1>4. CASE u = v
    <2>1. recent'[u] = [recent[u] EXCEPT ![0] = @ + 1]
      BY <1>4 DEF Admitted, TypeOK
    <2>2. CASE Expired(v) /\ OpenWindow(v)
      <3>1. since[u] = Window /\ since'[u] = 0 /\ count'[u] = 1
        BY <1>1, <1>4, <2>2 DEF Expired, OpenWindow, TypeOK
      <3>2. QED
        BY <1>1, <1>2, <2>1, <3>1, WindowOpens
    <2>3. CASE /\ ~Expired(v) /\ count[v] < RPM
               /\ count' = [count EXCEPT ![v] = @ + 1]
               /\ UNCHANGED since
      <3>1. since[u] \in Ages /\ since'[u] = since[u] /\ count[u] < RPM
        BY <1>1, <1>4, <2>3 DEF Expired, Ages
      <3>2. count'[u] = count[u] + 1
        BY <1>4, <2>3 DEF TypeOK
      <3>3. QED
        BY <1>1, <1>2, <2>1, <3>1, <3>2, WindowAdmits
    <2>4. QED
      BY <2>2, <2>3 DEF Admitted
  <1>5. QED
    BY <1>3, <1>4

(* Fixed windows let pass at most 2 * RPM - 1 calls of a user in any span  *)
(* as long as one window (rateLimiter.allow), for any RPM and window.      *)
THEOREM RateIsHeld == Spec => []RateHeld
  <1>1. Init => RateAccounts
    <2> SUFFICES ASSUME Init, NEW u \in Users
                 PROVE  WindowAccounts(since[u], count[u], recent[u])
      BY DEF RateAccounts
    <2>1. since[u] = Window /\ recent[u] = [age \in Ages |-> 0] /\ 0 \in Ages
          /\ RPM \in Nat \ {0} /\ Window \in Nat \ {0}
      BY RateNat DEF Init, Ages
    <2>2. SumOver(recent[u], 0..(Window - 1)) = 0
      <3>1. PICK S : S = 0..(Window - 1)
        OBVIOUS
      <3>2. IsFiniteSet(S) /\ \A x \in S : recent[u][x] = 0
        BY <2>1, <3>1, FS_Interval DEF Ages
      <3>3. QED
        BY <3>1, <3>2, SumOfZeros
    <2>3. QED
      BY <2>1, <2>2 DEF WindowAccounts
  <1>2. TypeOK /\ RateAccounts /\ [Next]_vars => RateAccounts'
    <2> SUFFICES ASSUME TypeOK, RateAccounts, [Next]_vars
                 PROVE  RateAccounts'
      OBVIOUS
    <2>1. CASE UNCHANGED rate
      BY <2>1 DEF rate, RateAccounts
    <2>2. ASSUME NEW c \in Clients, CheckRate(c)
          PROVE  RateAccounts'
      <3>1. CASE Admitted(UserOf[c])
        BY <3>1, UserOfType, RateAtAdmission
      <3>2. CASE UNCHANGED rate
        BY <2>1, <3>2
      <3>3. QED
        BY <2>2, <3>1, <3>2 DEF CheckRate
    <2>3. CASE Tick
      BY <2>3, RateAtTick
    <2>4. ASSUME NEW c \in Clients, NEW k \in {"http", "websocket"}, Arrive(c, k)
          PROVE  RateAccounts'
      BY <2>1, <2>4 DEF Arrive, rate
    <2>5. ASSUME NEW c \in Clients,
                 \/ Resolve(c) \/ CheckBudget(c) \/ FailOpen(c) \/ BadOrigin(c) \/ Acquire(c)
                 \/ GiveUp(c) \/ SendFails(c)
          PROVE  RateAccounts'
      BY <2>1, <2>5 DEF Resolve, CheckBudget, FailOpen, BadOrigin, Acquire, GiveUp, SendFails, rate
    <2>6. ASSUME NEW c \in Clients,
                 \/ HandshakeRefused(c) \/ Answer(c) \/ HijackFails(c) \/ Relayed(c)
                 \/ Charge(c) \/ Record(c) \/ Release(c)
          PROVE  RateAccounts'
      BY <2>1, <2>6 DEF HandshakeRefused, Answer, HijackFails, Relayed, Charge, Record, Release, rate
    <2>7. CASE UNCHANGED vars
      BY <2>1, <2>7 DEF vars
    <2>8. QED
      BY <2>1, <2>2, <2>3, <2>4, <2>5, <2>6, <2>7 DEF Next, Proceed
  <1>3. TypeOK /\ RateAccounts => RateHeld
    <2> SUFFICES ASSUME TypeOK, RateAccounts, NEW u \in Users
                 PROVE  SumOver(recent[u], 0..(Window - 1)) <= 2 * RPM - 1
      BY DEF RateHeld, SumOver, FoldFunctionOnSet, MapThenSumSet
    <2>1. WindowAccounts(since[u], count[u], recent[u])
      BY DEF RateAccounts
    <2>2. /\ since[u] \in 0..Window /\ RPM \in Nat \ {0} /\ Window \in Nat \ {0}
          /\ recent[u] \in [Ages -> Nat] /\ count[u] \in Nat
      BY RateNat DEF TypeOK, Ages
    <2>3. SumOver(recent[u], 0..(Window - 1)) \in Nat
      <3>1. Window - 1 \in Nat /\ \A i \in 0..(Window - 1) : recent[u][i] \in Nat
        BY <2>2 DEF Ages
      <3>2. QED
        BY <3>1, SumUpTo
    <2>4. CASE since[u] = Window
      BY <2>1, <2>2, <2>3, <2>4 DEF WindowAccounts
    <2>5. CASE since[u] < Window
      <3>1. since[u] \in Nat /\ \A i \in 0..since[u] : recent[u][i] \in Nat
        BY <2>2, <2>5 DEF Ages
      <3>2. SumOver(recent[u], 0..since[u]) \in Nat
        BY <3>1, SumUpTo
      <3>3. /\ count[u] <= RPM
            /\ SumOver(recent[u], 0..since[u]) <= count[u]
            /\ SumOver(recent[u], 0..(Window - 1))
                  <= SumOver(recent[u], 0..since[u]) + (RPM - 1)
        BY <2>1, <2>2, <2>5 DEF WindowAccounts
      <3>4. PICK all, latest : /\ all = SumOver(recent[u], 0..(Window - 1))
                               /\ latest = SumOver(recent[u], 0..since[u])
        OBVIOUS
      <3>5. all <= 2 * RPM - 1
        BY <2>2, <2>3, <3>2, <3>3, <3>4
      <3>6. QED
        BY <3>4, <3>5
    <2>6. QED
      BY <2>2, <2>4, <2>5
  <1>4. QED
    BY <1>1, <1>2, <1>3, RequestsTypeCorrect, PTL DEF Spec
=============================================================================
