-------------------------- MODULE OperationsProofs --------------------------
(***************************************************************************)
(* What holds of the parts that run around the requests, for every value   *)
(* of their constants.  The parts share no variable and each has its own   *)
(* specification:                                                          *)
(*                                                                         *)
(*   Users          a key that is taken back stays dead                    *)
(*   Pressure       load is shed at once and restored after a cooldown     *)
(*   Housekeeping   the store outlives every goroutine                     *)
(*   ParsePipeline  the queue is charged for what it holds                 *)
(*   Sessions       the row adds up, whatever the order                    *)
(*   Config         what is live is what the tables say                    *)
(*   SocketMeter    a session's usage is the latest one, or unknown        *)
(*   MessagesPanel  a captured body is shown, or said to be left out       *)
(***************************************************************************)
EXTENDS Config, Users, Pressure, Housekeeping, ParsePipeline, Sessions, SocketMeter, MessagesPanel,
        SumTheorems, FiniteSetTheorems, SequenceTheorems, TLAPS

-----------------------------------------------------------------------------
(* Users *)

UsersSpec == UsersInit /\ [][UsersNext]_usersVars

Fields == {"name", "key", "budget", "created", "revoked"}

IsTable(table) == table = [id \in DOMAIN table |-> table[id]]

IsRow(r) ==
    /\ r = [f \in Fields |-> r[f]]
    /\ r.revoked \in BOOLEAN

(* Rows: one per minted id that was not deleted, and always the admin's. *)
RowsOK ==
    /\ minted \in 0..MaxUsers
    /\ IsTable(users)
    /\ AdminUserID \in DOMAIN users
    /\ DOMAIN users \subseteq 1..minted \cup {AdminUserID}
    /\ \A id \in DOMAIN users : IsRow(users[id])

(* A minted key belongs to the id it was minted with, the admin's to the
   environment. *)
KeysOK ==
    /\ \A id \in DOMAIN users \ {AdminUserID} : users[id].key = id
    /\ users[AdminUserID].key \in EnvKeys

Alive(id) == id \in DOMAIN users /\ ~users[id].revoked

(* Exactly the keys nobody can use are dead. *)
DeadOK ==
    /\ \A id \in 1..minted : id \in dead <=> ~Alive(id)
    /\ Alive(AdminUserID) => users[AdminUserID].key \notin dead
    /\ \A key \in dead : key \in 1..minted \cup EnvKeys

UsersInv == RowsOK /\ KeysOK /\ DeadOK

LEMMA InvImpliesFinal ==
    ASSUME UsersInv
    PROVE RevocationIsFinal
<1> USE KeysDisjoint DEF UsersInv, RowsOK, KeysOK, DeadOK, Alive
<1> SUFFICES ASSUME NEW key \in 1..minted \cup EnvKeys
             PROVE IF key \in dead THEN GetUserByKey(key) = {}
                   ELSE key \in 1..minted => \E id \in DOMAIN users : GetUserByKey(key) = {id}
    BY DEF RevocationIsFinal
<1>1. GetUserByKey(key) = {id \in DOMAIN users : ~users[id].revoked /\ users[id].key = key}
    BY DEF GetUserByKey, Active
<1>2. CASE key \in 1..minted /\ key \in dead
    <2>1. \A id \in DOMAIN users : ~users[id].revoked => users[id].key # key
        BY <1>2
    <2>2. QED
        BY <1>1, <1>2, <2>1
<1>3. CASE key \in 1..minted /\ key \notin dead
    <2>1. key \in DOMAIN users /\ ~users[key].revoked /\ users[key].key = key
        BY <1>3
    <2>2. \A id \in DOMAIN users : users[id].key = key => id = key
        BY <1>3
    <2>3. GetUserByKey(key) = {key}
        BY <1>1, <2>1, <2>2
    <2>4. QED
        BY <1>3, <2>1, <2>3
<1>4. CASE key \in EnvKeys
    <2>1. key \notin 1..minted
        BY <1>4
    <2>2. \A id \in DOMAIN users : users[id].key = key => id = AdminUserID
        BY <1>4
    <2>3. key \in dead => \A id \in DOMAIN users : ~(~users[id].revoked /\ users[id].key = key)
        BY <2>2
    <2>4. QED
        BY <1>1, <2>1, <2>3
<1>5. QED
    BY <1>2, <1>3, <1>4

(* What InsertUser, Amend and UpdateUser make of a table or a row. *)
LEMMA InsertedTable ==
    ASSUME NEW table, NEW id, NEW row
    PROVE /\ IsTable(InsertUser(table, id, row))
          /\ DOMAIN InsertUser(table, id, row) = DOMAIN table \cup {id}
BY DEF InsertUser, IsTable

LEMMA InsertedAt ==
    ASSUME NEW table, NEW id, NEW row
    PROVE InsertUser(table, id, row)[id] = row
BY DEF InsertUser

LEMMA InsertedElsewhere ==
    ASSUME NEW table, NEW id, NEW row, NEW i \in DOMAIN table \ {id}
    PROVE InsertUser(table, id, row)[i] = table[i]
BY DEF InsertUser

LEMMA AmendedRow ==
    ASSUME NEW row, IsRow(row), NEW upd,
           "revoked" \in DOMAIN upd /\ upd["revoked"] # Unset
           => upd["revoked"] \in BOOLEAN,
           NEW after, after = Amend(row, upd)
    PROVE IsRow(after)
BY DEF Amend, IsRow, Fields

LEMMA GivenField ==
    ASSUME NEW row, IsRow(row), NEW f \in Fields,
           NEW upd, f \in DOMAIN upd, upd[f] # Unset
    PROVE Amend(row, upd)[f] = upd[f]
BY DEF Amend, IsRow

LEMMA KeptField ==
    ASSUME NEW row, IsRow(row), NEW f \in Fields, NEW upd, f \notin DOMAIN upd
    PROVE Amend(row, upd)[f] = row[f]
BY DEF Amend, IsRow

LEMMA UpdatedRows ==
    ASSUME NEW table, NEW id, NEW upd, NEW after, after = UpdateUser(table, id, upd)
    PROVE /\ IsTable(after)
          /\ DOMAIN after = DOMAIN table
          /\ id \in DOMAIN table => after[id] = Amend(table[id], upd)
          /\ \A i \in DOMAIN table \ {id} : after[i] = table[i]
BY DEF UpdateUser, IsTable

LEMMA InitHolds == ASSUME UsersInit PROVE UsersInv
<1>1. PICK k \in EnvKeys : users = EnsureAdminUser(<<>>, k)
    BY KeysDisjoint DEF UsersInit
<1>2. PICK none : none = <<>> /\ DOMAIN none = {}
    OBVIOUS
<1>3. PICK admin : admin = [name |-> "admin", key |-> k, budget |-> Unset,
                            created |-> 0, revoked |-> FALSE]
    OBVIOUS
<1>4. IsRow(admin) /\ admin.key = k /\ admin.revoked = FALSE
    BY <1>3 DEF IsRow, Fields
<1>5. users = InsertUser(none, AdminUserID, admin)
    BY <1>1, <1>2, <1>3 DEF EnsureAdminUser
<1>6. /\ IsTable(users)
      /\ DOMAIN users = {AdminUserID}
      /\ users[AdminUserID] = admin
    <2>1. users[AdminUserID] = admin
        BY <1>5, InsertedAt
    <2>2. IsTable(users) /\ DOMAIN users = DOMAIN none \cup {AdminUserID}
        BY <1>5, InsertedTable
    <2>3. QED
        BY <1>2, <2>1, <2>2
<1>7. minted = 0 /\ dead = {}
    BY DEF UsersInit
<1>8. QED
    BY KeysDisjoint, <1>4, <1>6, <1>7 DEF UsersInv, RowsOK, KeysOK, DeadOK, Alive

(* A new user's id, key and place in dead are all fresh. *)
LEMMA CreateKeeps ==
    ASSUME UsersInv, NEW name, NEW budget, CreateUser(name, budget),
           UNCHANGED dead
    PROVE UsersInv'
<1> USE KeysDisjoint DEF UsersInv, RowsOK, KeysOK, DeadOK, Alive
<1>1. PICK id : id = minted + 1
    OBVIOUS
<1>2. PICK row : row = [name |-> name, key |-> id, budget |-> budget,
                        created |-> second, revoked |-> FALSE]
    OBVIOUS
<1>3. IsRow(row) /\ row.key = id /\ row.revoked = FALSE
    BY <1>2 DEF IsRow, Fields
<1>4. users' = InsertUser(users, id, row) /\ minted' = id
    BY <1>1, <1>2 DEF CreateUser
<1>5. id \notin DOMAIN users /\ id # AdminUserID /\ id \in 1..MaxUsers /\ id \notin dead
    BY <1>1 DEF CreateUser
<1>6. /\ IsTable(users')
      /\ DOMAIN users' = DOMAIN users \cup {id}
      /\ users'[id] = row
      /\ \A i \in DOMAIN users : users'[i] = users[i]
    <2>1. users'[id] = row
        BY <1>4, InsertedAt
    <2>2. IsTable(users') /\ DOMAIN users' = DOMAIN users \cup {id}
        BY <1>4, InsertedTable
    <2>3. \A i \in DOMAIN users \ {id} : users'[i] = users[i]
        BY <1>4, InsertedElsewhere
    <2>4. QED
        BY <1>5, <2>1, <2>2, <2>3
<1>7. 1..minted' = 1..minted \cup {id}
    BY <1>1, <1>4
<1>8. RowsOK'
    BY <1>3, <1>4, <1>5, <1>6, <1>7
<1>9. KeysOK'
    BY <1>3, <1>5, <1>6
<1>10. DeadOK'
    BY <1>3, <1>5, <1>6, <1>7
<1>11. QED
    BY <1>8, <1>9, <1>10

(* A patch of name or budget, by a handler or an adoption, of a row that may
   have gone or been revoked since it was looked up. *)
LEMMA PatchKeeps ==
    ASSUME UsersInv, NEW id, NEW upd,
           DOMAIN upd \subseteq {"name", "budget"},
           users' = UpdateUser(users, id, upd), UNCHANGED <<minted, dead>>
    PROVE UsersInv'
<1> USE KeysDisjoint DEF UsersInv, RowsOK, KeysOK, DeadOK, Alive
<1>1. /\ IsTable(users')
      /\ DOMAIN users' = DOMAIN users
      /\ id \in DOMAIN users => users'[id] = Amend(users[id], upd)
      /\ \A i \in DOMAIN users \ {id} : users'[i] = users[i]
    BY UpdatedRows
<1>2. \A i \in DOMAIN users : IsRow(users[i])
    OBVIOUS
<1>3. id \in DOMAIN users =>
         /\ IsRow(users'[id])
         /\ users'[id].key = users[id].key
         /\ users'[id].revoked = users[id].revoked
    <2>. "key" \in Fields \ {"name", "budget"} /\ "revoked" \in Fields \ {"name", "budget"}
        BY DEF Fields
    <2> SUFFICES ASSUME id \in DOMAIN users
                 PROVE /\ IsRow(users'[id])
                       /\ users'[id]["key"] = users[id]["key"]
                       /\ users'[id]["revoked"] = users[id]["revoked"]
        OBVIOUS
    <2>1. IsRow(users'[id])
        BY <1>1, <1>2, AmendedRow
    <2>2. users'[id]["key"] = users[id]["key"]
        BY <1>1, <1>2, KeptField
    <2>3. users'[id]["revoked"] = users[id]["revoked"]
        BY <1>1, <1>2, KeptField
    <2>4. QED
        BY <2>1, <2>2, <2>3
<1>4. \A i \in DOMAIN users :
         /\ IsRow(users'[i])
         /\ users'[i].key = users[i].key
         /\ users'[i].revoked = users[i].revoked
    BY <1>1, <1>2, <1>3
<1>5. QED
    BY <1>1, <1>4

LEMMA RevokeKeeps ==
    ASSUME UsersInv, NEW id \in DOMAIN users, RevokeUser(id)
    PROVE UsersInv'
<1> USE KeysDisjoint DEF UsersInv, RowsOK, KeysOK, DeadOK, Alive
<1>1. PICK upd : upd = [revoked |-> TRUE]
    OBVIOUS
<1>2. DOMAIN upd = {"revoked"} /\ upd["revoked"] = TRUE
    BY <1>1
<1>3. /\ users' = UpdateUser(users, id, upd) /\ minted' = minted
      /\ dead' = dead \cup {users[id].key}
    BY <1>1 DEF RevokeUser
<1>4. /\ IsTable(users')
      /\ DOMAIN users' = DOMAIN users
      /\ users'[id] = Amend(users[id], upd)
      /\ \A i \in DOMAIN users \ {id} : users'[i] = users[i]
    BY <1>3, UpdatedRows
<1>5. IsRow(users[id])
    OBVIOUS
<1>6. TRUE # Unset
    OBVIOUS
<1>7. /\ IsRow(users'[id])
      /\ users'[id].key = users[id].key
      /\ users'[id].revoked = TRUE
    <2>1. IsRow(users'[id])
        BY <1>2, <1>4, <1>5, AmendedRow
    <2> HIDE DEF UsersInv, RowsOK, KeysOK, DeadOK, Alive
    <2> "key" \in Fields /\ "revoked" \in Fields
        BY DEF Fields
    <2>2. users'[id]["key"] = users[id]["key"]
        BY <1>2, <1>4, <1>5, KeptField
    <2>3. "revoked" \in DOMAIN upd /\ upd["revoked"] # Unset
        BY <1>2, <1>6
    <2>4. users'[id]["revoked"] = upd["revoked"]
        BY <1>4, <1>5, <2>3, GivenField
    <2>5. QED
        BY <1>2, <2>1, <2>2, <2>4
<1>8. RowsOK' /\ KeysOK'
    BY <1>3, <1>4, <1>7
<1>9. DeadOK'
    BY <1>3, <1>4, <1>7
<1>10. QED
    BY <1>8, <1>9

LEMMA DeleteKeeps ==
    ASSUME UsersInv, NEW id \in DOMAIN users, DeleteUser(id)
    PROVE UsersInv'
<1> USE KeysDisjoint DEF UsersInv, RowsOK, KeysOK, DeadOK, Alive
<1>1. /\ id # AdminUserID /\ minted' = minted
      /\ users' = Restrict(users, DOMAIN users \ {id})
      /\ dead' = dead \cup {users[id].key}
    BY DEF DeleteUser
<1>2. /\ IsTable(users')
      /\ DOMAIN users' = DOMAIN users \ {id}
      /\ \A i \in DOMAIN users' : users'[i] = users[i]
    BY <1>1 DEF Restrict, IsTable
<1>3. RowsOK' /\ KeysOK'
    BY <1>1, <1>2
<1>4. DeadOK'
    <2>1. id \in 1..minted /\ dead' = dead \cup {id}
        BY <1>1
    <2>2. \A i \in 1..minted : Alive(i)' <=> i # id /\ Alive(i)
        BY <1>2
    <2>3. \A i \in 1..minted : i \in dead' <=> ~Alive(i)'
        BY <2>1, <2>2
    <2>4. users[AdminUserID].key \notin 1..minted /\ users'[AdminUserID] = users[AdminUserID]
        BY <1>1, <1>2
    <2>5. Alive(AdminUserID)' => users'[AdminUserID].key \notin dead'
        BY <1>1, <1>2, <2>1, <2>4
    <2>6. QED
        BY <1>1, <2>1, <2>3, <2>5
<1>5. QED
    BY <1>3, <1>4

(* A restart touches the admin's row alone. *)
LEMMA RebootKeeps ==
    ASSUME UsersInv, NEW key \in EnvKeys, Reboot(key)
    PROVE UsersInv'
<1> USE KeysDisjoint DEF UsersInv, RowsOK, KeysOK, DeadOK, Alive
<1>1. PICK upd : upd = [name |-> "admin", key |-> key, revoked |-> FALSE]
    OBVIOUS
<1>2. /\ DOMAIN upd = {"name", "key", "revoked"}
      /\ upd["key"] = key /\ upd["revoked"] = FALSE
    BY <1>1
<1>3. /\ users' = UpdateUser(users, AdminUserID, upd) /\ minted' = minted
      /\ dead' = (dead \cup {users[AdminUserID].key}) \ {key}
    BY <1>1 DEF Reboot, EnsureAdminUser
<1>4. /\ IsTable(users')
      /\ DOMAIN users' = DOMAIN users
      /\ users'[AdminUserID] = Amend(users[AdminUserID], upd)
      /\ \A i \in DOMAIN users \ {AdminUserID} : users'[i] = users[i]
    BY <1>3, UpdatedRows
<1>5. IsRow(users[AdminUserID])
    OBVIOUS
<1>6. FALSE # Unset /\ key # Unset
    OBVIOUS
<1>7. /\ IsRow(users'[AdminUserID])
      /\ users'[AdminUserID].key = key
      /\ users'[AdminUserID].revoked = FALSE
    <2>1. IsRow(users'[AdminUserID])
        BY <1>2, <1>4, <1>5, AmendedRow
    <2> HIDE DEF UsersInv, RowsOK, KeysOK, DeadOK, Alive
    <2> "key" \in Fields /\ "revoked" \in Fields
        BY DEF Fields
    <2>2. users'[AdminUserID]["key"] = upd["key"]
        BY <1>2, <1>4, <1>5, <1>6, GivenField
    <2>3. "revoked" \in DOMAIN upd /\ upd["revoked"] # Unset
        BY <1>2, <1>6
    <2>4. users'[AdminUserID]["revoked"] = upd["revoked"]
        BY <1>4, <1>5, <2>3, GivenField
    <2>5. QED
        BY <1>2, <2>1, <2>2, <2>4
<1>8. RowsOK' /\ KeysOK'
    BY <1>3, <1>4, <1>7
<1>9. DeadOK'
    BY <1>3, <1>4, <1>7
<1>10. QED
    BY <1>8, <1>9

LEMMA StepKeeps == ASSUME UsersInv, [UsersNext]_usersVars PROVE UsersInv'
<1>1. ASSUME NEW o \in Operators, NEW name, NEW budget,
             CreateUserData(o, name, budget)
      PROVE UsersInv'
    BY <1>1, CreateKeeps DEF CreateUserData
<1>2. ASSUME UNCHANGED <<users, minted, dead>> PROVE UsersInv'
    BY <1>2 DEF UsersInv, RowsOK, KeysOK, DeadOK, Alive
<1>3. ASSUME NEW o \in Operators, NEW name, NEW budget, LookUp(o, name, budget)
      PROVE UsersInv'
    BY <1>2, <1>3 DEF LookUp
<1>4. ASSUME NEW o \in Operators, CreateMissing(o) PROVE UsersInv'
    BY <1>4, CreateKeeps DEF CreateMissing
<1>5. ASSUME NEW o \in Operators, Adopt(o) PROVE UsersInv'
    <2>1. PICK id, user, req : users' = AdoptExistingUser(users, id, user, req)
        BY <1>5 DEF Adopt
    <2>2. UNCHANGED <<minted, dead>>
        BY <1>5 DEF Adopt
    <2>3. CASE user.budget = req.budget
        BY <1>2, <2>1, <2>2, <2>3 DEF AdoptExistingUser
    <2>4. CASE user.budget # req.budget
        <3>1. PICK upd : upd = [budget |-> req.budget]
            OBVIOUS
        <3>2. users' = UpdateUser(users, id, upd) /\ DOMAIN upd \subseteq {"name", "budget"}
            BY <2>1, <2>4, <3>1 DEF AdoptExistingUser
        <3>3. QED
            BY <2>2, <3>2, PatchKeeps
    <2>5. QED
        BY <2>3, <2>4
<1>6. ASSUME NEW id, NEW name, NEW budget,
             UpdateUserData(id, [name |-> name, budget |-> budget])
      PROVE UsersInv'
    <2>1. PICK upd : upd = [name |-> name, budget |-> budget]
        OBVIOUS
    <2>2. /\ users' = UpdateUser(users, id, upd) /\ UNCHANGED <<minted, dead>>
          /\ DOMAIN upd \subseteq {"name", "budget"}
        BY <1>6, <2>1 DEF UpdateUserData
    <2>3. QED
        BY <2>2, PatchKeeps
<1>7. CASE UNCHANGED usersVars
    BY <1>2, <1>7 DEF usersVars
<1>8. QED
    BY <1>1, <1>3, <1>4, <1>5, <1>6, <1>7, RevokeKeeps, DeleteKeeps, RebootKeeps
    DEF UsersNext

(* RevocationIsFinal for any administrators: nothing a create, an adoption, a
   patch or a restart does revives a key that RevokeUser or DeleteUser took
   back, and every other minted key keeps admitting its user. *)
THEOREM RevokedStaysRevoked == UsersSpec => []RevocationIsFinal
<1>1. UsersInit => UsersInv
    BY InitHolds
<1>2. UsersInv /\ [UsersNext]_usersVars => UsersInv'
    BY StepKeeps
<1>3. UsersInv => RevocationIsFinal
    BY InvImpliesFinal
<1>4. QED
    BY <1>1, <1>2, <1>3, PTL DEF UsersSpec

-----------------------------------------------------------------------------
(* Pressure *)

PressureSpec == PressureInit /\ [][PressureNext]_pressureVars

Levels == {Normal, ShedCapture, ShedAnalysis}

Clock ==
    /\ level \in Levels
    /\ clear \in Nat \cup {NotClear}
    /\ \A s \in seen : s.target \in Levels /\ s.age \in Nat

(* What asked for as much as is shed now came before the clear readings. *)
ClearSince ==
    \A s \in seen : s.target >= level => clear = NotClear \/ s.age > clear

PressureInv == Clock /\ ClearSince

LEMMA TargetIsALevel == ASSUME NEW r PROVE Target(r) \in Levels
<1>1. \A s \in Over(r) : s[1] \in Levels
    <2> SUFFICES ASSUME NEW s \in Over(r) PROVE s[1] \in Levels
        OBVIOUS
    <2>1. \/ s = <<ShedAnalysis, "memory">>
          \/ s = <<ShedCapture, "memory">>
          \/ \E t \in {"disk", "io_pressure", "write_lag", "capture_backlog"} :
                 s = <<ShedCapture, t>>
        BY Zenon DEF Over
    <2>2. QED
        BY <2>1 DEF Levels
<1>2. PICK S : S = {Normal} \cup {s[1] : s \in Over(r)}
    OBVIOUS
<1>3. S \subseteq Levels /\ Normal \in S
    BY <1>1, <1>2 DEF Levels
<1>4. \E m \in S : \A x \in S : x <= m
    <2>1. CASE ShedAnalysis \in S
        BY <1>3, <2>1 DEF Levels, Normal, ShedCapture, ShedAnalysis
    <2>2. CASE ShedAnalysis \notin S /\ ShedCapture \in S
        BY <1>3, <2>2 DEF Levels, Normal, ShedCapture, ShedAnalysis
    <2>3. CASE S = {Normal}
        BY <2>3 DEF Normal
    <2>4. QED
        BY <1>3, <2>1, <2>2, <2>3 DEF Levels
<1>5. Max(S) \in S
    BY <1>4 DEF Max
<1>6. QED
    BY <1>2, <1>3, <1>5 DEF Target

(* One sample keeps the invariant and moves the level as promised. *)
LEMMA SampleStep ==
    ASSUME PressureInv, NEW gap \in Nat \ {0}, NEW r,
           Sample(gap, r)
    PROVE /\ PressureInv'
          /\ level' >= Target(last')
          /\ level' < level => \A s \in seen' : s.target < level
<1> USE CooldownPositive DEF Levels, Normal, ShedCapture, ShedAnalysis, NotClear
<1>1. PICK target : target = Target(r)
    OBVIOUS
<1>2. PICK since : since = IF clear = NotClear THEN 0 ELSE clear + gap
    OBVIOUS
<1>3. target \in Levels
    BY <1>1, TargetIsALevel
<1>4. since \in Nat
    BY <1>2 DEF PressureInv, Clock
<1>5. PICK moves \in BOOLEAN : moves <=> (target > level \/ (target < level /\ since >= Cooldown))
    OBVIOUS
<1>6. /\ level' = IF moves THEN target ELSE level
      /\ clear' = IF target < level /\ ~moves THEN since ELSE NotClear
      /\ last' = r
      /\ seen' = {s \in Aged(gap) : s.age < Cooldown} \cup {[target |-> target, age |-> 0]}
    BY <1>1, <1>2, <1>5 DEF Sample, StaysClear
<1>7. level \in Levels /\ clear \in Nat \cup {NotClear}
    BY DEF PressureInv, Clock
(* A sample that is remembered was remembered before, or is the new one. *)
<1>8. \A s \in seen' :
         \/ s.target = target /\ s.age = 0
         \/ /\ s.target \in Levels /\ s.age \in Nat /\ s.age < Cooldown
            /\ s.target >= level => clear = NotClear \/ s.age > since
            /\ s.target >= level => s.age > 0
    <2> SUFFICES ASSUME NEW old \in seen, old.age + gap < Cooldown
                 PROVE /\ old.target \in Levels /\ old.age + gap \in Nat
                       /\ old.target >= level => clear = NotClear \/ old.age + gap > since
                       /\ old.age + gap > 0
        BY <1>6 DEF Aged
    <2>1. old.target \in Levels /\ old.age \in Nat
        BY DEF PressureInv, Clock
    <2>2. old.target >= level => clear = NotClear \/ old.age > clear
        BY DEF PressureInv, ClearSince
    <2>3. QED
        BY <1>2, <1>7, <2>1, <2>2
<1>9. level' < level => \A s \in seen' : s.target < level
    <2> SUFFICES ASSUME level' < level, NEW s \in seen' PROVE s.target < level
        OBVIOUS
    <2>1. target < level /\ since >= Cooldown
        BY <1>3, <1>5, <1>6, <1>7
    <2>2. clear # NotClear
        BY <1>2, <2>1
    <2>3. QED
        BY <1>3, <1>4, <1>7, <1>8, <2>1, <2>2
<1>10. level' >= Target(last')
    BY <1>1, <1>3, <1>5, <1>6, <1>7
<1>11. Clock'
    BY <1>3, <1>4, <1>6, <1>7, <1>8 DEF Clock
<1>12. ClearSince'
    <2>1. CASE clear' = NotClear
        BY <2>1 DEF ClearSince
    <2>2. CASE clear' # NotClear
        <3>1. target < level /\ level' = level /\ clear' = since
            BY <1>6, <2>2
        <3>2. clear = NotClear => since = 0
            BY <1>2
        <3>3. QED
            BY <1>3, <1>4, <1>7, <1>8, <3>1, <3>2 DEF ClearSince
    <2>3. QED
        BY <2>1, <2>2
<1>13. QED
    BY <1>9, <1>10, <1>11, <1>12 DEF PressureInv

(* ShedsAtOnceRestoresSlowly for any cooldown: what sample sheds it sheds at
   once, and it restores nothing that some sample of the last cooldown asked
   to be shed. *)
THEOREM LevelFallsAfterACooldown == PressureSpec => ShedsAtOnceRestoresSlowly
<1>1. PressureInit => PressureInv
    BY DEF PressureInit, PressureInv, Clock, ClearSince, Levels
<1>2. ASSUME PressureInv, [PressureNext]_pressureVars
      PROVE /\ PressureInv'
            /\ [/\ level' >= Target(last')
                /\ level' < level => \A s \in seen' : s.target < level]_<<level, last, seen>>
    <2>1. CASE PressureNext
        <3>1. PICK gap \in 1..MaxGap, r \in Readings : Sample(gap, r)
            BY <2>1 DEF PressureNext
        <3>2. QED
            BY CooldownPositive, <1>2, <3>1, SampleStep
    <2>2. CASE UNCHANGED pressureVars
        BY <1>2, <2>2 DEF pressureVars, PressureInv, Clock, ClearSince
    <2>3. QED
        BY <1>2, <2>1, <2>2
<1>3. QED
    BY <1>1, <1>2, PTL DEF PressureSpec, ShedsAtOnceRestoresSlowly

-----------------------------------------------------------------------------
(* Housekeeping *)

HousekeepingSpec == HousekeepingInit /\ [][HousekeepingNext]_housekeepingVars

Stops == {"stopFeed", "stopJanitor", "stopSpend", "stopPressure"} \cup Background

(* Main still has a call to make for every goroutine that runs; the janitor
   stands for its drain. *)
Awaited(job) ==
    \/ ~Called(job)
    \/ job = "drain" /\ "janitor" \in jobs

Order ==
    /\ deferred \in Seq(Stops)
    /\ jobs \subseteq Background
    /\ closed \in BOOLEAN
    /\ closed => deferred = <<>>
    /\ \A job \in jobs : Awaited(job)

(* Whoever is inside a statement runs, and the drain only inside a batch. *)
LockHeld ==
    /\ lock = NoLock \/ lock \in jobs
    /\ lock = "drain" => drain = "batch"

WayOutInv == Order /\ LockHeld

LEMMA OnTheWayOutIsComplete ==
    /\ OnTheWayOut \in Seq(Stops) /\ OnTheWayOut # <<>>
    /\ Background \ {"drain"} \subseteq Range(OnTheWayOut)
<1>1. OnTheWayOut \in Seq(Stops) /\ OnTheWayOut # <<>>
    BY DEF OnTheWayOut, Stops, Background
<1>2. /\ DOMAIN OnTheWayOut = 1..9
      /\ OnTheWayOut[4] = "feed" /\ OnTheWayOut[5] = "janitor" /\ OnTheWayOut[6] = "spend"
      /\ OnTheWayOut[8] = "forks" /\ OnTheWayOut[9] = "checkpointer"
    BY DEF OnTheWayOut
<1>3. \A i \in 1..9 : OnTheWayOut[i] \in Range(OnTheWayOut)
    BY <1>2 DEF Range
<1>4. QED
    BY <1>1, <1>2, <1>3 DEF Background

LEMMA TailForgetsTheHead ==
    ASSUME NEW s \in Seq(Stops), s # <<>>, NEW c \in Range(s), c # Head(s)
    PROVE c \in Range(Tail(s))
<1>1. PICK i \in DOMAIN s : s[i] = c
    BY DEF Range
<1>2. i # 1 /\ i \in 1..Len(s) /\ Len(s) \in Nat
    BY <1>1
<1>3. i - 1 \in DOMAIN Tail(s) /\ Tail(s)[i - 1] = s[i]
    BY <1>2
<1>4. QED
    BY <1>1, <1>3 DEF Range

(* A step that ends no goroutine, calls nothing and enters or leaves a
   statement as the lock allows. *)
LEMMA QuietStep ==
    ASSUME WayOutInv, UNCHANGED <<jobs, deferred, closed>>, LockHeld'
    PROVE WayOutInv'
BY DEF WayOutInv, Order, Awaited, Called

LEMMA EndStep ==
    ASSUME WayOutInv, NEW job, Exits(job), UNCHANGED <<deferred, closed>>,
           job = "janitor" => "drain" \notin jobs, LockHeld'
    PROVE WayOutInv'
BY DEF WayOutInv, Order, Awaited, Called, Exits

LEMMA WayOutStep == ASSUME WayOutInv, [HousekeepingNext]_housekeepingVars PROVE WayOutInv'
<1> USE DEF NoLock
<1>1. CASE StartJobs
    <2>1. jobs' = Background /\ deferred' = OnTheWayOut
        BY <1>1 DEF StartJobs
    <2>2. closed' = closed /\ closed \in BOOLEAN /\ ~closed
        BY <1>1, OnTheWayOutIsComplete DEF StartJobs, WayOutInv, Order
    <2>3. \A job \in Background : Awaited(job)'
        BY <2>1, OnTheWayOutIsComplete DEF Awaited, Called, Background
    <2>4. lock' = NoLock
        BY <1>1 DEF StartJobs, WayOutInv, LockHeld
    <2>5. Order'
        BY <2>1, <2>2, <2>3, OnTheWayOutIsComplete DEF Order
    <2>6. QED
        BY <2>4, <2>5 DEF WayOutInv, LockHeld
<1>2. CASE Tick
    BY <1>2, QuietStep DEF Tick, WayOutInv, LockHeld
<1>3. ASSUME NEW job, Take(job), job = "drain" => drain = "batch" PROVE WayOutInv'
    BY <1>3, QuietStep DEF Take, WayOutInv, LockHeld
<1>4. ASSUME NEW job \in {"feed", "spend", "forks"}, BeginWrite(job) \/ EndWrite(job)
      PROVE WayOutInv'
    <2>1. CASE BeginWrite(job)
        BY <1>3, <2>1 DEF BeginWrite
    <2>2. CASE EndWrite(job)
        <3>1. lock' = NoLock /\ UNCHANGED <<jobs, deferred, closed, drain>>
            BY <2>2 DEF EndWrite
        <3>2. QED
            BY <3>1, QuietStep DEF LockHeld
    <2>3. QED
        BY <1>4, <2>1, <2>2
<1>5. CASE StartSweep \/ SkipTier
    BY <1>5, QuietStep DEF StartSweep, SkipTier, WayOutInv, LockHeld
<1>6. CASE BeginPrune \/ BeginOptimize
    BY <1>3, <1>6 DEF BeginPrune, BeginOptimize
<1>7. CASE EndPrune \/ EndOptimize
    <2>1. lock' = NoLock /\ UNCHANGED <<jobs, deferred, closed, drain>>
        BY <1>7 DEF EndPrune, EndOptimize
    <2>2. QED
        BY <2>1, QuietStep DEF LockHeld
<1>8. CASE DrainCheck
    <2>1. lock # "drain" /\ lock' = lock /\ UNCHANGED <<deferred, closed>>
        BY <1>8 DEF DrainCheck, WayOutInv, LockHeld
    <2>2. UNCHANGED jobs \/ Exits("drain")
        BY <1>8 DEF DrainCheck
    <2>3. LockHeld'
        BY <2>1, <2>2 DEF LockHeld, WayOutInv, Exits
    <2>4. QED
        BY <2>1, <2>2, <2>3, QuietStep, EndStep
<1>9. CASE BeginBatch
    BY <1>3, <1>9 DEF BeginBatch
<1>10. CASE EndBatch
    <2>1. lock' = NoLock /\ UNCHANGED <<deferred, closed>>
        BY <1>10 DEF EndBatch
    <2>2. UNCHANGED jobs \/ Exits("drain")
        BY <1>10 DEF EndBatch
    <2>3. LockHeld'
        BY <2>1 DEF LockHeld
    <2>4. QED
        BY <2>1, <2>2, <2>3, QuietStep, EndStep
<1>11. CASE Rest
    <2>1. drain \in Resting /\ lock' = lock /\ UNCHANGED <<deferred, closed>>
        BY <1>11 DEF Rest
    <2>2. lock # "drain"
        BY <2>1 DEF Resting, WayOutInv, LockHeld
    <2>3. UNCHANGED jobs \/ Exits("drain")
        BY <1>11 DEF Rest
    <2>4. LockHeld'
        BY <2>1, <2>2, <2>3 DEF LockHeld, WayOutInv, Exits
    <2>5. QED
        BY <2>1, <2>3, <2>4, QuietStep, EndStep
<1>12. ASSUME NEW job \in Background, Return(job) PROVE WayOutInv'
    <2>1. /\ lock # job /\ lock' = lock /\ Exits(job)
          /\ job = "janitor" => "drain" \notin jobs
          /\ UNCHANGED <<deferred, closed, drain>>
        BY <1>12 DEF Return
    <2>2. LockHeld'
        BY <2>1 DEF LockHeld, WayOutInv, Exits
    <2>3. QED
        BY <2>1, <2>2, EndStep
<1>13. CASE Defer
    <2>1. /\ deferred # <<>> /\ deferred' = Tail(deferred) /\ Waited(Head(deferred))
          /\ closed' = (deferred' = <<>>) /\ UNCHANGED <<jobs, lock, drain>>
        BY <1>13 DEF Defer
    <2>2. deferred \in Seq(Stops) /\ jobs \subseteq Background
        BY DEF WayOutInv, Order
    <2>3. Tail(deferred) \in Seq(Stops)
        BY <2>1, <2>2
    <2>4. ASSUME NEW job \in jobs PROVE Awaited(job)'
        <3>1. Awaited(job)
            BY DEF WayOutInv, Order
        <3>2. job # Head(deferred)
            BY <2>1, <2>2 DEF Waited
        <3>3. CASE job \in Range(deferred)
            BY <2>1, <2>2, <3>2, <3>3, TailForgetsTheHead DEF Awaited, Called
        <3>4. CASE job = "drain" /\ "janitor" \in jobs
            BY <2>1, <3>4 DEF Awaited
        <3>5. QED
            BY <3>1, <3>3, <3>4 DEF Awaited, Called
    <2>5. closed' \in BOOLEAN /\ (closed' => deferred' = <<>>)
        BY <2>1
    <2>6. Order'
        BY <2>1, <2>2, <2>3, <2>4, <2>5 DEF Order
    <2>7. LockHeld'
        BY <2>1 DEF LockHeld, WayOutInv
    <2>8. QED
        BY <2>6, <2>7 DEF WayOutInv
<1>14. CASE UNCHANGED housekeepingVars
    BY <1>14, QuietStep DEF housekeepingVars, WayOutInv, LockHeld
<1>15. QED
    BY <1>1, <1>2, <1>4, <1>5, <1>6, <1>7, <1>8, <1>9, <1>10, <1>11, <1>12, <1>13, <1>14
    DEF HousekeepingNext

(* NothingRunsOnAClosedStore whatever each goroutine was doing when the signal
   came: main's deferred calls wait for all of them before the close. *)
THEOREM StoreClosesLast == HousekeepingSpec => []NothingRunsOnAClosedStore
<1>1. HousekeepingInit => WayOutInv
    BY OnTheWayOutIsComplete DEF HousekeepingInit, WayOutInv, Order, LockHeld, NoLock
<1>2. WayOutInv /\ [HousekeepingNext]_housekeepingVars => WayOutInv'
    BY WayOutStep
<1>3. WayOutInv => NothingRunsOnAClosedStore
    <2> SUFFICES ASSUME WayOutInv, closed PROVE jobs = {} /\ lock = NoLock
        BY DEF NothingRunsOnAClosedStore
    <2>1. deferred = <<>>
        BY DEF WayOutInv, Order
    <2>2. Range(deferred) = {}
        BY <2>1 DEF Range
    <2>3. \A job \in jobs : job = "drain" /\ "janitor" \in jobs
        BY <2>2 DEF WayOutInv, Order, Awaited, Called
    <2>4. jobs = {}
        BY <2>3
    <2>5. QED
        BY <2>4 DEF WayOutInv, LockHeld
<1>4. QED
    BY <1>1, <1>2, <1>3, PTL DEF HousekeepingSpec
-----------------------------------------------------------------------------
(* ParsePipeline *)

ParseSpec == ParseInit /\ [][ParseNext]_parseVars

InHand == Range(queue) \cup (Range(working) \ {NoJob})
WithBody == {j \in InHand : size[j] > 0}

(* A job is in one place at a time. *)
JobsOK ==
    /\ size \in Seq(Nat)
    /\ queue \in Seq(1..Len(size))
    /\ working \in [Workers -> 0..Len(size)]
    /\ \A i, j \in 1..Len(queue) : queue[i] = queue[j] => i = j
    /\ \A w \in Workers : working[w] # NoJob => working[w] \notin Range(queue)
    /\ \A v, w \in Workers : working[v] = working[w] /\ v # w => working[v] = NoJob

ChargeOK ==
    /\ queuedBytes = SumOver(size, InHand)
    /\ queuedBytes <= ParseBudget \/ Cardinality(WithBody) = 1

ParseInv == JobsOK /\ ChargeOK

LEMMA RangeIs ==
    ASSUME NEW S, NEW s, s \in Seq(S)
    PROVE \A x : x \in Range(s) <=> \E i \in 1..Len(s) : x = s[i]
    BY DEF Range

LEMMA RangeWithLast ==
    ASSUME NEW S, NEW s, s \in Seq(S), NEW x \in S
    PROVE Range(Append(s, x)) = Range(s) \cup {x}
<1> DEFINE t == Append(s, x)
<1>1. /\ Len(s) \in Nat /\ Len(t) = Len(s) + 1 /\ t[Len(s) + 1] = x
      /\ \A i \in 1..Len(s) : t[i] = s[i]
    BY AppendProperties
<1>2. \A y : y \in Range(s) <=> \E i \in 1..Len(s) : y = s[i]
    BY RangeIs
<1>3. \A y : y \in Range(t) <=> \E i \in 1..Len(t) : y = t[i]
    <2>1. t \in Seq(S)
        BY AppendProperties
    <2>2. QED
        BY <2>1, RangeIs
<1>4. 1..Len(t) = 1..Len(s) \cup {Len(s) + 1}
    BY <1>1
<1> HIDE DEF t
<1>5. Range(t) = Range(s) \cup {x}
    BY <1>1, <1>2, <1>3, <1>4
<1>6. QED
    BY <1>5 DEF t

LEMMA InHandIs ==
    ASSUME JobsOK
    PROVE /\ InHand = {queue[i] : i \in 1..Len(queue)}
                      \cup {working[w] : w \in {v \in Workers : working[v] # NoJob}}
          /\ InHand \subseteq 1..Len(size)
          /\ IsFiniteSet(InHand)
          /\ \A j \in InHand : size[j] \in Nat
<1>1. Range(queue) = {queue[i] : i \in 1..Len(queue)} /\ Range(queue) \subseteq 1..Len(size)
    BY DEF JobsOK, Range
<1>2. /\ Range(working) \ {NoJob} = {working[w] : w \in {v \in Workers : working[v] # NoJob}}
      /\ Range(working) \ {NoJob} \subseteq 1..Len(size)
    BY DEF JobsOK, Range, NoJob
<1>3. InHand \subseteq 1..Len(size)
    BY <1>1, <1>2 DEF InHand
<1>4. IsFiniteSet(InHand)
    <2>1. IsFiniteSet(1..Len(size))
        BY FS_Interval DEF JobsOK
    <2>2. QED
        BY <1>3, <2>1, FS_Subset
<1>5. \A j \in InHand : size[j] \in Nat
    BY <1>3 DEF JobsOK
<1>6. QED
    BY <1>1, <1>2, <1>3, <1>4, <1>5 DEF InHand

LEMMA ChargeIsNat == ASSUME ParseInv PROVE queuedBytes \in Nat
    BY InHandIs, SumOverType DEF ParseInv, ChargeOK

(* Only jobs without a body cost nothing. *)
LEMMA NothingCharged ==
    ASSUME NEW S, IsFiniteSet(S), NEW w, \A x \in S : w[x] \in Nat, SumOver(w, S) = 0,
           NEW x \in S
    PROVE w[x] = 0
<1>1. SumOver(w, S) = w[x] + SumOver(w, S \ {x})
    BY SumOverRemove
<1>2. SumOver(w, S \ {x}) \in Nat
    <2>1. IsFiniteSet(S \ {x})
        BY FS_RemoveElement
    <2>2. QED
        BY <2>1, SumOverType
<1>3. QED
    BY <1>1, <1>2

(* A job arrives; refused, it changes nothing but the list of sizes. *)
LEMMA SubmitKeeps == ASSUME ParseInv, Submit PROVE ParseInv'
<1> USE DEF NoJob
<1>1. PICK bytes \in JobSizes :
         /\ size' = Append(size, bytes)
         /\ IF Fits(bytes) /\ Len(queue) < ParseSlots
            THEN queue' = Append(queue, Len(size')) /\ queuedBytes' = queuedBytes + bytes
            ELSE UNCHANGED <<queue, queuedBytes>>
    BY DEF Submit
<1>2. bytes \in Nat /\ ParseBudget \in Nat
    BY ParseAssumption
<1>3. PICK n : n = Len(size) + 1
    OBVIOUS
<1>4. /\ size' \in Seq(Nat) /\ Len(size') = n /\ n \in Nat /\ Len(size) \in Nat /\ size'[n] = bytes
      /\ \A j \in 1..Len(size) : size'[j] = size[j] /\ size[j] \in Nat
    BY <1>1, <1>2, <1>3, AppendProperties DEF ParseInv, JobsOK
<1>5. working' = working
    BY DEF Submit
<1>6. /\ queuedBytes = SumOver(size, InHand) /\ queuedBytes \in Nat /\ IsFiniteSet(InHand)
      /\ InHand \subseteq 1..Len(size) /\ \A j \in InHand : size[j] \in Nat
    BY InHandIs, ChargeIsNat DEF ParseInv, ChargeOK
<1>7. SumOver(size', InHand) = queuedBytes
    BY <1>4, <1>6, SumOverSame
<1>8. CASE UNCHANGED <<queue, queuedBytes>>
    <2>1. JobsOK'
        BY <1>4, <1>5, <1>8, <1>3 DEF ParseInv, JobsOK, Range
    <2>2. InHand' = InHand
        BY <1>5, <1>8 DEF InHand, Range
    <2>3. WithBody' = WithBody
        BY <1>4, <1>6, <2>2 DEF WithBody
    <2>4. QED
        BY <1>7, <1>8, <2>1, <2>2, <2>3 DEF ParseInv, ChargeOK
<1>9. CASE /\ Fits(bytes)
           /\ queue' = Append(queue, n) /\ queuedBytes' = queuedBytes + bytes
    <2>1. /\ queue \in Seq(1..Len(size)) /\ Len(queue) \in Nat
          /\ Range(queue) = {queue[i] : i \in 1..Len(queue)}
          /\ n \notin 1..Len(size) /\ 1..Len(size) \subseteq 1..n /\ n \in 1..n
          /\ 0..Len(size) \subseteq 0..n /\ n \notin 0..Len(size)
        BY <1>3, <1>4 DEF ParseInv, JobsOK, Range
    <2>2. queue \in Seq(1..n)
        BY <2>1, SeqMonotonic
    <2>3. /\ queue' \in Seq(1..n) /\ Len(queue') = Len(queue) + 1
          /\ \A i \in 1..Len(queue) : queue'[i] = queue[i] /\ queue[i] \in 1..Len(size)
          /\ queue'[Len(queue) + 1] = n
        BY <1>9, <2>1, <2>2, AppendProperties
    <2>4. Range(queue') = Range(queue) \cup {n}
        <3>1. PICK S : S = 1..n
            OBVIOUS
        <3>2. queue \in Seq(S) /\ n \in S /\ queue' \in Seq(S)
            BY <2>1, <2>2, <2>3, <3>1
        <3>3. Range(Append(queue, n)) = Range(queue) \cup {n}
            BY <3>2, RangeWithLast
        <3>4. QED
            BY <1>9, <3>3
    <2>5. JobsOK'
        <3>1. \A i, j \in 1..Len(queue') : queue'[i] = queue'[j] => i = j
            <4> SUFFICES ASSUME NEW i \in 1..Len(queue'), NEW j \in 1..Len(queue'),
                                queue'[i] = queue'[j]
                         PROVE i = j
                OBVIOUS
            <4>1. CASE i \in 1..Len(queue) /\ j \in 1..Len(queue)
                BY <2>3, <4>1 DEF ParseInv, JobsOK
            <4>2. CASE i = Len(queue) + 1 /\ j \in 1..Len(queue)
                <5>1. queue'[i] = n /\ queue'[j] \in 1..Len(size)
                    BY <2>3, <4>2
                <5>2. QED
                    BY <2>1, <5>1
            <4>3. CASE j = Len(queue) + 1 /\ i \in 1..Len(queue)
                <5>1. queue'[j] = n /\ queue'[i] \in 1..Len(size)
                    BY <2>3, <4>3
                <5>2. QED
                    BY <2>1, <5>1
            <4>4. QED
                BY <2>1, <2>3, <4>1, <4>2, <4>3
        <3>2. working' \in [Workers -> 0..n] /\ \A w \in Workers : working'[w] # n
            BY <1>5, <2>1 DEF ParseInv, JobsOK
        <3>3. \A w \in Workers : working'[w] # NoJob => working'[w] \notin Range(queue')
            BY <1>5, <2>4, <3>2 DEF ParseInv, JobsOK
        <3>4. \A v, w \in Workers : working'[v] = working'[w] /\ v # w => working'[v] = NoJob
            BY <1>5 DEF ParseInv, JobsOK
        <3>5. QED
            BY <1>4, <2>3, <3>1, <3>2, <3>3, <3>4 DEF JobsOK
    <2>6. InHand' = InHand \cup {n} /\ n \notin InHand
        BY <1>5, <1>6, <2>1, <2>4 DEF InHand
    <2>7. queuedBytes' = SumOver(size', InHand')
        <3>1. \A j \in InHand \cup {n} : size'[j] \in Nat
            BY <1>2, <1>4, <1>6
        <3>2. SumOver(size', InHand \cup {n}) = size'[n] + SumOver(size', InHand)
            BY <1>6, <2>6, <3>1, SumOverAdd
        <3>3. QED
            BY <1>2, <1>4, <1>6, <1>7, <1>9, <2>6, <3>2
    <2>8. queuedBytes' <= ParseBudget \/ Cardinality(WithBody') = 1
        <3>1. CASE queuedBytes + bytes <= ParseBudget
            BY <1>9, <3>1
        <3>2. CASE queuedBytes = 0 /\ ~(queuedBytes + bytes <= ParseBudget)
            <4>1. bytes > 0
                BY <1>2, <3>2
            <4>2. \A j \in InHand : size[j] = 0
                BY <1>6, <3>2, NothingCharged
            <4>3. \A j \in InHand : size'[j] = 0
                BY <1>4, <1>6, <4>2
            <4>4. WithBody' = {n}
                BY <1>4, <2>6, <4>1, <4>3 DEF WithBody
            <4>5. QED
                BY <4>4, FS_Singleton
        <3>3. QED
            BY <1>9, <3>1, <3>2 DEF Fits
    <2>9. QED
        BY <2>5, <2>7, <2>8 DEF ParseInv, ChargeOK
<1>10. QED
    BY <1>1, <1>4, <1>8, <1>9

(* A job moves from the queue to a worker. *)
LEMMA TakeKeeps == ASSUME ParseInv, NEW w \in Workers, TakeJob(w) PROVE ParseInv'
<1> USE DEF NoJob
<1>1. /\ size' = size /\ queuedBytes' = queuedBytes /\ working[w] = NoJob /\ queue # <<>>
      /\ working' = [working EXCEPT ![w] = Head(queue)] /\ queue' = Tail(queue)
    BY DEF TakeJob
<1>2. /\ size \in Seq(Nat) /\ queue \in Seq(1..Len(size)) /\ working \in [Workers -> 0..Len(size)]
      /\ Len(size) \in Nat
    BY DEF ParseInv, JobsOK
<1>3. PICK head \in 1..Len(size) : head = Head(queue) /\ head = queue[1]
    BY <1>1, <1>2
<1>4. /\ queue' \in Seq(1..Len(size)) /\ Len(queue') = Len(queue) - 1 /\ Len(queue) \in Nat \ {0}
      /\ \A i \in 1..Len(queue') : queue'[i] = queue[i + 1]
    BY <1>1, <1>2, HeadTailProperties, EmptySeq
<1>5. /\ \A x : x \in Range(queue) <=> \E i \in 1..Len(queue) : x = queue[i]
      /\ \A x : x \in Range(queue') <=> \E i \in 1..Len(queue') : x = queue'[i]
    <2>1. \A x : x \in Range(queue) <=> \E i \in 1..Len(queue) : x = queue[i]
        BY <1>2, RangeIs
    <2>2. \A x : x \in Range(queue') <=> \E i \in 1..Len(queue') : x = queue'[i]
        BY <1>4, RangeIs
    <2>3. QED
        BY <2>1, <2>2
<1>6. Range(queue') = Range(queue) \ {head} /\ head \in Range(queue)
    <2>1. \A i \in 1..Len(queue) : i # 1 => queue[i] # head
        BY <1>3, <1>4 DEF ParseInv, JobsOK
    <2>2. ASSUME NEW x \in Range(queue') PROVE x \in Range(queue) \ {head}
        <3>1. PICK i \in 1..Len(queue') : x = queue[i + 1]
            BY <1>4, <1>5
        <3>2. i + 1 \in 1..Len(queue) /\ i + 1 # 1
            BY <1>4
        <3>3. QED
            BY <1>5, <2>1, <3>1, <3>2
    <2>3. ASSUME NEW x \in Range(queue) \ {head} PROVE x \in Range(queue')
        <3>1. PICK i \in 1..Len(queue) : x = queue[i]
            BY <1>5
        <3>2. i # 1
            BY <1>3, <3>1
        <3>3. i - 1 \in 1..Len(queue') /\ (i - 1) + 1 = i
            BY <1>4, <3>2
        <3>4. QED
            BY <1>4, <1>5, <3>1, <3>3
    <2>4. head \in Range(queue)
        BY <1>3, <1>4, <1>5
    <2>5. QED
        BY <2>2, <2>3, <2>4
<1>7. /\ working' \in [Workers -> 0..Len(size)] /\ working'[w] = head
      /\ \A v \in Workers \ {w} : working'[v] = working[v]
    BY <1>1, <1>2, <1>3
<1>8. JobsOK'
    <2>1. \A i, j \in 1..Len(queue') : queue'[i] = queue'[j] => i = j
        <3> SUFFICES ASSUME NEW i \in 1..Len(queue'), NEW j \in 1..Len(queue'),
                            queue'[i] = queue'[j]
                     PROVE i = j
            OBVIOUS
        <3>1. queue[i + 1] = queue[j + 1] /\ i + 1 \in 1..Len(queue) /\ j + 1 \in 1..Len(queue)
            BY <1>4
        <3>2. i + 1 = j + 1
            BY <3>1 DEF ParseInv, JobsOK
        <3>3. QED
            BY <3>2
    <2>2. \A v \in Workers : working'[v] # NoJob => working'[v] \notin Range(queue')
        BY <1>6, <1>7 DEF ParseInv, JobsOK
    <2>3. \A v \in Workers \ {w} : working[v] # head
        BY <1>3, <1>6 DEF ParseInv, JobsOK
    <2>4. \A u, v \in Workers : working'[u] = working'[v] /\ u # v => working'[u] = NoJob
        BY <1>7, <2>3 DEF ParseInv, JobsOK
    <2>5. QED
        BY <1>1, <1>2, <1>4, <1>7, <2>1, <2>2, <2>4 DEF JobsOK
<1>9. InHand' = InHand
    <2>1. /\ Range(working) = {working[v] : v \in Workers}
          /\ Range(working') = {working'[v] : v \in Workers}
        BY <1>2, <1>7 DEF Range
    <2>2. Range(working') \ {NoJob} = (Range(working) \ {NoJob}) \cup {head}
        <3>1. ASSUME NEW j \in Range(working') \ {NoJob}
              PROVE j \in (Range(working) \ {NoJob}) \cup {head}
            BY <1>7, <2>1, <3>1
        <3>2. ASSUME NEW j \in (Range(working) \ {NoJob}) \cup {head}
              PROVE j \in Range(working') \ {NoJob}
            <4>1. CASE j = head
                BY <1>3, <1>7, <2>1, <4>1
            <4>2. CASE j \in Range(working) /\ j # NoJob
                <5>1. PICK v \in Workers : j = working[v]
                    BY <2>1, <4>2
                <5>2. v # w
                    BY <1>1, <4>2, <5>1
                <5>3. QED
                    BY <1>7, <2>1, <4>2, <5>1, <5>2
            <4>3. QED
                BY <3>2, <4>1, <4>2
        <3>3. QED
            BY <3>1, <3>2
    <2>3. QED
        BY <1>6, <2>2 DEF InHand
<1>10. QED
    BY <1>1, <1>8, <1>9 DEF ParseInv, ChargeOK, WithBody

(* A job is done and gives its bytes back. *)
LEMMA ProcessKeeps == ASSUME ParseInv, NEW w \in Workers, Process(w) PROVE ParseInv'
<1> USE DEF NoJob
<1>1. PICK job : job = working[w] /\ job # NoJob
    BY DEF Process
<1>2. /\ size' = size /\ queue' = queue /\ queuedBytes' = queuedBytes - size[job]
      /\ working' = [working EXCEPT ![w] = NoJob]
    BY <1>1 DEF Process
<1>3. /\ working \in [Workers -> 0..Len(size)] /\ Len(size) \in Nat
      /\ working' \in [Workers -> 0..Len(size)] /\ working'[w] = NoJob
      /\ \A v \in Workers \ {w} : working'[v] = working[v]
    BY <1>2 DEF ParseInv, JobsOK
<1>4. JobsOK'
    BY <1>2, <1>3 DEF ParseInv, JobsOK
<1>5. InHand' = InHand \ {job} /\ job \in InHand
    <2>1. /\ Range(working) = {working[v] : v \in Workers}
          /\ Range(working') = {working'[v] : v \in Workers}
        BY <1>3 DEF Range
    <2>2. \A v \in Workers \ {w} : working[v] # job
        BY <1>1 DEF ParseInv, JobsOK
    <2>3. Range(working') \ {NoJob} = (Range(working) \ {NoJob}) \ {job} /\ job \in Range(working)
        BY <1>1, <1>3, <2>1, <2>2
    <2>4. job \notin Range(queue)
        BY <1>1 DEF ParseInv, JobsOK
    <2>5. QED
        BY <1>1, <1>2, <2>3, <2>4 DEF InHand
<1>6. /\ queuedBytes = SumOver(size, InHand) /\ IsFiniteSet(InHand)
      /\ \A j \in InHand : size[j] \in Nat
    BY InHandIs DEF ParseInv, ChargeOK
<1>7. queuedBytes = size[job] + SumOver(size, InHand \ {job})
    BY <1>5, <1>6, SumOverRemove
<1>8. IsFiniteSet(InHand \ {job}) /\ SumOver(size, InHand \ {job}) \in Nat
    <2>1. IsFiniteSet(InHand \ {job})
        BY <1>6, FS_RemoveElement
    <2>2. QED
        BY <1>6, <2>1, SumOverType
<1>9. queuedBytes' = SumOver(size, InHand')
    BY <1>2, <1>5, <1>6, <1>7, <1>8
<1>10. queuedBytes' <= ParseBudget \/ Cardinality(WithBody') = 1
    <2>1. CASE queuedBytes <= ParseBudget
        BY ParseAssumption, <1>5, <1>6, <1>7, <1>8, <1>9, <2>1
    <2>2. CASE Cardinality(WithBody) = 1 /\ size[job] = 0
        <3>1. WithBody' = WithBody
            BY <1>2, <1>5, <2>2 DEF WithBody
        <3>2. QED
            BY <2>2, <3>1
    <2>3. CASE Cardinality(WithBody) = 1 /\ size[job] # 0
        <3>1. job \in WithBody
            BY <1>5, <1>6, <2>3 DEF WithBody
        <3>2. IsFiniteSet(WithBody)
            BY <1>6, FS_Subset DEF WithBody
        <3>3. WithBody = {job}
            BY <2>3, <3>1, <3>2, FS_Singleton
        <3>4. \A j \in InHand \ {job} : size[j] = 0
            BY <1>6, <3>3 DEF WithBody
        <3>5. SumOver(size, InHand \ {job}) = 0
            BY <1>8, <3>4, SumOfZeros
        <3>6. QED
            BY ParseAssumption, <1>5, <1>9, <3>5
    <2>4. QED
        BY <2>1, <2>2, <2>3 DEF ParseInv, ChargeOK
<1>11. QED
    BY <1>2, <1>4, <1>9, <1>10 DEF ParseInv, ChargeOK

(* For any workers, sizes, slots and budget, and however submissions and   *)
(* workers interleave: the queue is charged for exactly the jobs it holds, *)
(* and exceeds its budget for one job with a body at most (pipeline.go     *)
(* submit, worker).                                                        *)
THEOREM ParseChargeIsExact == ParseSpec => []ParseQueueIsExact
<1>1. ParseInit => ParseInv
    <2> SUFFICES ASSUME ParseInit PROVE ParseInv
        OBVIOUS
    <2>1. size = <<>> /\ queue = <<>> /\ working = [w \in Workers |-> NoJob] /\ queuedBytes = 0
        BY DEF ParseInit
    <2>2. Len(size) = 0 /\ Len(queue) = 0 /\ size \in Seq(Nat) /\ queue \in Seq(1..Len(size))
        BY <2>1
    <2>3. Range(queue) = {} /\ Range(working) \ {NoJob} = {}
        BY <2>1 DEF Range
    <2>4. JobsOK
        BY <2>1, <2>2, <2>3 DEF JobsOK, NoJob
    <2>5. SumOver(size, InHand) = 0
        BY <2>3, SumOverEmpty DEF InHand
    <2>6. QED
        BY ParseAssumption, <2>1, <2>4, <2>5 DEF ParseInv, ChargeOK
<1>2. ParseInv /\ [ParseNext]_parseVars => ParseInv'
    <2> SUFFICES ASSUME ParseInv, [ParseNext]_parseVars PROVE ParseInv'
        OBVIOUS
    <2>1. CASE CloseQueue
        BY <2>1 DEF CloseQueue, ParseInv, JobsOK, ChargeOK, InHand, WithBody, Range
    <2>2. CASE UNCHANGED parseVars
        BY <2>2 DEF parseVars, ParseInv, JobsOK, ChargeOK, InHand, WithBody, Range
    <2>3. QED
        BY <2>1, <2>2, SubmitKeeps, TakeKeeps, ProcessKeeps DEF ParseNext
<1>3. ParseInv => ParseQueueIsExact
    <2>1. SumOver(size, InHand) = MapThenSumSet(LAMBDA j : size[j], InHand)
        BY DEF SumOver, FoldFunctionOnSet, MapThenSumSet
    <2>2. QED
        BY <2>1 DEF ParseInv, ChargeOK, WithBody, InHand, ParseQueueIsExact
<1>4. QED
    BY <1>1, <1>2, <1>3, PTL DEF ParseSpec

-----------------------------------------------------------------------------
(* Sessions.  A call is folded at most once, and what it says is fixed     *)
(* when it ends; so the row is a function of the set of calls folded,      *)
(* which is what RowOf says of it.                                         *)

SessionsSpec == SessionsInit /\ [][SessionsNext]_sessionVars

Outcome == [at : {"ended", "written"}, end : Nat, ok : BOOLEAN, utility : BOOLEAN, sub : BOOLEAN]

(* What is known of a call that has ended and was not lost. *)
CallsOK ==
    /\ clock \in Nat
    /\ call = [c \in Calls |-> call[c]]
    /\ \A c \in Calls :
        /\ "at" \in DOMAIN call[c]
        /\ call[c].at \in {"ended", "written"} => call[c] \in Outcome

(* No call is folded twice: what is queued is not folded yet, and only what
   was handed over is either. *)
Once ==
    /\ updates \in Seq(Calls)
    /\ \A i \in 1..Len(updates) :
        call[updates[i]].at = "written" /\ updates[i] \notin folded
    /\ \A i \in 1..Len(updates) : \A j \in 1..Len(updates) : updates[i] = updates[j] => i = j
    /\ folded \subseteq Calls
    /\ \A c \in folded : call[c].at = "written"

EndOf(e) == [c \in Calls |-> e[c].end]
Turns(e, F) == {c \in F : ~e[c].utility}
Utility(e, F) == {c \in F : e[c].utility}
Failed(e, F) == {c \in F : ~e[c].ok}

(* The row of the calls F. *)
RowOf(row, e, F) ==
    /\ F = {} => row = NoRow
    /\ F # {} =>
        /\ row.turns = Cardinality(Turns(e, F)) /\ row.errors = Cardinality(Failed(e, F))
        /\ row.spend = SumOver(EndOf(e), F) /\ row.utility = SumOver(EndOf(e), Utility(e, F))
        /\ \A c \in F : row.first <= e[c].end /\ e[c].end <= row.last
        /\ \E c \in F : e[c].end = row.first
        /\ \E c \in F : e[c].end = row.last /\ row.status = e[c].ok
        /\ row.subagents \in BOOLEAN /\ (row.subagents <=> \E c \in F : e[c].sub)

SessionsInv == CallsOK /\ Once /\ RowOf(rollup, call, folded)

LEMMA RowOfSame ==
    ASSUME NEW row, NEW d, NEW e, NEW F \in SUBSET Calls, RowOf(row, d, F),
           \A c \in F : d[c] = e[c]
    PROVE  RowOf(row, e, F)
<1>1. IsFiniteSet(F) /\ Utility(d, F) = Utility(e, F) /\ IsFiniteSet(Utility(e, F))
      /\ Turns(d, F) = Turns(e, F) /\ Failed(d, F) = Failed(e, F)
  BY SessionsAssumption, FS_Subset DEF Utility, Turns, Failed
<1>2. PICK v, w : v = EndOf(d) /\ w = EndOf(e)
  OBVIOUS
<1>3. \A c \in F : v[c] = w[c]
  BY <1>2 DEF EndOf
<1>4. SumOver(v, F) = SumOver(w, F) /\ SumOver(v, Utility(e, F)) = SumOver(w, Utility(e, F))
  <2>1. \A c \in Utility(e, F) : v[c] = w[c]
    BY <1>3 DEF Utility
  <2>2. QED BY <1>1, <1>3, <2>1, SumOverSame
<1>5. QED BY <1>1, <1>2, <1>4 DEF RowOf

LEMMA MinOfTwo ==
    ASSUME NEW a \in Nat, NEW b \in Nat
    PROVE  /\ Min({a, b}) \in {a, b} /\ Min({a, b}) <= a /\ Min({a, b}) <= b
           /\ Max({a, b}) \in {a, b} /\ Max({a, b}) >= a /\ Max({a, b}) >= b
<1>1. \E x \in {a, b} : \A y \in {a, b} : x <= y
  OBVIOUS
<1>2. \E x \in {a, b} : \A y \in {a, b} : x >= y
  OBVIOUS
<1>3. QED BY <1>1, <1>2 DEF Min, Max

LEMMA UnitTimes ==
    ASSUME NEW k, NEW n \in Nat
    PROVE  (k = 1 => k * n = n) /\ (k = 0 => k * n = 0)
OBVIOUS

LEMMA NewRowOf ==
    ASSUME NEW e, NEW x \in Calls, e[x] \in Outcome
    PROVE  /\ RowOf(NewRow(e[x]), e, {x})
           /\ SumOver(EndOf(e), {x}) = e[x].end
           /\ SumOver(EndOf(e), Utility(e, {x})) = Count(e[x].utility) * e[x].end
           /\ Cardinality(Turns(e, {x})) = Count(~e[x].utility)
           /\ Cardinality(Failed(e, {x})) = Count(~e[x].ok)
<1>1. PICK w : w = EndOf(e)
  OBVIOUS
<1>2. w[x] = e[x].end /\ w[x] \in Nat
  BY <1>1 DEF EndOf, Outcome
<1>3. SumOver(w, {x}) = w[x]
  <2>1. IsFiniteSet({}) /\ x \notin {} /\ (\A y \in {} \cup {x} : w[y] \in Nat) /\ {} \cup {x} = {x}
    BY <1>2, FS_EmptySet
  <2>2. SumOver(w, {} \cup {x}) = w[x] + SumOver(w, {})
    BY <2>1, SumOverAdd
  <2>3. QED BY <1>2, <2>1, <2>2, SumOverEmpty
<1>4. e[x].utility \in BOOLEAN /\ e[x].ok \in BOOLEAN /\ e[x].sub \in BOOLEAN /\ e[x].end \in Nat
  BY DEF Outcome
<1>5. SumOver(w, Utility(e, {x})) = Count(e[x].utility) * e[x].end
  <2>1. CASE e[x].utility
    <3>1. Utility(e, {x}) = {x}
      BY <2>1 DEF Utility
    <3>2. Count(e[x].utility) = 1
      BY <2>1 DEF Count
    <3>3. Count(e[x].utility) * e[x].end = e[x].end
      BY <1>4, <3>2, UnitTimes
    <3>4. QED BY <1>2, <1>3, <3>1, <3>3
  <2>2. CASE ~e[x].utility
    <3>1. Utility(e, {x}) = {}
      BY <2>2 DEF Utility
    <3>2. Count(e[x].utility) = 0
      BY <2>2 DEF Count
    <3>3. Count(e[x].utility) * e[x].end = 0
      BY <1>4, <3>2, UnitTimes
    <3>4. QED BY <3>1, <3>3, SumOverEmpty
  <2>3. QED BY <2>1, <2>2
<1>6. Cardinality(Turns(e, {x})) = Count(~e[x].utility)
  <2>1. Turns(e, {x}) = IF ~e[x].utility THEN {x} ELSE {}
    BY DEF Turns
  <2>2. QED BY <2>1, FS_EmptySet, FS_Singleton DEF Count
<1>7. Cardinality(Failed(e, {x})) = Count(~e[x].ok)
  <2>1. Failed(e, {x}) = IF ~e[x].ok THEN {x} ELSE {}
    BY DEF Failed
  <2>2. QED BY <2>1, FS_EmptySet, FS_Singleton DEF Count
<1>8. PICK r : r = NewRow(e[x])
  OBVIOUS
<1>9. /\ r.turns = Count(~e[x].utility) /\ r.errors = Count(~e[x].ok)
      /\ r.spend = e[x].end /\ r.utility = Count(e[x].utility) * e[x].end
      /\ r.first = e[x].end /\ r.last = e[x].end /\ r.status = e[x].ok /\ r.subagents = e[x].sub
  BY <1>8 DEF NewRow
<1>10. RowOf(r, e, {x})
  BY <1>1, <1>2, <1>3, <1>4, <1>5, <1>6, <1>7, <1>9 DEF RowOf
<1>11. QED BY <1>1, <1>2, <1>3, <1>5, <1>6, <1>7, <1>8, <1>10

(* The sets and sums of the row grow by what the call counts for. *)
LEMMA SumsGrow ==
    ASSUME NEW e, NEW F \in SUBSET Calls, NEW x \in Calls, x \notin F,
           \A c \in F \cup {x} : e[c] \in Outcome
    PROVE  /\ Cardinality(Turns(e, F \cup {x})) = Cardinality(Turns(e, F)) + Count(~e[x].utility)
           /\ Cardinality(Failed(e, F \cup {x})) = Cardinality(Failed(e, F)) + Count(~e[x].ok)
           /\ SumOver(EndOf(e), F \cup {x}) = SumOver(EndOf(e), F) + e[x].end
           /\ SumOver(EndOf(e), Utility(e, F \cup {x}))
                = SumOver(EndOf(e), Utility(e, F)) + Count(e[x].utility) * e[x].end
           /\ Cardinality(Turns(e, F)) \in Nat
<1>1. /\ IsFiniteSet(F) /\ IsFiniteSet(Turns(e, F)) /\ IsFiniteSet(Failed(e, F))
      /\ IsFiniteSet(Utility(e, F))
      /\ Turns(e, F) \subseteq F /\ Failed(e, F) \subseteq F /\ Utility(e, F) \subseteq F
  BY SessionsAssumption, FS_Subset DEF Utility, Turns, Failed
<1>2. PICK w : w = EndOf(e)
  OBVIOUS
<1>3. \A c \in F \cup {x} : w[c] = e[c].end /\ w[c] \in Nat
  BY <1>2 DEF EndOf, Outcome
<1>4. e[x].utility \in BOOLEAN /\ e[x].ok \in BOOLEAN /\ e[x].end \in Nat
  BY DEF Outcome
<1>5. Cardinality(Turns(e, F)) \in Nat /\ Cardinality(Failed(e, F)) \in Nat
      /\ SumOver(w, F) \in Nat /\ SumOver(w, Utility(e, F)) \in Nat
  <2>1. \A c \in Utility(e, F) : w[c] \in Nat
    BY <1>1, <1>3
  <2>2. QED BY <1>1, <1>3, <2>1, FS_CardinalityType, SumOverType
<1>6. SumOver(w, F \cup {x}) = SumOver(w, F) + e[x].end
  <2>1. \A c \in F \cup {x} : w[c] \in Nat
    BY <1>3
  <2>2. SumOver(w, F \cup {x}) = w[x] + SumOver(w, F)
    BY <1>1, <2>1, SumOverAdd
  <2>3. QED BY <1>3, <1>4, <1>5, <2>2
<1>7. SumOver(w, Utility(e, F \cup {x})) = SumOver(w, Utility(e, F)) + Count(e[x].utility) * e[x].end
  <2>1. CASE e[x].utility
    <3>1. Utility(e, F \cup {x}) = Utility(e, F) \cup {x} /\ x \notin Utility(e, F)
      BY <2>1, <1>1 DEF Utility
    <3>2. \A c \in Utility(e, F) \cup {x} : w[c] \in Nat
      BY <1>1, <1>3
    <3>3. SumOver(w, Utility(e, F) \cup {x}) = w[x] + SumOver(w, Utility(e, F))
      BY <1>1, <3>1, <3>2, SumOverAdd
    <3>4. Count(e[x].utility) = 1 /\ w[x] = e[x].end
      BY <1>3, <2>1 DEF Count
    <3>5. Count(e[x].utility) * e[x].end = e[x].end
      BY <1>4, <3>4, UnitTimes
    <3>6. PICK k : k = Count(e[x].utility) * e[x].end
      OBVIOUS
    <3>7. SumOver(w, Utility(e, F \cup {x})) = SumOver(w, Utility(e, F)) + k
      <4>1. PICK s : s = SumOver(w, Utility(e, F))
        OBVIOUS
      <4>2. SumOver(w, Utility(e, F \cup {x})) = k + s
        BY <3>1, <3>3, <3>4, <3>5, <3>6, <4>1
      <4>3. s \in Nat /\ k \in Nat
        BY <1>4, <1>5, <3>5, <3>6, <4>1
      <4>4. QED BY <4>1, <4>2, <4>3
    <3>8. QED BY <3>6, <3>7
  <2>2. CASE ~e[x].utility
    <3>1. Utility(e, F \cup {x}) = Utility(e, F)
      BY <2>2 DEF Utility
    <3>2. Count(e[x].utility) = 0
      BY <2>2 DEF Count
    <3>3. Count(e[x].utility) * e[x].end = 0
      BY <1>4, <3>2, UnitTimes
    <3>4. QED BY <1>5, <3>1, <3>3
  <2>3. QED BY <2>1, <2>2
<1>8. Cardinality(Turns(e, F \cup {x})) = Cardinality(Turns(e, F)) + Count(~e[x].utility)
  <2>1. x \notin Turns(e, F)
    BY <1>1
  <2>2. CASE e[x].utility
    <3>1. Turns(e, F \cup {x}) = Turns(e, F)
      BY <2>2 DEF Turns
    <3>2. Count(~e[x].utility) = 0
      BY <2>2 DEF Count
    <3>3. QED BY <1>5, <3>1, <3>2
  <2>3. CASE ~e[x].utility
    <3>1. Turns(e, F \cup {x}) = Turns(e, F) \cup {x}
      BY <2>3 DEF Turns
    <3>2. Count(~e[x].utility) = 1
      BY <2>3 DEF Count
    <3>3. QED BY <1>1, <1>5, <2>1, <3>1, <3>2, FS_AddElement
  <2>4. QED BY <2>2, <2>3
<1>9. Cardinality(Failed(e, F \cup {x})) = Cardinality(Failed(e, F)) + Count(~e[x].ok)
  <2>1. x \notin Failed(e, F)
    BY <1>1
  <2>2. CASE e[x].ok
    <3>1. Failed(e, F \cup {x}) = Failed(e, F)
      BY <2>2 DEF Failed
    <3>2. Count(~e[x].ok) = 0
      BY <2>2 DEF Count
    <3>3. QED BY <1>5, <3>1, <3>2
  <2>3. CASE ~e[x].ok
    <3>1. Failed(e, F \cup {x}) = Failed(e, F) \cup {x}
      BY <2>3 DEF Failed
    <3>2. Count(~e[x].ok) = 1
      BY <2>3 DEF Count
    <3>3. QED BY <1>1, <1>5, <2>1, <3>1, <3>2, FS_AddElement
  <2>4. QED BY <2>2, <2>3
<1>10. QED BY <1>2, <1>5, <1>6, <1>7, <1>8, <1>9

(* An upsert takes the row of some calls to the row of one more. *)
LEMMA UpsertAdds ==
    ASSUME NEW row, NEW e, NEW F \in SUBSET Calls, NEW x \in Calls, x \notin F,
           \A c \in F \cup {x} : e[c] \in Outcome,
           RowOf(row, e, F)
    PROVE  RowOf(UpsertSessionCall(row, e[x]), e, F \cup {x})
<1>1. CASE F = {}
  <2>1. row = NoRow /\ F \cup {x} = {x} /\ e[x] \in Outcome
    BY <1>1 DEF RowOf
  <2>2. UpsertSessionCall(row, e[x]) = NewRow(e[x])
    BY <2>1 DEF UpsertSessionCall
  <2>3. QED BY <2>1, <2>2, NewRowOf
<1>2. CASE F # {}
  <2> DEFINE G == F \cup {x}
  <2>1. /\ Cardinality(Turns(e, G)) = Cardinality(Turns(e, F)) + Count(~e[x].utility)
        /\ Cardinality(Failed(e, G)) = Cardinality(Failed(e, F)) + Count(~e[x].ok)
        /\ SumOver(EndOf(e), G) = SumOver(EndOf(e), F) + e[x].end
        /\ SumOver(EndOf(e), Utility(e, G))
             = SumOver(EndOf(e), Utility(e, F)) + Count(e[x].utility) * e[x].end
        /\ Cardinality(Turns(e, F)) \in Nat
    BY SumsGrow
  <2>2. /\ row.turns = Cardinality(Turns(e, F)) /\ row.errors = Cardinality(Failed(e, F))
        /\ row.spend = SumOver(EndOf(e), F) /\ row.utility = SumOver(EndOf(e), Utility(e, F))
        /\ row.subagents \in BOOLEAN /\ (row.subagents <=> \E c \in F : e[c].sub)
        /\ \A c \in F : row.first <= e[c].end /\ e[c].end <= row.last
    BY <1>2 DEF RowOf
  <2>3. PICK lo \in F : e[lo].end = row.first
    BY <1>2 DEF RowOf
  <2>4. PICK hi \in F : e[hi].end = row.last /\ row.status = e[hi].ok
    BY <1>2 DEF RowOf
  <2>5. \A c \in G : e[c].end \in Nat /\ e[c].ok \in BOOLEAN /\ e[c].sub \in BOOLEAN
    BY DEF Outcome
  <2>6. row # NoRow
    BY <2>1, <2>2 DEF NoRow
  <2>7. PICK n : n = NewRow(e[x])
    OBVIOUS
  <2>8. /\ n.turns = Count(~e[x].utility) /\ n.errors = Count(~e[x].ok)
        /\ n.spend = e[x].end /\ n.utility = Count(e[x].utility) * e[x].end
        /\ n.first = e[x].end /\ n.last = e[x].end /\ n.status = e[x].ok /\ n.subagents = e[x].sub
    BY <2>7 DEF NewRow
  <2>9. PICK q : q = UpsertSessionCall(row, e[x])
    OBVIOUS
  <2>10. /\ q.turns = row.turns + n.turns /\ q.errors = row.errors + n.errors
         /\ q.spend = row.spend + n.spend /\ q.utility = row.utility + n.utility
         /\ q.first = Min({row.first, n.first}) /\ q.last = Max({row.last, n.last})
         /\ q.status = LastStatus(row, n) /\ q.subagents = (row.subagents \/ n.subagents)
    BY <2>6, <2>7, <2>9 DEF UpsertSessionCall
  <2>11. /\ q.turns = Cardinality(Turns(e, G)) /\ q.errors = Cardinality(Failed(e, G))
         /\ q.spend = SumOver(EndOf(e), G) /\ q.utility = SumOver(EndOf(e), Utility(e, G))
    BY <2>1, <2>2, <2>8, <2>10
  <2>12. /\ row.first \in Nat /\ row.last \in Nat /\ n.first \in Nat /\ n.last \in Nat
    BY <2>3, <2>4, <2>5, <2>8
  <2>13. /\ q.first \in {row.first, n.first} /\ q.first <= row.first /\ q.first <= n.first
         /\ q.last \in {row.last, n.last} /\ row.last <= q.last /\ n.last <= q.last
    BY <2>10, <2>12, MinOfTwo
  <2>14. \A c \in G : q.first <= e[c].end /\ e[c].end <= q.last
    BY <2>2, <2>5, <2>8, <2>12, <2>13
  <2>15. \E c \in G : e[c].end = q.first
    BY <2>3, <2>8, <2>13
  <2>16. \E c \in G : e[c].end = q.last /\ q.status = e[c].ok
    <3>1. CASE n.last >= row.last
      <4>1. q.last = n.last /\ q.status = n.status
        BY <2>10, <2>12, <2>13, <3>1 DEF LastStatus
      <4>2. QED BY <4>1, <2>8
    <3>2. CASE ~(n.last >= row.last)
      <4>1. q.last = row.last /\ q.status = row.status
        BY <2>10, <2>12, <2>13, <3>2 DEF LastStatus
      <4>2. QED BY <4>1, <2>4
    <3>3. QED BY <3>1, <3>2
  <2>17. q.subagents \in BOOLEAN /\ (q.subagents <=> \E c \in G : e[c].sub)
    BY <2>2, <2>5, <2>8, <2>10
  <2>18. RowOf(q, e, G)
    BY <2>11, <2>14, <2>15, <2>16, <2>17 DEF RowOf
  <2>19. QED BY <2>9, <2>18
<1>3. QED BY <1>1, <1>2

LEMMA SessionsStart == SessionsInit => SessionsInv
<1> SUFFICES ASSUME SessionsInit PROVE SessionsInv
  OBVIOUS
<1>1. CallsOK
  BY DEF SessionsInit, CallsOK
<1>2. Once
  BY DEF SessionsInit, Once
<1>3. RowOf(rollup, call, folded)
  BY DEF SessionsInit, RowOf
<1>4. QED BY <1>1, <1>2, <1>3 DEF SessionsInv

LEMMA EndCallKeeps ==
    ASSUME SessionsInv, NEW c \in Calls, EndCall(c)
    PROVE  SessionsInv'
<1>1. PICK kind \in Kinds, ok \in BOOLEAN :
        call' = [call EXCEPT ![c] = [at |-> "ended", end |-> clock', ok |-> ok,
                                     utility |-> kind.utility, sub |-> kind.sub]]
  BY DEF EndCall
<1>2. clock' \in Nat /\ call[c].at = "running"
      /\ updates' = updates /\ rollup' = rollup /\ folded' = folded
  BY DEF EndCall, SessionsInv, CallsOK
<1>3. PICK r : r = [at |-> "ended", end |-> clock', ok |-> ok,
                    utility |-> kind.utility, sub |-> kind.sub]
  OBVIOUS
<1>4. r \in Outcome /\ "at" \in DOMAIN r
  <2>1. kind.utility \in BOOLEAN /\ kind.sub \in BOOLEAN
    BY SessionsAssumption
  <2>2. QED BY <1>2, <1>3, <2>1 DEF Outcome
<1>5. call' = [call EXCEPT ![c] = r]
  BY <1>1, <1>3
<1>6. \A d \in Calls : call'[d] = IF d = c THEN r ELSE call[d]
  BY <1>5 DEF SessionsInv, CallsOK
<1>7. CallsOK'
  BY <1>2, <1>4, <1>5, <1>6 DEF SessionsInv, CallsOK
<1>8. Once'
  <2>1. \A d \in Calls : call[d].at = "written" => call'[d] = call[d]
    BY <1>2, <1>6
  <2>2. \A i \in 1..Len(updates) : updates[i] \in Calls
    BY DEF SessionsInv, Once
  <2>3. QED BY <1>2, <2>1, <2>2 DEF SessionsInv, Once
<1>9. RowOf(rollup, call', folded)
  <2>1. folded \in SUBSET Calls /\ \A d \in folded : call[d] = call'[d]
    BY <1>2, <1>6 DEF SessionsInv, Once
  <2>2. QED BY <2>1, RowOfSame DEF SessionsInv
<1>10. QED BY <1>2, <1>7, <1>8, <1>9 DEF SessionsInv

LEMMA HandOverKeeps ==
    ASSUME SessionsInv, NEW c \in Calls, HandOver(c)
    PROVE  SessionsInv'
<1>1. call' = [call EXCEPT ![c].at = "written"] /\ call[c].at = "ended"
      /\ rollup' = rollup /\ folded' = folded /\ clock' = clock
      /\ updates' \in {updates, Append(updates, c)}
  BY DEF HandOver
<1>2. PICK r : r = [call[c] EXCEPT !.at = "written"]
  OBVIOUS
<1>3. r \in Outcome /\ "at" \in DOMAIN r /\ r.at = "written"
  <2>1. call[c] \in Outcome
    BY <1>1 DEF SessionsInv, CallsOK
  <2>2. QED BY <1>2, <2>1 DEF Outcome
<1>4. call' = [call EXCEPT ![c] = r]
  BY <1>1, <1>2
<1>5. \A d \in Calls : call'[d] = IF d = c THEN r ELSE call[d]
  BY <1>4 DEF SessionsInv, CallsOK
<1>6. CallsOK'
  BY <1>1, <1>3, <1>4, <1>5 DEF SessionsInv, CallsOK
<1>7. \A d \in Calls : call[d].at = "written" => call'[d] = call[d]
  BY <1>1, <1>5
<1>8. Once'
  <2>1. /\ updates \in Seq(Calls) /\ folded \subseteq Calls
        /\ \A i \in 1..Len(updates) :
             updates[i] \in Calls /\ call[updates[i]].at = "written" /\ updates[i] \notin folded
        /\ \A i \in 1..Len(updates) : \A j \in 1..Len(updates) : updates[i] = updates[j] => i = j
        /\ \A d \in folded : call[d].at = "written"
    BY DEF SessionsInv, Once
  <2>2. \A i \in 1..Len(updates) : call'[updates[i]].at = "written" /\ updates[i] # c
    BY <1>1, <1>7, <2>1
  <2>3. (\A d \in folded : call'[d].at = "written") /\ c \notin folded /\ call'[c].at = "written"
    BY <1>1, <1>3, <1>5, <1>7, <2>1
  <2>4. CASE updates' = updates
    BY <1>1, <2>1, <2>2, <2>3, <2>4 DEF Once
  <2>5. CASE updates' = Append(updates, c)
    <3>1. updates' \in Seq(Calls) /\ Len(updates') = Len(updates) + 1
          /\ updates'[Len(updates) + 1] = c
          /\ \A i \in 1..Len(updates) : updates'[i] = updates[i]
      BY <2>1, <2>5
    <3>2. \A i \in 1..Len(updates') : i \in 1..Len(updates) \/ i = Len(updates) + 1
      BY <2>1, <3>1
    <3>3. \A i \in 1..Len(updates') : call'[updates'[i]].at = "written" /\ updates'[i] \notin folded
      BY <2>1, <2>2, <2>3, <3>1, <3>2
    <3>4. \A i \in 1..Len(updates') : \A j \in 1..Len(updates') : updates'[i] = updates'[j] => i = j
      BY <2>1, <2>2, <3>1, <3>2
    <3>5. QED BY <1>1, <2>1, <2>3, <3>1, <3>3, <3>4 DEF Once
  <2>6. QED BY <1>1, <2>4, <2>5
<1>9. RowOf(rollup, call', folded)
  <2>1. folded \in SUBSET Calls /\ \A d \in folded : call[d] = call'[d]
    BY <1>7 DEF SessionsInv, Once
  <2>2. QED BY <2>1, RowOfSame DEF SessionsInv
<1>10. QED BY <1>1, <1>6, <1>8, <1>9 DEF SessionsInv

LEMMA FoldCallKeeps ==
    ASSUME SessionsInv, FoldCall
    PROVE  SessionsInv'
<1>1. updates # <<>> /\ updates' = Tail(updates) /\ call' = call /\ clock' = clock
  BY DEF FoldCall
<1>2. /\ updates \in Seq(Calls) /\ folded \subseteq Calls
      /\ \A i \in 1..Len(updates) :
           updates[i] \in Calls /\ call[updates[i]].at = "written" /\ updates[i] \notin folded
      /\ \A i \in 1..Len(updates) : \A j \in 1..Len(updates) : updates[i] = updates[j] => i = j
      /\ \A d \in folded : call[d].at = "written"
  BY DEF SessionsInv, Once
<1>3. PICK c : c = Head(updates)
  OBVIOUS
<1>4. c \in Calls /\ c = updates[1] /\ 1 \in 1..Len(updates) /\ c \notin folded
      /\ call[c].at = "written"
  BY <1>1, <1>2, <1>3
<1>5. /\ updates' \in Seq(Calls) /\ Len(updates') = Len(updates) - 1
      /\ \A i \in 1..Len(updates') : updates'[i] = updates[i + 1] /\ i + 1 \in 1..Len(updates)
  BY <1>1, <1>2
<1>6. CallsOK'
  BY <1>1 DEF SessionsInv, CallsOK
<1>7. /\ \A i \in 1..Len(updates') :
           call[updates'[i]].at = "written" /\ updates'[i] \notin folded /\ updates'[i] # c
      /\ \A i \in 1..Len(updates') : \A j \in 1..Len(updates') : updates'[i] = updates'[j] => i = j
  <2>1. \A i \in 1..Len(updates') :
           call[updates'[i]].at = "written" /\ updates'[i] \notin folded /\ updates'[i] # c
    BY <1>2, <1>4, <1>5
  <2>2. ASSUME NEW i \in 1..Len(updates'), NEW j \in 1..Len(updates'), updates'[i] = updates'[j]
        PROVE  i = j
    BY <1>2, <1>5, <2>2
  <2>3. QED BY <2>1, <2>2
<1>8. CASE rollup' = UpsertSessionCall(rollup, call[Head(updates)])
           /\ folded' = folded \cup {Head(updates)}
  <2>1. Once'
    BY <1>1, <1>2, <1>3, <1>4, <1>5, <1>7, <1>8 DEF Once
  <2>2. \A d \in folded \cup {c} : call[d] \in Outcome
    BY <1>2, <1>4 DEF SessionsInv, CallsOK
  <2>3. RowOf(UpsertSessionCall(rollup, call[c]), call, folded \cup {c})
    BY <1>2, <1>4, <2>2, UpsertAdds DEF SessionsInv
  <2>4. QED BY <1>1, <1>3, <1>6, <1>8, <2>1, <2>3 DEF SessionsInv
<1>9. CASE UNCHANGED <<rollup, folded>>
  <2>1. Once'
    BY <1>1, <1>2, <1>5, <1>7, <1>9 DEF Once
  <2>2. QED BY <1>1, <1>6, <1>9, <2>1 DEF SessionsInv
<1>10. QED BY <1>8, <1>9 DEF FoldCall

LEMMA PruneSessionKeeps ==
    ASSUME SessionsInv, PruneSession
    PROVE  SessionsInv'
<1>1. rollup' = NoRow /\ folded' = {} /\ UNCHANGED <<call, updates, clock>>
  BY DEF PruneSession
<1>2. CallsOK'
  BY <1>1 DEF SessionsInv, CallsOK
<1>3. Once'
  BY <1>1 DEF SessionsInv, Once
<1>4. RowOf(rollup', call', folded')
  BY <1>1 DEF RowOf
<1>5. QED BY <1>2, <1>3, <1>4 DEF SessionsInv

LEMMA DieKeeps ==
    ASSUME SessionsInv, Die
    PROVE  SessionsInv'
<1>1. /\ call' = [c \in Calls |-> IF call[c].at = "written" THEN call[c]
                                  ELSE [call[c] EXCEPT !.at = "lost"]]
      /\ updates' = <<>> /\ UNCHANGED <<rollup, folded, clock>>
  BY DEF Die
<1>2. \A c \in Calls : call[c].at = "written" => call'[c] = call[c]
  BY <1>1
<1>3. \A c \in Calls : "at" \in DOMAIN call'[c]
        /\ (call'[c].at \in {"ended", "written"} => call'[c] \in Outcome)
  <2>1. TAKE c \in Calls
  <2>2. "at" \in DOMAIN call[c] /\ (call[c].at \in {"ended", "written"} => call[c] \in Outcome)
    BY DEF SessionsInv, CallsOK
  <2>3. CASE call[c].at = "written"
    BY <1>2, <2>2, <2>3
  <2>4. CASE call[c].at # "written"
    <3>1. PICK r : r = [call[c] EXCEPT !.at = "lost"]
      OBVIOUS
    <3>2. "at" \in DOMAIN r /\ r.at = "lost"
      BY <2>2, <3>1
    <3>3. call'[c] = r
      BY <1>1, <2>4, <3>1
    <3>4. QED BY <3>2, <3>3
  <2>5. QED BY <2>3, <2>4
<1>4. CallsOK'
  BY <1>1, <1>3 DEF SessionsInv, CallsOK
<1>5. Once'
  BY <1>1, <1>2 DEF SessionsInv, Once
<1>6. RowOf(rollup, call', folded)
  <2>1. folded \in SUBSET Calls /\ \A d \in folded : call[d] = call'[d]
    BY <1>2 DEF SessionsInv, Once
  <2>2. QED BY <2>1, RowOfSame DEF SessionsInv
<1>7. QED BY <1>1, <1>4, <1>5, <1>6 DEF SessionsInv

LEMMA SpentIsSum ==
    ASSUME NEW S \in SUBSET Calls
    PROVE  Spent(S) = SumOver(EndOf(call), S)
<1>1. IsFiniteSet(S)
  BY SessionsAssumption, FS_Subset
<1>2. PICK v, w : v = [c \in S |-> call[c].end] /\ w = EndOf(call)
  OBVIOUS
<1>3. \A c \in S : v[c] = w[c]
  BY <1>2 DEF EndOf
<1>4. SumOver(v, S) = SumOver(w, S)
  BY <1>1, <1>3, SumOverSame
<1>5. Spent(S) = SumOver(v, S)
  BY <1>2 DEF Spent, SumOver
<1>6. QED BY <1>2, <1>4, <1>5

(* The bounds of the row are the least and the greatest end. *)
LEMMA SessionsInvShows == SessionsInv => RollupIsOrderFree
<1> SUFFICES ASSUME SessionsInv PROVE RollupIsOrderFree
  OBVIOUS
<1>1. CASE folded = {}
  BY <1>1 DEF SessionsInv, RowOf, RollupIsOrderFree
<1>2. CASE folded # {}
  <2> DEFINE ends == {call[c].end : c \in folded}
  <2>1. /\ rollup.turns = Cardinality(Turns(call, folded))
        /\ rollup.errors = Cardinality(Failed(call, folded))
        /\ rollup.spend = SumOver(EndOf(call), folded)
        /\ rollup.utility = SumOver(EndOf(call), Utility(call, folded))
        /\ \A c \in folded : rollup.first <= call[c].end /\ call[c].end <= rollup.last
        /\ \E c \in folded : call[c].end = rollup.first
        /\ \E c \in folded : call[c].end = rollup.last /\ rollup.status = call[c].ok
        /\ rollup.subagents \in BOOLEAN
        /\ (rollup.subagents <=> \E c \in folded : call[c].sub)
    BY <1>2 DEF SessionsInv, RowOf
  <2>2. folded \in SUBSET Calls /\ Utility(call, folded) \in SUBSET Calls
    BY DEF SessionsInv, Once, Utility
  <2>3. \A c \in folded : call[c].end \in Nat
    BY DEF SessionsInv, Once, CallsOK, Outcome
  <2>4. rollup.first \in ends /\ rollup.last \in ends
    BY <2>1
  <2>5. \A t \in ends : t \in Nat /\ rollup.first <= t /\ t <= rollup.last
    BY <2>1, <2>3
  <2>6. Min(ends) \in ends /\ \A t \in ends : Min(ends) <= t
    <3> HIDE DEF ends
    <3>1. QED BY <2>4, <2>5 DEF Min
  <2>7. Max(ends) \in ends /\ \A t \in ends : Max(ends) >= t
    <3> HIDE DEF ends
    <3>1. QED BY <2>4, <2>5 DEF Max
  <2>8. rollup.first = Min(ends) /\ rollup.last = Max(ends)
    <3> HIDE DEF ends
    <3>1. QED BY <2>4, <2>5, <2>6, <2>7
  <2>9. Turns(call, folded) = folded \ Utility(call, folded)
    BY DEF Turns, Utility
  <2>10. /\ rollup.spend = Spent(folded) /\ rollup.utility = Spent(Utility(call, folded))
    BY <2>1, <2>2, SpentIsSum
  <2>11. \E c \in folded : call[c].end = Max(ends) /\ rollup.status = call[c].ok
    BY <2>1, <2>8
  <2>12. QED BY <1>2, <2>1, <2>8, <2>9, <2>10, <2>11 DEF RollupIsOrderFree, Utility, Failed
<1>3. QED BY <1>1, <1>2

(* The session list shows what the folded calls add up to, and the status of a
   call no other ended after: whatever the order in which request goroutines,
   ledger and fork delivered them, and whatever was lost on the way
   (UpsertSessionCall, sessions.go). *)
THEOREM RollupAddsUp == SessionsSpec => []RollupIsOrderFree
<1>1. SessionsInv /\ [SessionsNext]_sessionVars => SessionsInv'
  <2> SUFFICES ASSUME SessionsInv, [SessionsNext]_sessionVars PROVE SessionsInv'
    OBVIOUS
  <2>1. CASE UNCHANGED sessionVars
    <3>1. CallsOK' /\ Once' /\ RowOf(rollup', call', folded')
      BY <2>1 DEF sessionVars, SessionsInv, CallsOK, Once
    <3>2. QED BY <3>1 DEF SessionsInv
  <2>2. QED
    BY <2>1, EndCallKeeps, HandOverKeeps, FoldCallKeeps, PruneSessionKeeps, DieKeeps
    DEF SessionsNext
<1>2. QED BY <1>1, SessionsStart, SessionsInvShows, PTL DEF SessionsSpec

-----------------------------------------------------------------------------
(* Config.  Every change is followed by a reload that begins after it, and *)
(* a reload that began after the last change reads what the tables still   *)
(* say, so that the snapshot it stores is what they say of the vendors.    *)
(* Reloads that began before may store theirs at any time: liveBy tells.   *)

ConfigSpec == ConfigInit /\ [][ConfigNext]_configVars

Reading(a) == reload[a].at \in {"models", "endpoints", "proxies", "feed", "build"}

Tickets ==
    /\ newest \in Nat /\ liveBy \in 0..newest /\ changed \in 0..newest
    /\ \A a \in Actors : Reading(a) => reload[a].ticket \in 0..newest

InStep == DOMAIN models = DOMAIN rows /\ DOMAIN endpoints = DOMAIN rows

(* A reload and what it has read are records. *)
View(w) == [rows |-> w.rows, models |-> w.models, endpoints |-> w.endpoints,
            proxies |-> w.proxies, feed |-> w.feed]
Reloaded(at, ticket, w) == [at |-> at, ticket |-> ticket, view |-> View(w)]
Shaped ==
    /\ reload = [a \in Actors |-> reload[a]]
    /\ \A a \in Actors : reload[a] = Reloaded(reload[a].at, reload[a].ticket, reload[a].view)

Ranked(f) == DOMAIN f \subseteq DOMAIN IdRank

(* What a reload that stands at this place must have read of a store. *)
Agrees(view, at, store) ==
    /\ view.rows = store.rows
    /\ at # "models" => \A p \in DOMAIN store.rows : view.models[p] = store.models[p]
    /\ at \notin {"models", "endpoints"} =>
           \A p \in DOMAIN store.rows : view.endpoints[p] = store.endpoints[p]
    /\ at \in {"feed", "build"} => view.proxies = store.proxies
    /\ at = "build" => Ranked(view.feed) /\ SameRates(view.feed, store.feed)

Due == \E a \in Actors : reload[a].at = "due"

FreshReads ==
    \A a \in Actors : Reading(a) /\ reload[a].ticket > changed =>
        Agrees(reload[a].view, reload[a].at, Stored)

LiveIsCurrent ==
    liveBy > changed /\ Builds(Stored, Sources(release, feedPrices))
        => live = Vendors(Stored, Sources(release, feedPrices))

ConfigInv ==
    /\ Shaped /\ Tickets /\ InStep /\ Ranked(feedPrices)
    /\ FreshReads /\ LiveIsCurrent
    /\ Due \/ lapse \/ newest > changed

-----------------------------------------------------------------------------
(* The build depends on rates and tables, not on how they were read. *)

LEMMA SameLists ==
  ASSUME NEW f, NEW g, SameRates(f, g)
  PROVE  /\ \A id, m : Lists(f, id, m) <=> Lists(g, id, m)
         /\ \A id, m : Lists(f, id, m) => f[id][m] = g[id][m]
  <1>1. \A h, id, m : Lists(h, id, m) <=> <<id, m>> \in Rows(h)
    BY DEF Lists, Rows
  <1>2. QED
    BY <1>1 DEF SameRates

LEMMA SameFinds ==
  ASSUME NEW f, NEW g, SameRates(f, g), NEW id, NEW m
  PROVE  /\ Finds(f, id, m) <=> Finds(g, id, m)
         /\ Finds(f, id, m) => Rate(f, id, m) = Rate(g, id, m)
  BY SameLists DEF Finds, Rate

(* A set of ranked ids has a first one, makers before re-hosts. *)
First(S) == CHOOSE id \in S : \A other \in S \ {id} : Before(id, other)

LEMMA LeastRank ==
  ASSUME NEW S, S # {}, S \subseteq DOMAIN IdRank
  PROVE  \E id \in S : \A other \in S \ {id} : IdRank[id] < IdRank[other]
  <1> DEFINE B == {IdRank[id] : id \in S}
  <1>1. B \subseteq Nat /\ B # {}
    BY PricingAssumption
  <1>2. PICK n \in B : \A m \in B : n <= m
    <2> HIDE DEF B
    <2>1. QED
      BY <1>1, LeastNatural
  <1>3. PICK id \in S : IdRank[id] = n
    OBVIOUS
  <1>4. ASSUME NEW other \in S \ {id} PROVE IdRank[id] < IdRank[other]
    <2>1. IdRank[other] \in B /\ IdRank[other] \in Nat /\ IdRank[id] \in Nat
      BY PricingAssumption
    <2>2. n <= IdRank[other]
      BY <1>2, <2>1
    <2>3. IdRank[id] # IdRank[other]
      BY PricingAssumption
    <2>4. QED
      BY <1>3, <2>1, <2>2, <2>3
  <1>5. QED
    BY <1>4

LEMMA FirstInSet ==
  ASSUME NEW S, S # {}, S \subseteq DOMAIN IdRank
  PROVE  First(S) \in S
  <1>1. \E id \in S : \A other \in S \ {id} : Before(id, other)
    <2>1. CASE S \ Rehosts # {}
      <3>1. PICK id \in S \ Rehosts : \A other \in (S \ Rehosts) \ {id} : IdRank[id] < IdRank[other]
        <4>1. PICK T : T = S \ Rehosts
          OBVIOUS
        <4>2. T # {} /\ T \subseteq DOMAIN IdRank
          BY <2>1, <4>1
        <4>3. QED
          BY <4>1, <4>2, LeastRank
      <3>2. QED
        BY <3>1 DEF Before
    <2>2. CASE S \ Rehosts = {}
      <3>1. PICK id \in S : \A other \in S \ {id} : IdRank[id] < IdRank[other]
        BY LeastRank
      <3>2. QED
        BY <2>2, <3>1 DEF Before
    <2>3. QED
      BY <2>1, <2>2
  <1>2. QED
    BY <1>1 DEF First

LEMMA GuessIsFirst ==
  ASSUME NEW f, NEW m
  PROVE  Guess(f, m) = Rate(f, First(Guesses(f, m)), m)
  BY DEF Guess, First

LEMMA SameGuess ==
  ASSUME NEW f, NEW g, SameRates(f, g), Ranked(f), NEW m
  PROVE  /\ Guesses(f, m) = Guesses(g, m)
         /\ Guesses(f, m) # {} => Guess(f, m) = Guess(g, m)
  <1>1. ASSUME NEW id PROVE id \in Guesses(f, m) <=> id \in Guesses(g, m)
    <2>1. Finds(f, id, m) => id \in DOMAIN f /\ id \in DOMAIN g
      BY SameLists DEF Finds, Lists
    <2>2. Finds(g, id, m) => id \in DOMAIN f /\ id \in DOMAIN g
      BY SameLists DEF Finds, Lists
    <2>3. QED
      BY <2>1, <2>2, SameFinds DEF Guesses
  <1>2. Guesses(f, m) = Guesses(g, m)
    BY <1>1
  <1>3. ASSUME Guesses(f, m) # {} PROVE Guess(f, m) = Guess(g, m)
    <2>1. PICK S : S = Guesses(f, m)
      OBVIOUS
    <2>2. S \subseteq DOMAIN IdRank
      BY <2>1 DEF Guesses, Ranked
    <2>3. First(S) \in S
      BY <1>3, <2>1, <2>2, FirstInSet
    <2>4. PICK id : id = First(S)
      OBVIOUS
    <2>5. Finds(f, id, m)
      BY <2>1, <2>3, <2>4 DEF Guesses
    <2>6. Rate(f, id, m) = Rate(g, id, m)
      BY <2>5, SameFinds
    <2>7. QED
      BY <1>2, <2>1, <2>4, <2>6, GuessIsFirst
  <1>4. QED
    BY <1>2, <1>3

(* Sources that differ only in how the feed's rates are laid out. *)
SameSources(s, t) ==
    /\ s.pinned = t.pinned /\ s.catalog = t.catalog
    /\ Ranked(s.feed) /\ SameRates(s.feed, t.feed)

LEMMA SamePrice ==
  ASSUME NEW s, NEW t, SameSources(s, t), NEW id, NEW m, NEW row
  PROVE  EffectivePrice(id, m, row, s) = EffectivePrice(id, m, row, t)
  <1>1. PICK f, g : f = s.feed /\ g = t.feed
    OBVIOUS
  <1>2. SameRates(f, g) /\ Ranked(f)
    BY <1>1 DEF SameSources
  <1>3. /\ Finds(f, id, m) <=> Finds(g, id, m)
        /\ Finds(f, id, m) => Rate(f, id, m) = Rate(g, id, m)
        /\ Guesses(f, m) = Guesses(g, m)
        /\ Guesses(f, m) # {} => Guess(f, m) = Guess(g, m)
    BY <1>2, SameFinds, SameGuess
  <1>4. QED
    BY <1>1, <1>3 DEF EffectivePrice, SameSources

LEMMA SameTable ==
  ASSUME NEW s, NEW t, SameSources(s, t), NEW id, NEW list
  PROVE  PriceTable(id, list, s) = PriceTable(id, list, t)
  <1>1. [m \in DOMAIN list |-> EffectivePrice(id, m, list[m], s)]
          = [m \in DOMAIN list |-> EffectivePrice(id, m, list[m], t)]
    BY SamePrice
  <1>2. QED
    BY <1>1 DEF PriceTable

(* A provider's vendors, from what was read of it. *)
VendorsOf(p, row, list, eps, prices, settings) ==
    {[name |-> VendorName(row.name, Groups(eps), g),
      provider |-> p, origin |-> g.origin, adapter |-> g.adapter,
      wires |-> {w \in Known(eps) : eps[w].origin = g.origin /\ eps[w].adapter = g.adapter},
      routes |-> [m \in DOMAIN list |-> RouteOf(row, list[m])], prices |-> prices,
      proxy |-> IF row.proxy = NoProxy THEN NoProxy ELSE settings[row.proxy]] :
         g \in Groups(eps)}

LEMMA VendorsFromIs ==
  ASSUME NEW p, NEW view, NEW src
  PROVE  VendorsFrom(p, view, src)
           = VendorsOf(p, view.rows[p], view.models[p], view.endpoints[p],
                       PriceTable(view.rows[p].catalog, view.models[p], src), view.proxies)
  BY DEF VendorsFrom, VendorsOf

LEMMA SameVendors ==
  ASSUME NEW v, NEW w, NEW s, NEW t, SameSources(s, t),
         v.rows = w.rows, v.proxies = w.proxies,
         \A p \in DOMAIN w.rows : v.models[p] = w.models[p] /\ v.endpoints[p] = w.endpoints[p]
  PROVE  Vendors(v, s) = Vendors(w, t) /\ (Builds(v, s) <=> Builds(w, t))
  <1>1. Complete(v) = Complete(w) /\ Complete(w) \subseteq DOMAIN w.rows
    BY DEF Complete, Skipped
  <1>2. ASSUME NEW p \in Complete(w) PROVE VendorsFrom(p, v, s) = VendorsFrom(p, w, t)
    <2>1. v.models[p] = w.models[p] /\ v.endpoints[p] = w.endpoints[p]
      BY <1>1
    <2>2. PriceTable(v.rows[p].catalog, v.models[p], s) = PriceTable(w.rows[p].catalog, w.models[p], t)
      BY <2>1, SameTable
    <2>3. QED
      BY <2>1, <2>2, VendorsFromIs
  <1>3. Vendors(v, s) = Vendors(w, t)
    BY <1>1, <1>2 DEF Vendors
  <1>4. ProxiesResolve(v) <=> ProxiesResolve(w)
    BY <1>1 DEF ProxiesResolve
  <1>5. QED
    BY <1>3, <1>4 DEF Builds

-----------------------------------------------------------------------------
(* A refresh that moves nothing and drops nothing leaves the same rates. *)

LEMMA ListsInRows ==
  ASSUME NEW f, NEW id, NEW m
  PROVE  <<id, m>> \in Rows(f) <=> Lists(f, id, m)
  BY DEF Lists, Rows

LEMMA RowsArePairs ==
  ASSUME NEW f, NEW r \in Rows(f)
  PROVE  r = <<r[1], r[2]>>
  BY DEF Rows

LEMMA PlausibleRates ==
  ASSUME NEW f, NEW r \in Rows(Plausible(f))
  PROVE  Plausible(f)[r[1]][r[2]] = f[r[1]][r[2]]
  <1>1. Lists(Plausible(f), r[1], r[2])
    BY RowsArePairs, ListsInRows
  <1>2. QED
    BY <1>1 DEF Lists, Plausible

LEMMA RefreshKeepsRates ==
  ASSUME NEW previous, NEW generated, Moved(previous, generated) = {},
         Rows(previous) \cap Implausible(generated) = {}
  PROVE  SameRates(previous, Plausible(generated))
  <1>1. ASSUME NEW r \in Rows(Plausible(generated))
        PROVE  r \in Rows(previous) /\ previous[r[1]][r[2]] = generated[r[1]][r[2]]
    BY DEF Moved, Rewritten
  <1>2. ASSUME NEW r \in Rows(previous) PROVE r \in Rows(Plausible(generated))
    BY DEF Moved, Implausible
  <1>3. QED
    BY <1>1, <1>2, PlausibleRates DEF SameRates

LEMMA SameRatesCompose ==
  ASSUME NEW f, NEW g, NEW h, SameRates(f, g), SameRates(g, h)
  PROVE  SameRates(f, h)
  BY DEF SameRates

LEMMA RefreshIsRanked ==
  ASSUME NEW upstream, NEW pinned
  PROVE  Ranked(Plausible(Generate(upstream, pinned)))
  BY PricingAssumption DEF Ranked, Plausible, Generate

LEMMA SourcesFollowRates ==
  ASSUME NEW f, NEW g, NEW rel, Ranked(f), SameRates(f, g)
  PROVE  SameSources(Sources(rel, f), Sources(rel, g))
  BY DEF SameSources, Sources

(* What a finished reload builds is what the store it agrees with says. *)
LEMMA AgreedBuild ==
  ASSUME NEW view, NEW store, Agrees(view, "build", store), NEW rel
  PROVE  /\ Vendors(view, Sources(rel, view.feed)) = Vendors(store, Sources(rel, store.feed))
         /\ Builds(view, Sources(rel, view.feed)) <=> Builds(store, Sources(rel, store.feed))
  <1>1. PICK s, t : s = Sources(rel, view.feed) /\ t = Sources(rel, store.feed)
    OBVIOUS
  <1>2. SameSources(s, t)
    BY <1>1, SourcesFollowRates DEF Agrees
  <1>3. QED
    BY <1>1, <1>2, SameVendors DEF Agrees

-----------------------------------------------------------------------------
(* Steps of a reload. *)

(* a's reload is at this place now, with this ticket and this view. *)
GoesTo(a, at, ticket, w) == reload' = [reload EXCEPT ![a] = Reloaded(at, ticket, w)]

LEMMA GoesToIs ==
  ASSUME Shaped, NEW a \in Actors, NEW at, NEW ticket, NEW w, GoesTo(a, at, ticket, w)
  PROVE  /\ Shaped'
         /\ reload'[a].at = at /\ reload'[a].ticket = ticket /\ reload'[a].view = View(w)
         /\ \A b \in Actors \ {a} : reload'[b] = reload[b]
  BY DEF Shaped, GoesTo, Reloaded, View

LEMMA RestsAt ==
  ASSUME NEW at
  PROVE  [NoReload EXCEPT !.at = at] = Reloaded(at, 0, NoView) /\ NoReload = Reloaded("idle", 0, NoView)
  BY DEF NoReload, Reloaded, View, NoView

LEMMA ReadsModels ==
  ASSUME NEW r, r = Reloaded(r.at, r.ticket, r.view), r.view = View(r.view), NEW j
  PROVE  [r EXCEPT !.at = "endpoints", !.view.models = j]
           = Reloaded("endpoints", r.ticket, [r.view EXCEPT !.models = j])
  <1>1. PICK w, n : w = r.view /\ n = r.ticket
    OBVIOUS
  <1>2. w = View(w) /\ r = [at |-> r.at, ticket |-> n, view |-> w]
    BY <1>1 DEF Reloaded
  <1>3. PICK x : x = [w EXCEPT !.models = j]
    OBVIOUS
  <1>4. x = View(x)
    BY <1>2, <1>3 DEF View
  <1>5. PICK q : q = [r EXCEPT !.at = "endpoints", !.view.models = j]
    OBVIOUS
  <1>6. q = [at |-> "endpoints", ticket |-> n, view |-> x]
    BY <1>1, <1>2, <1>3, <1>5
  <1>7. QED
    BY <1>1, <1>3, <1>4, <1>5, <1>6 DEF Reloaded

LEMMA ReadsEndpoints ==
  ASSUME NEW r, r = Reloaded(r.at, r.ticket, r.view), r.view = View(r.view), NEW j
  PROVE  [r EXCEPT !.at = "proxies", !.view.endpoints = j]
           = Reloaded("proxies", r.ticket, [r.view EXCEPT !.endpoints = j])
  <1>1. PICK w, n : w = r.view /\ n = r.ticket
    OBVIOUS
  <1>2. w = View(w) /\ r = [at |-> r.at, ticket |-> n, view |-> w]
    BY <1>1 DEF Reloaded
  <1>3. PICK x : x = [w EXCEPT !.endpoints = j]
    OBVIOUS
  <1>4. x = View(x)
    BY <1>2, <1>3 DEF View
  <1>5. PICK q : q = [r EXCEPT !.at = "proxies", !.view.endpoints = j]
    OBVIOUS
  <1>6. q = [at |-> "proxies", ticket |-> n, view |-> x]
    BY <1>1, <1>2, <1>3, <1>5
  <1>7. QED
    BY <1>1, <1>3, <1>4, <1>5, <1>6 DEF Reloaded

LEMMA ReadsProxies ==
  ASSUME NEW r, r = Reloaded(r.at, r.ticket, r.view), r.view = View(r.view), NEW j
  PROVE  [r EXCEPT !.at = "feed", !.view.proxies = j]
           = Reloaded("feed", r.ticket, [r.view EXCEPT !.proxies = j])
  <1>1. PICK w, n : w = r.view /\ n = r.ticket
    OBVIOUS
  <1>2. w = View(w) /\ r = [at |-> r.at, ticket |-> n, view |-> w]
    BY <1>1 DEF Reloaded
  <1>3. PICK x : x = [w EXCEPT !.proxies = j]
    OBVIOUS
  <1>4. x = View(x)
    BY <1>2, <1>3 DEF View
  <1>5. PICK q : q = [r EXCEPT !.at = "feed", !.view.proxies = j]
    OBVIOUS
  <1>6. q = [at |-> "feed", ticket |-> n, view |-> x]
    BY <1>1, <1>2, <1>3, <1>5
  <1>7. QED
    BY <1>1, <1>3, <1>4, <1>5, <1>6 DEF Reloaded

LEMMA ReadsFeed ==
  ASSUME NEW r, r = Reloaded(r.at, r.ticket, r.view), r.view = View(r.view), NEW j
  PROVE  [r EXCEPT !.at = "build", !.view.feed = j]
           = Reloaded("build", r.ticket, [r.view EXCEPT !.feed = j])
  <1>1. PICK w, n : w = r.view /\ n = r.ticket
    OBVIOUS
  <1>2. w = View(w) /\ r = [at |-> r.at, ticket |-> n, view |-> w]
    BY <1>1 DEF Reloaded
  <1>3. PICK x : x = [w EXCEPT !.feed = j]
    OBVIOUS
  <1>4. x = View(x)
    BY <1>2, <1>3 DEF View
  <1>5. PICK q : q = [r EXCEPT !.at = "build", !.view.feed = j]
    OBVIOUS
  <1>6. q = [at |-> "build", ticket |-> n, view |-> x]
    BY <1>1, <1>2, <1>3, <1>5
  <1>7. QED
    BY <1>1, <1>3, <1>4, <1>5, <1>6 DEF Reloaded

LEMMA ReadModelsGoes ==
  ASSUME Shaped, NEW a \in Actors, ReadModels(a)
  PROVE  GoesTo(a, "endpoints", reload[a].ticket, [reload[a].view EXCEPT !.models = Joined(a, models)])
  <1>1. PICK r, j : r = reload[a] /\ j = Joined(a, models)
    OBVIOUS
  <1>2. reload' = [reload EXCEPT ![a] = [r EXCEPT !.at = "endpoints", !.view.models = j]]
    BY <1>1 DEF ReadModels, Shaped
  <1>3. r = Reloaded(r.at, r.ticket, r.view) /\ r.view = View(r.view)
    BY <1>1 DEF Shaped, Reloaded
  <1>4. [r EXCEPT !.at = "endpoints", !.view.models = j]
          = Reloaded("endpoints", r.ticket, [r.view EXCEPT !.models = j])
    BY <1>3, ReadsModels
  <1>5. QED
    BY <1>1, <1>2, <1>4 DEF GoesTo

LEMMA ReadEndpointsGoes ==
  ASSUME Shaped, NEW a \in Actors, ReadEndpoints(a)
  PROVE  GoesTo(a, "proxies", reload[a].ticket, [reload[a].view EXCEPT !.endpoints = Joined(a, endpoints)])
  <1>1. PICK r, j : r = reload[a] /\ j = Joined(a, endpoints)
    OBVIOUS
  <1>2. reload' = [reload EXCEPT ![a] = [r EXCEPT !.at = "proxies", !.view.endpoints = j]]
    BY <1>1 DEF ReadEndpoints, Shaped
  <1>3. r = Reloaded(r.at, r.ticket, r.view) /\ r.view = View(r.view)
    BY <1>1 DEF Shaped, Reloaded
  <1>4. [r EXCEPT !.at = "proxies", !.view.endpoints = j]
          = Reloaded("proxies", r.ticket, [r.view EXCEPT !.endpoints = j])
    BY <1>3, ReadsEndpoints
  <1>5. QED
    BY <1>1, <1>2, <1>4 DEF GoesTo

LEMMA ReadProxiesGoes ==
  ASSUME Shaped, NEW a \in Actors, ReadProxies(a)
  PROVE  GoesTo(a, "feed", reload[a].ticket, [reload[a].view EXCEPT !.proxies = proxies])
  <1>1. PICK r, j : r = reload[a] /\ j = proxies
    OBVIOUS
  <1>2. reload' = [reload EXCEPT ![a] = [r EXCEPT !.at = "feed", !.view.proxies = j]]
    BY <1>1 DEF ReadProxies, Shaped
  <1>3. r = Reloaded(r.at, r.ticket, r.view) /\ r.view = View(r.view)
    BY <1>1 DEF Shaped, Reloaded
  <1>4. [r EXCEPT !.at = "feed", !.view.proxies = j]
          = Reloaded("feed", r.ticket, [r.view EXCEPT !.proxies = j])
    BY <1>3, ReadsProxies
  <1>5. QED
    BY <1>1, <1>2, <1>4 DEF GoesTo

LEMMA ReadFeedGoes ==
  ASSUME Shaped, NEW a \in Actors, ReadFeed(a)
  PROVE  \/ GoesTo(a, "build", reload[a].ticket, [reload[a].view EXCEPT !.feed = feedPrices])
         \/ GoesTo(a, "build", 0, reload[a].view)
  <1>1. PICK r, j : r = reload[a] /\ j = feedPrices
    OBVIOUS
  <1>2. \/ reload' = [reload EXCEPT ![a] = [r EXCEPT !.at = "build", !.view.feed = j]]
        \/ reload' = [reload EXCEPT ![a] = [r EXCEPT !.at = "build", !.ticket = 0]]
    BY <1>1 DEF ReadFeed, Shaped
  <1>3. r = Reloaded(r.at, r.ticket, r.view) /\ r.view = View(r.view)
    BY <1>1 DEF Shaped, Reloaded
  <1>4. [r EXCEPT !.at = "build", !.view.feed = j]
          = Reloaded("build", r.ticket, [r.view EXCEPT !.feed = j])
    BY <1>3, ReadsFeed
  <1>5. [r EXCEPT !.at = "build", !.ticket = 0] = Reloaded("build", 0, r.view)
    <2>1. PICK v, place, n : v = r.view /\ place = r.at /\ n = r.ticket
      OBVIOUS
    <2>2. v = View(v) /\ r = [at |-> place, ticket |-> n, view |-> v]
      BY <1>3, <2>1 DEF Reloaded
    <2>3. PICK q : q = [r EXCEPT !.at = "build", !.ticket = 0]
      OBVIOUS
    <2>4. q = [at |-> "build", ticket |-> 0, view |-> v]
      BY <2>2, <2>3
    <2>5. QED
      BY <2>1, <2>2, <2>3, <2>4 DEF Reloaded
  <1>6. QED
    BY <1>1, <1>2, <1>4, <1>5 DEF GoesTo

LEMMA TicketsStay ==
  ASSUME Shaped, Tickets, NEW a \in Actors, NEW at, NEW ticket, NEW w,
         GoesTo(a, at, ticket, w), ticket = 0 \/ (Reading(a) /\ ticket = reload[a].ticket),
         newest' = newest, liveBy' \in 0..newest, changed' \in 0..newest
  PROVE  Tickets'
  <1>1. reload'[a].ticket = ticket /\ \A b \in Actors \ {a} : reload'[b] = reload[b]
    BY GoesToIs
  <1>2. ticket \in 0..newest
    BY DEF Tickets
  <1>3. \A b \in Actors \ {a} : Reading(b)' => Reading(b)
    BY <1>1 DEF Reading
  <1>4. \A b \in Actors : Reading(b)' => reload'[b].ticket \in 0..newest
    BY <1>1, <1>2, <1>3 DEF Tickets
  <1>5. QED
    BY <1>4 DEF Tickets

LEMMA DueStays ==
  ASSUME Shaped, Due, NEW a \in Actors, reload[a].at # "due", NEW at, NEW ticket, NEW w,
         GoesTo(a, at, ticket, w)
  PROVE  Due'
  <1>1. \A b \in Actors \ {a} : reload'[b] = reload[b]
    BY GoesToIs
  <1>2. QED
    BY <1>1 DEF Due

(* A query of a reload: what it reads is what the tables hold. *)
LEMMA QueryKeeps ==
  ASSUME ConfigInv, NEW a \in Actors, Reading(a), NEW at, NEW ticket, NEW w,
         GoesTo(a, at, ticket, w),
         \/ ticket = 0
         \/ /\ ticket = reload[a].ticket
            /\ Agrees(reload[a].view, reload[a].at, Stored) => Agrees(View(w), at, Stored),
         UNCHANGED <<tables, release, live, newest, liveBy, changed, lapse>>
  PROVE  ConfigInv'
  <1>1. /\ Shaped /\ Tickets
        /\ newest' = newest /\ liveBy' \in 0..newest /\ changed' \in 0..newest
    BY DEF ConfigInv, Tickets
  <1>2. Shaped' /\ Tickets'
    <2>1. ticket = 0 \/ (Reading(a) /\ ticket = reload[a].ticket)
      OBVIOUS
    <2>2. Tickets'
      BY <1>1, <2>1, TicketsStay
    <2>3. QED
      BY <1>1, <2>2, GoesToIs
  <1>3. InStep' /\ Ranked(feedPrices)'
    BY DEF ConfigInv, InStep, Ranked, tables
  <1>4. (Due => Due') /\ (lapse => lapse') /\ (newest > changed => newest' > changed')
    BY DueStays DEF ConfigInv, Reading
  <1>5. PICK store : store = Stored
    OBVIOUS
  <1>6. Stored' = store
    BY <1>5 DEF Stored, tables
  <1>7. LiveIsCurrent'
    BY <1>5, <1>6 DEF ConfigInv, LiveIsCurrent, tables
  <1>8. ASSUME NEW b \in Actors, Reading(b)', reload'[b].ticket > changed
        PROVE  Agrees(reload'[b].view, reload'[b].at, store)
    <2>1. CASE b = a
      <3>1. /\ reload'[a].at = at /\ reload'[a].ticket = ticket /\ reload'[a].view = View(w)
        BY GoesToIs DEF ConfigInv
      <3>2. ticket # 0
        BY <1>1, <1>8, <2>1, <3>1
      <3>3. Agrees(reload[a].view, reload[a].at, store)
        BY <1>5, <1>8, <2>1, <3>1, <3>2 DEF FreshReads, ConfigInv
      <3>4. QED
        BY <1>5, <2>1, <3>1, <3>2, <3>3
    <2>2. CASE b # a
      BY <1>5, <1>8, <2>2, GoesToIs DEF FreshReads, ConfigInv, Reading
    <2>3. QED
      BY <2>1, <2>2
  <1>9. FreshReads'
    BY <1>6, <1>8 DEF FreshReads
  <1>10. QED
    BY <1>2, <1>3, <1>4, <1>7, <1>9 DEF ConfigInv

LEMMA JoinedIs ==
  ASSUME NEW a \in Actors, NEW table, DOMAIN table = DOMAIN rows, reload[a].view.rows = rows
  PROVE  \A p \in DOMAIN rows : Joined(a, table)[p] = table[p]
  BY DEF Joined

LEMMA ReadModelsKeeps ==
  ASSUME ConfigInv, NEW a \in Actors, ReadModels(a)
  PROVE  ConfigInv'
  <1>1. PICK v, j : v = reload[a].view /\ j = Joined(a, models)
    OBVIOUS
  <1>2. PICK w : w = [v EXCEPT !.models = j]
    OBVIOUS
  <1>3. GoesTo(a, "endpoints", reload[a].ticket, w) /\ v = View(v)
    BY <1>1, <1>2, ReadModelsGoes DEF ConfigInv, Shaped, Reloaded
  <1>4. reload[a].at = "models" /\ Reading(a)
    BY DEF ReadModels, Reading
  <1>5. View(w) = [rows |-> v.rows, models |-> j, endpoints |-> v.endpoints,
                   proxies |-> v.proxies, feed |-> v.feed]
    BY <1>2, <1>3 DEF View
  <1>6. ASSUME Agrees(v, "models", Stored) PROVE Agrees(View(w), "endpoints", Stored)
    <2>1. v.rows = rows
      BY <1>6 DEF Agrees, Stored
    <2>2. \A p \in DOMAIN rows : j[p] = models[p]
      BY <1>1, <2>1, JoinedIs DEF ConfigInv, InStep
    <2>3. QED
      BY <1>5, <2>1, <2>2 DEF Agrees, Stored
  <1>7. UNCHANGED <<tables, release, live, newest, liveBy, changed, lapse>>
    BY DEF ReadModels, history
  <1>8. QED
    BY <1>1, <1>3, <1>4, <1>6, <1>7, QueryKeeps

LEMMA ReadEndpointsKeeps ==
  ASSUME ConfigInv, NEW a \in Actors, ReadEndpoints(a)
  PROVE  ConfigInv'
  <1>1. PICK v, j : v = reload[a].view /\ j = Joined(a, endpoints)
    OBVIOUS
  <1>2. PICK w : w = [v EXCEPT !.endpoints = j]
    OBVIOUS
  <1>3. GoesTo(a, "proxies", reload[a].ticket, w) /\ v = View(v)
    BY <1>1, <1>2, ReadEndpointsGoes DEF ConfigInv, Shaped, Reloaded
  <1>4. reload[a].at = "endpoints" /\ Reading(a)
    BY DEF ReadEndpoints, Reading
  <1>5. View(w) = [rows |-> v.rows, models |-> v.models, endpoints |-> j,
                   proxies |-> v.proxies, feed |-> v.feed]
    BY <1>2, <1>3 DEF View
  <1>6. ASSUME Agrees(v, "endpoints", Stored) PROVE Agrees(View(w), "proxies", Stored)
    <2>1. v.rows = rows /\ \A p \in DOMAIN rows : v.models[p] = models[p]
      BY <1>6 DEF Agrees, Stored
    <2>2. \A p \in DOMAIN rows : j[p] = endpoints[p]
      BY <1>1, <2>1, JoinedIs DEF ConfigInv, InStep
    <2>3. QED
      BY <1>5, <2>1, <2>2 DEF Agrees, Stored
  <1>7. UNCHANGED <<tables, release, live, newest, liveBy, changed, lapse>>
    BY DEF ReadEndpoints, history
  <1>8. QED
    BY <1>1, <1>3, <1>4, <1>6, <1>7, QueryKeeps

LEMMA ReadProxiesKeeps ==
  ASSUME ConfigInv, NEW a \in Actors, ReadProxies(a)
  PROVE  ConfigInv'
  <1>1. PICK v, j : v = reload[a].view /\ j = proxies
    OBVIOUS
  <1>2. PICK w : w = [v EXCEPT !.proxies = j]
    OBVIOUS
  <1>3. GoesTo(a, "feed", reload[a].ticket, w) /\ v = View(v)
    BY <1>1, <1>2, ReadProxiesGoes DEF ConfigInv, Shaped, Reloaded
  <1>4. reload[a].at = "proxies" /\ Reading(a)
    BY DEF ReadProxies, Reading
  <1>5. View(w) = [rows |-> v.rows, models |-> v.models, endpoints |-> v.endpoints,
                   proxies |-> j, feed |-> v.feed]
    BY <1>2, <1>3 DEF View
  <1>6. ASSUME Agrees(v, "proxies", Stored) PROVE Agrees(View(w), "feed", Stored)
    <2>1. /\ v.rows = rows /\ \A p \in DOMAIN rows : v.models[p] = models[p]
          /\ \A p \in DOMAIN rows : v.endpoints[p] = endpoints[p]
      BY <1>6 DEF Agrees, Stored
    <2>2. QED
      BY <1>1, <1>5, <2>1 DEF Agrees, Stored
  <1>7. UNCHANGED <<tables, release, live, newest, liveBy, changed, lapse>>
    BY DEF ReadProxies, history
  <1>8. QED
    BY <1>1, <1>3, <1>4, <1>6, <1>7, QueryKeeps

(* A reload that could not read the rates counts for none. *)
LEMMA ReadFeedKeeps ==
  ASSUME ConfigInv, NEW a \in Actors, ReadFeed(a)
  PROVE  ConfigInv'
  <1>1. PICK v : v = reload[a].view
    OBVIOUS
  <1>2. PICK w : w = [v EXCEPT !.feed = feedPrices]
    OBVIOUS
  <1>3. reload[a].at = "feed" /\ Reading(a) /\ v = View(v)
    BY <1>1 DEF ReadFeed, Reading, ConfigInv, Shaped, Reloaded
  <1>4. UNCHANGED <<tables, release, live, newest, liveBy, changed, lapse>>
    BY DEF ReadFeed, history
  <1>5. CASE GoesTo(a, "build", reload[a].ticket, w)
    <2>1. View(w) = [rows |-> v.rows, models |-> v.models, endpoints |-> v.endpoints,
                     proxies |-> v.proxies, feed |-> feedPrices]
      BY <1>2, <1>3 DEF View
    <2>2. Ranked(feedPrices) /\ SameRates(feedPrices, feedPrices)
      BY DEF ConfigInv, SameRates
    <2>3. Agrees(v, "feed", Stored) => Agrees(View(w), "build", Stored)
      BY <2>1, <2>2 DEF Agrees, Stored
    <2>4. QED
      BY <1>1, <1>3, <1>4, <1>5, <2>3, QueryKeeps
  <1>6. CASE GoesTo(a, "build", 0, v)
    BY <1>3, <1>4, <1>6, QueryKeeps
  <1>7. QED
    BY <1>1, <1>2, <1>5, <1>6, ReadFeedGoes DEF ConfigInv

(* A reload that ends: its snapshot is current if it began after the last  *)
(* change, and otherwise nothing is said of it.                            *)
LEMMA EndKeeps ==
  ASSUME ConfigInv, NEW a \in Actors, Reading(a), GoesTo(a, "idle", 0, NoView),
         UNCHANGED <<tables, release, newest, changed, lapse>>,
         \/ UNCHANGED <<live, liveBy>>
         \/ /\ reload[a].at = "build" /\ liveBy' = reload[a].ticket
            /\ live' = Vendors(reload[a].view, Sources(release, reload[a].view.feed))
  PROVE  ConfigInv'
  <1>1. /\ reload'[a].at = "idle" /\ ~ Reading(a)'
        /\ \A b \in Actors \ {a} : reload'[b] = reload[b]
    BY GoesToIs DEF ConfigInv, Reading
  <1>2. Shaped' /\ InStep' /\ Ranked(feedPrices)'
    BY GoesToIs DEF ConfigInv, InStep, Ranked, tables
  <1>3. Tickets'
    <2>1. /\ Shaped /\ Tickets
          /\ newest' = newest /\ liveBy' \in 0..newest /\ changed' \in 0..newest
      BY DEF ConfigInv, Tickets
    <2>2. QED
      BY <2>1, TicketsStay
  <1>4. (Due => Due') /\ (lapse => lapse') /\ (newest > changed => newest' > changed')
    BY DueStays DEF ConfigInv, Reading
  <1>5. PICK store : store = Stored
    OBVIOUS
  <1>6. Stored' = store /\ feedPrices' = feedPrices /\ store.feed = feedPrices
    BY <1>5 DEF Stored, tables
  <1>7. FreshReads'
    <2>1. ASSUME NEW b \in Actors, Reading(b)', reload'[b].ticket > changed
          PROVE  Agrees(reload'[b].view, reload'[b].at, store)
      BY <1>1, <1>5, <2>1 DEF FreshReads, Reading, ConfigInv
    <2>2. QED
      BY <1>6, <2>1 DEF FreshReads
  <1>8. LiveIsCurrent'
    <2>1. CASE UNCHANGED <<live, liveBy>>
      BY <1>5, <1>6, <2>1 DEF ConfigInv, LiveIsCurrent
    <2>2. CASE /\ reload[a].at = "build" /\ liveBy' = reload[a].ticket
               /\ live' = Vendors(reload[a].view, Sources(release, reload[a].view.feed))
      <3>1. CASE reload[a].ticket > changed
        <4>1. Agrees(reload[a].view, "build", store)
          BY <1>5, <2>2, <3>1 DEF FreshReads, ConfigInv
        <4>2. live' = Vendors(store, Sources(release, store.feed))
          BY <2>2, <4>1, AgreedBuild
        <4>3. QED
          BY <1>6, <4>2 DEF LiveIsCurrent
      <3>2. CASE ~ (reload[a].ticket > changed)
        BY <2>2, <3>2 DEF LiveIsCurrent
      <3>3. QED
        BY <3>1, <3>2
    <2>3. QED
      BY <2>1, <2>2
  <1>9. QED
    BY <1>2, <1>3, <1>4, <1>7, <1>8 DEF ConfigInv

LEMMA StoreKeeps ==
  ASSUME ConfigInv, NEW a \in Actors, Store(a) \/ ReloadFails(a)
  PROVE  ConfigInv'
  <1>1. Reading(a) /\ GoesTo(a, "idle", 0, NoView)
    BY RestsAt DEF Store, ReloadFails, Reading, GoesTo
  <1>2. UNCHANGED <<tables, release, newest, changed, lapse>>
    BY DEF Store, ReloadFails, history
  <1>3. \/ UNCHANGED <<live, liveBy>>
        \/ /\ reload[a].at = "build" /\ liveBy' = reload[a].ticket
           /\ live' = Vendors(reload[a].view, Sources(release, reload[a].view.feed))
    BY DEF Store, ReloadFails, history
  <1>4. QED
    BY <1>1, <1>2, <1>3, EndKeeps

(* A reload that begins reads what the tables say now. *)
LEMMA ReadProvidersKeeps ==
  ASSUME ConfigInv, NEW a \in Actors, ReadProviders(a)
  PROVE  ConfigInv'
  <1>1. PICK place, w :
          /\ place = IF rows = Empty THEN "proxies" ELSE "models"
          /\ w = [NoView EXCEPT !.rows = rows]
    OBVIOUS
  <1>2. View(w) = w /\ w.rows = rows
    BY <1>1 DEF View, NoView
  <1>3. GoesTo(a, place, newest + 1, w)
    BY <1>1, <1>2 DEF ReadProviders, GoesTo, Reloaded
  <1>4. /\ UNCHANGED <<tables, release, live, liveBy, changed>>
        /\ newest' = newest + 1
    BY DEF ReadProviders
  <1>5. /\ reload'[a].at = place /\ reload'[a].ticket = newest + 1 /\ reload'[a].view = w
        /\ \A b \in Actors \ {a} : reload'[b] = reload[b]
        /\ Shaped'
    BY <1>2, <1>3, GoesToIs DEF ConfigInv
  <1>6. InStep' /\ Ranked(feedPrices)'
    BY <1>4 DEF ConfigInv, InStep, Ranked, tables
  <1>7. newest \in Nat /\ liveBy \in 0..newest /\ changed \in 0..newest
    BY DEF ConfigInv, Tickets
  <1>8. ASSUME NEW b \in Actors, b # a, Reading(b)'
        PROVE  Reading(b) /\ reload'[b] = reload[b] /\ reload[b].ticket \in 0..newest
    BY <1>5, <1>8 DEF Reading, ConfigInv, Tickets
  <1>9. Tickets'
    <2>1. ASSUME NEW b \in Actors, Reading(b)' PROVE reload'[b].ticket \in 0..(newest + 1)
      <3>1. CASE b = a
        BY <1>5, <1>7, <3>1
      <3>2. CASE b # a
        BY <1>7, <1>8, <2>1, <3>2
      <3>3. QED
        BY <3>1, <3>2
    <2>2. QED
      BY <1>4, <1>7, <2>1 DEF Tickets
  <1>10. PICK store : store = Stored
    OBVIOUS
  <1>11. Stored' = store /\ store.rows = rows
    BY <1>4, <1>10 DEF Stored, tables
  <1>12. FreshReads'
    <2>1. ASSUME NEW b \in Actors, Reading(b)', reload'[b].ticket > changed
          PROVE  Agrees(reload'[b].view, reload'[b].at, store)
      <3>1. CASE b = a
        <4>1. rows = Empty => DOMAIN rows = {}
          BY DEF Empty
        <4>2. QED
          BY <1>1, <1>2, <1>5, <1>11, <3>1, <4>1 DEF Agrees
      <3>2. CASE b # a
        BY <1>8, <1>10, <2>1, <3>2 DEF FreshReads, ConfigInv
      <3>3. QED
        BY <3>1, <3>2
    <2>2. QED
      BY <1>4, <1>11, <2>1 DEF FreshReads
  <1>13. LiveIsCurrent'
    BY <1>4, <1>10, <1>11 DEF ConfigInv, LiveIsCurrent, tables
  <1>14. newest' > changed'
    BY <1>4, <1>7
  <1>15. QED
    BY <1>5, <1>6, <1>9, <1>12, <1>13, <1>14 DEF ConfigInv

-----------------------------------------------------------------------------
(* Steps of the writers. *)

(* No reload began after what is changed now. *)
LEMMA ChangeIsNewest ==
  ASSUME ConfigInv, Tickets', UNCHANGED <<newest, liveBy>>, changed' = newest
  PROVE  FreshReads' /\ LiveIsCurrent'
  <1>1. newest \in Nat /\ liveBy \in 0..newest
    BY DEF ConfigInv, Tickets
  <1>2. LiveIsCurrent'
    BY <1>1 DEF LiveIsCurrent
  <1>3. ASSUME NEW b \in Actors, Reading(b)' PROVE ~ (reload'[b].ticket > changed')
    BY <1>1, <1>3 DEF Tickets
  <1>4. QED
    BY <1>2, <1>3 DEF FreshReads

(* After a commit a reload is due, or the change has lapsed. *)
LEMMA CommitKeeps ==
  ASSUME ConfigInv, NEW a \in Actors, Committed(a), reload[a].at = "idle", InStep'
  PROVE  ConfigInv'
  <1>1. Ranked(feedPrices)'
    BY DEF Committed, ConfigInv, Ranked
  <1>2. /\ Shaped /\ Tickets
        /\ newest' = newest /\ liveBy' \in 0..newest /\ changed' \in 0..newest
    BY DEF Committed, ConfigInv, Tickets
  <1>3. Shaped' /\ Tickets' /\ (Due' \/ lapse')
    <2>1. CASE reload' = [reload EXCEPT ![a] = [NoReload EXCEPT !.at = "due"]]
      <3>1. GoesTo(a, "due", 0, NoView)
        BY <2>1, RestsAt DEF GoesTo
      <3>2. Tickets'
        BY <1>2, <3>1, TicketsStay
      <3>3. Shaped' /\ reload'[a].at = "due"
        BY <1>2, <3>1, GoesToIs
      <3>4. QED
        BY <3>2, <3>3 DEF Due
    <2>2. CASE lapse' = TRUE /\ UNCHANGED reload
      BY <1>2, <2>2 DEF ConfigInv, Shaped, Tickets, Reading
    <2>3. QED
      BY <2>1, <2>2 DEF Committed
  <1>4. FreshReads' /\ LiveIsCurrent'
    BY <1>3, ChangeIsNewest DEF Committed
  <1>5. QED
    BY <1>1, <1>3, <1>4 DEF ConfigInv

LEMMA EditKeeps ==
  ASSUME ConfigInv, NEW a \in Admins,
         \/ CreateProvider(a) \/ UpdateProvider(a) \/ DeleteProvider(a) \/ PatchRouting(a)
         \/ SetProxy(a) \/ DeleteProxy(a)
  PROVE  ConfigInv'
  <1>1. a \in Actors /\ Committed(a) /\ reload[a].at = "idle"
    BY DEF Actors, CreateProvider, UpdateProvider, DeleteProvider, PatchRouting, SetProxy,
           DeleteProxy, CanEdit
  <1>2. InStep
    BY DEF ConfigInv
  <1>3. InStep'
    <2>1. CASE CreateProvider(a)
      BY <1>2, <2>1 DEF InStep, CreateProvider, Put
    <2>2. CASE UpdateProvider(a)
      BY <1>2, <2>2 DEF InStep, UpdateProvider
    <2>3. CASE DeleteProvider(a)
      BY <1>2, <2>3 DEF InStep, DeleteProvider, Without
    <2>4. CASE PatchRouting(a)
      BY <1>2, <2>4 DEF InStep, PatchRouting
    <2>5. CASE SetProxy(a) \/ DeleteProxy(a)
      BY <1>2, <2>5 DEF InStep, SetProxy, DeleteProxy
    <2>6. QED
      BY <2>1, <2>2, <2>3, <2>4, <2>5
  <1>4. QED
    BY <1>1, <1>3, CommitKeeps

(* Rates that are what they were leave what a reload has read, and the     *)
(* snapshot, as current as they were.                                      *)
LEMMA SameRatesKeep ==
  ASSUME ConfigInv, SameRates(feedPrices, feedPrices'), Ranked(feedPrices'),
         UNCHANGED <<rows, models, endpoints, proxies, release, live, liveBy, changed>>,
         \A b \in Actors : Reading(b)' => Reading(b) /\ reload'[b] = reload[b]
  PROVE  FreshReads' /\ LiveIsCurrent'
  <1>1. PICK old, new : old = Stored /\ new = Stored'
    OBVIOUS
  <1>2. /\ old.rows = new.rows /\ old.models = new.models /\ old.endpoints = new.endpoints
        /\ old.proxies = new.proxies /\ old.feed = feedPrices /\ new.feed = feedPrices'
    BY <1>1 DEF Stored
  <1>3. ASSUME NEW view, NEW at, Agrees(view, at, old) PROVE Agrees(view, at, new)
    BY <1>2, <1>3, SameRatesCompose DEF Agrees
  <1>4. FreshReads'
    <2>1. ASSUME NEW b \in Actors, Reading(b)', reload'[b].ticket > changed
          PROVE  Agrees(reload'[b].view, reload'[b].at, new)
      BY <1>1, <1>3, <2>1 DEF FreshReads, ConfigInv
    <2>2. QED
      BY <1>1, <2>1 DEF FreshReads
  <1>5. PICK s, t : s = Sources(release, feedPrices) /\ t = Sources(release, feedPrices')
    OBVIOUS
  <1>6. SameSources(s, t)
    BY <1>5, SourcesFollowRates DEF ConfigInv
  <1>7. Vendors(old, s) = Vendors(new, t) /\ (Builds(old, s) <=> Builds(new, t))
    BY <1>2, <1>6, SameVendors
  <1>8. LiveIsCurrent'
    BY <1>1, <1>5, <1>7 DEF LiveIsCurrent, ConfigInv
  <1>9. QED
    BY <1>4, <1>8

(* A refresh leaves a reload due unless the rates are what they were. *)
LEMMA RefreshKeeps ==
  ASSUME ConfigInv, Refresh
  PROVE  ConfigInv'
  <1>1. PICK upstream \in Quotes :
          LET generated == Generate(upstream, Catalogues[release].manual)
              moved == Moved(feedPrices, generated)
          IN  /\ Rows(Plausible(generated)) # {}
              /\ feedPrices' = Plausible(generated)
              /\ changed' = IF SameRates(feedPrices, feedPrices') THEN changed ELSE newest
              /\ reload' = IF moved = {} THEN reload
                           ELSE [reload EXCEPT ![Refresher] = [NoReload EXCEPT !.at = "due"]]
              /\ lapse' = (lapse \/ (moved = {} /\ Rows(feedPrices) \cap Implausible(generated) # {}))
    BY DEF Refresh
  <1>2. PICK generated : generated = Generate(upstream, Catalogues[release].manual)
    OBVIOUS
  <1>3. /\ feedPrices' = Plausible(generated)
        /\ changed' = IF SameRates(feedPrices, feedPrices') THEN changed ELSE newest
    BY <1>1, <1>2
  <1>4. Ranked(feedPrices')
    BY <1>2, <1>3, RefreshIsRanked
  <1>5. /\ UNCHANGED <<rows, models, endpoints, proxies, release, live, newest, liveBy>>
        /\ Refresher \in Actors
    BY DEF Refresh, Actors
  <1>6. InStep'
    BY <1>5 DEF InStep, ConfigInv
  <1>7. /\ Shaped /\ Tickets
        /\ newest' = newest /\ liveBy' \in 0..newest /\ changed' \in 0..newest
    BY <1>3, <1>5 DEF ConfigInv, Tickets
  <1>8. /\ Shaped' /\ Tickets'
        /\ \A b \in Actors : Reading(b)' => Reading(b) /\ reload'[b] = reload[b]
        /\ Due' \/ lapse' \/ newest > changed'
    <2>1. CASE Moved(feedPrices, generated) # {}
      <3>1. GoesTo(Refresher, "due", 0, NoView)
        BY <1>1, <1>2, <2>1, RestsAt DEF GoesTo
      <3>2. Tickets'
        BY <1>5, <1>7, <3>1, TicketsStay
      <3>3. /\ Shaped' /\ reload'[Refresher].at = "due"
            /\ \A b \in Actors \ {Refresher} : reload'[b] = reload[b]
        BY <1>5, <1>7, <3>1, GoesToIs
      <3>4. QED
        BY <1>5, <3>2, <3>3 DEF Due, Reading
    <2>2. CASE Moved(feedPrices, generated) = {}
      <3>1. reload' = reload /\ lapse' = (lapse \/ Rows(feedPrices) \cap Implausible(generated) # {})
        BY <1>1, <1>2, <2>2
      <3>2. Shaped' /\ Tickets' /\ (Due => Due')
        BY <1>7, <3>1 DEF ConfigInv, Shaped, Tickets, Reading, Due
      <3>3. lapse' \/ SameRates(feedPrices, feedPrices')
        BY <1>3, <2>2, <3>1, RefreshKeepsRates
      <3>4. Due' \/ lapse' \/ newest > changed'
        BY <1>3, <3>1, <3>2, <3>3 DEF ConfigInv
      <3>5. QED
        BY <3>1, <3>2, <3>4 DEF Reading
    <2>3. QED
      BY <2>1, <2>2
  <1>9. FreshReads' /\ LiveIsCurrent'
    <2>1. CASE SameRates(feedPrices, feedPrices')
      <3>1. changed' = changed
        BY <1>3, <2>1
      <3>2. QED
        BY <1>4, <1>5, <1>8, <2>1, <3>1, SameRatesKeep
    <2>2. CASE ~ SameRates(feedPrices, feedPrices')
      <3>1. changed' = newest
        BY <1>3, <2>2
      <3>2. QED
        BY <1>5, <1>8, <3>1, ChangeIsNewest
    <2>3. QED
      BY <2>1, <2>2
  <1>10. QED
    BY <1>4, <1>6, <1>7, <1>8, <1>9 DEF ConfigInv

LEMMA Booted ==
  ASSUME NEW view, NEW src, Builds(view, src)
  PROVE  Boot(view, src) = Vendors(view, src)
  BY DEF Boot

LEMMA IdleActors ==
  ASSUME reload' = [a \in Actors |-> NoReload]
  PROVE  Shaped' /\ \A a \in Actors : ~ Reading(a)'
  BY RestsAt DEF Shaped, Reading, NoReload, Reloaded, View, NoView

LEMMA RestartKeeps ==
  ASSUME ConfigInv, Restart
  PROVE  ConfigInv'
  <1>1. Shaped' /\ \A a \in Actors : ~ Reading(a)'
    BY IdleActors DEF Restart
  <1>2. Tickets' /\ FreshReads' /\ newest' > changed'
    BY <1>1 DEF Restart, Tickets, FreshReads
  <1>3. InStep' /\ Ranked(feedPrices)'
    BY DEF Restart, ConfigInv, InStep, Ranked, tables
  <1>4. PICK store, src : store = Stored /\ src = Sources(release', feedPrices)
    OBVIOUS
  <1>5. live' = Boot(store, src) /\ Stored' = store /\ Sources(release', feedPrices') = src
    BY <1>4 DEF Restart, Stored, tables
  <1>6. Builds(store, src) => live' = Vendors(store, src)
    BY <1>5, Booted
  <1>7. LiveIsCurrent'
    BY <1>5, <1>6 DEF LiveIsCurrent
  <1>8. QED
    BY <1>1, <1>2, <1>3, <1>7 DEF ConfigInv

LEMMA ConfigStarts ==
  ASSUME ConfigInit
  PROVE  ConfigInv
  <1>1. Shaped /\ \A a \in Actors : ~ Reading(a)
    BY DEF ConfigInit, Shaped, Reading, NoReload, Reloaded, View, NoView
  <1>2. Tickets /\ FreshReads /\ newest > changed
    BY <1>1 DEF ConfigInit, Tickets, FreshReads
  <1>3. InStep /\ Ranked(feedPrices)
    BY TablesInStep, FeedIsRanked DEF ConfigInit, InStep, Ranked
  <1>4. PICK store, src : store = Stored /\ src = Sources(release, feedPrices)
    OBVIOUS
  <1>5. Builds(store, src) => live = Vendors(store, src)
    BY <1>4, Booted DEF ConfigInit
  <1>6. QED
    BY <1>1, <1>2, <1>3, <1>4, <1>5 DEF ConfigInv, LiveIsCurrent

LEMMA ConfigStep ==
  ASSUME ConfigInv, [ConfigNext]_configVars
  PROVE  ConfigInv'
  <1>1. CASE UNCHANGED configVars
    <2>1. UNCHANGED <<rows, models, endpoints, proxies, feedPrices, release, live, reload, newest,
                      liveBy, changed, lapse>>
      BY <1>1 DEF configVars, tables, history
    <2>2. PICK store, src : store = Stored /\ src = Sources(release, feedPrices)
      OBVIOUS
    <2>3. Stored' = store /\ Sources(release', feedPrices') = src
      BY <2>1, <2>2 DEF Stored
    <2>4. Shaped' /\ Tickets' /\ InStep' /\ Ranked(feedPrices)' /\ (Due => Due') /\ (lapse => lapse')
      BY <2>1 DEF ConfigInv, Shaped, Tickets, Reading, InStep, Ranked, Due
    <2>5. FreshReads'
      BY <2>1, <2>2, <2>3 DEF FreshReads, Reading, ConfigInv
    <2>6. LiveIsCurrent'
      BY <2>1, <2>2, <2>3 DEF LiveIsCurrent, ConfigInv
    <2>7. Due' \/ lapse' \/ newest' > changed'
      BY <2>1, <2>4 DEF ConfigInv
    <2>8. QED
      BY <2>4, <2>5, <2>6, <2>7 DEF ConfigInv
  <1>2. CASE ConfigNext
    BY <1>2, EditKeeps, RefreshKeeps, ReadProvidersKeeps, ReadModelsKeeps, ReadEndpointsKeeps,
       ReadProxiesKeeps, ReadFeedKeeps, StoreKeeps, RestartKeeps DEF ConfigNext
  <1>3. QED
    BY <1>1, <1>2

LEMMA ConfigInvariant == ConfigSpec => []ConfigInv
  <1>1. ConfigInit => ConfigInv
    BY ConfigStarts
  <1>2. ConfigInv /\ [ConfigNext]_configVars => ConfigInv'
    BY ConfigStep
  <1>3. QED
    BY <1>1, <1>2, PTL DEF ConfigSpec

(* Once edits, refreshes and reloads have come to rest, a reload began     *)
(* after the last change; and a snapshot whose reload did is what the      *)
(* tables say, whatever writes and reloads overlapped with it (manager.go  *)
(* Reload).  That the last to store is such a reload is not claimed, and   *)
(* not so: Reload takes no lock, and one that read before the last write   *)
(* may store after the reload of that write.                               *)
THEOREM SnapshotIsCurrent == ConfigSpec => []SnapshotFollowsChanges
  <1>1. ConfigInv => SnapshotFollowsChanges
    <2>1. Quiet => ~ Due
      BY DEF Quiet, Due
    <2>2. QED
      BY <2>1 DEF ConfigInv, SnapshotFollowsChanges, LiveIsCurrent
  <1>2. QED
    BY <1>1, ConfigInvariant, PTL

(* The vendors of a store, seen from a provider and a model. *)
LEMMA VendorTells ==
  ASSUME NEW p, NEW view, NEW src, NEW v \in VendorsFrom(p, view, src)
  PROVE  /\ v.provider = p /\ Known(view.endpoints[p]) # {}
         /\ DOMAIN v.routes = DOMAIN view.models[p]
         /\ \A m \in DOMAIN view.models[p] : v.routes[m] = RouteOf(view.rows[p], view.models[p][m])
  <1>1. PICK list, row, eps, prices, settings :
          /\ list = view.models[p] /\ row = view.rows[p] /\ eps = view.endpoints[p]
          /\ v \in VendorsOf(p, row, list, eps, prices, settings)
    BY VendorsFromIs
  <1>2. PICK g \in Groups(eps) :
          v = [name |-> VendorName(row.name, Groups(eps), g),
               provider |-> p, origin |-> g.origin, adapter |-> g.adapter,
               wires |-> {w \in Known(eps) : eps[w].origin = g.origin /\ eps[w].adapter = g.adapter},
               routes |-> [m \in DOMAIN list |-> RouteOf(row, list[m])], prices |-> prices,
               proxy |-> IF row.proxy = NoProxy THEN NoProxy ELSE settings[row.proxy]]
    BY <1>1 DEF VendorsOf
  <1>3. /\ v.provider = p /\ DOMAIN v.routes = DOMAIN list
        /\ \A m \in DOMAIN list : v.routes[m] = RouteOf(row, list[m])
    BY <1>2
  <1>4. Known(eps) # {}
    BY <1>2 DEF Groups
  <1>5. QED
    BY <1>1, <1>3, <1>4

LEMMA VendorExists ==
  ASSUME NEW p, NEW view, NEW src, Known(view.endpoints[p]) # {}
  PROVE  VendorsFrom(p, view, src) # {}
  <1>1. Groups(view.endpoints[p]) # {}
    BY DEF Groups
  <1>2. QED
    BY <1>1, VendorsFromIs DEF VendorsOf

Routed(view, src, p, m) == {v \in ByModel(Vendors(view, src), m) : v.provider = p}

LEMMA RoutedIs ==
  ASSUME NEW view, NEW src, NEW p \in DOMAIN view.rows, NEW m \in DOMAIN view.models[p],
         NEW routed, routed = Routed(view, src, p, m)
  PROVE  /\ Routable(view, p, m) <=> routed # {}
         /\ \A v \in routed : v.routes[m] = RouteOf(view.rows[p], view.models[p][m])
  <1>1. ASSUME NEW v \in routed
        PROVE  /\ p \in Complete(view) /\ Known(view.endpoints[p]) # {}
               /\ v.routes[m] = RouteOf(view.rows[p], view.models[p][m])
               /\ v.routes[m].on
    <2>1. v \in Vendors(view, src) /\ v.routes[m].on /\ v.provider = p
      BY DEF ByModel, Routed
    <2>2. PICK q \in Complete(view) : v \in VendorsFrom(q, view, src)
      BY <2>1 DEF Vendors
    <2>3. q = p
      BY <2>1, <2>2, VendorTells
    <2>4. QED
      BY <2>1, <2>2, <2>3, VendorTells
  <1>2. ASSUME routed # {} PROVE Routable(view, p, m)
    <2>1. PICK v \in routed : TRUE
      BY <1>2
    <2>2. view.models[p][m].on
      BY <1>1 DEF RouteOf
    <2>3. view.rows[p].enabled /\ view.rows[p].key /\ Known(view.endpoints[p]) # {}
      BY <1>1, <2>1 DEF Complete, Skipped
    <2>4. QED
      BY <2>2, <2>3 DEF Routable
  <1>3. ASSUME Routable(view, p, m) PROVE routed # {}
    <2>1. p \in Complete(view)
      <3>1. view.models[p] # <<>>
        OBVIOUS
      <3>2. QED
        BY <1>3, <3>1 DEF Complete, Skipped, Routable
    <2>2. PICK v \in VendorsFrom(p, view, src) : TRUE
      BY <1>3, VendorExists DEF Routable
    <2>3. v.provider = p /\ m \in DOMAIN v.routes /\ v.routes[m] = RouteOf(view.rows[p], view.models[p][m])
      BY <2>2, VendorTells
    <2>4. v.routes[m].on
      BY <1>3, <2>3 DEF Routable, RouteOf
    <2>5. v \in routed
      BY <2>1, <2>2, <2>3, <2>4 DEF Vendors, ByModel, Routed
    <2>6. QED
      BY <2>5
  <1>4. QED
    BY <1>1, <1>2, <1>3

(* What the services page calls routable is what the gateway routes, as    *)
(* the page shows it (services.go beside manager.go and snapshot.go).      *)
THEOREM PageShowsRouting == ConfigSpec => []RoutableMeansRouted
  <1>1. SnapshotFollowsChanges => RoutableMeansRouted
    <2> SUFFICES ASSUME SnapshotFollowsChanges, liveBy > changed,
                        Builds(Stored, Sources(release, feedPrices)),
                        NEW p \in DOMAIN rows, NEW m \in DOMAIN models[p]
                 PROVE  LET routed == {v \in ByModel(live, m) : v.provider = p} IN
                        /\ Routable(Stored, p, m) <=> routed # {}
                        /\ \A v \in routed : v.routes[m] = RouteOf(rows[p], models[p][m])
      BY DEF RoutableMeansRouted
    <2>1. PICK store, src : store = Stored /\ src = Sources(release, feedPrices)
      OBVIOUS
    <2>2. live = Vendors(store, src)
      BY <2>1 DEF SnapshotFollowsChanges
    <2>3. store.rows = rows /\ store.models = models
      BY <2>1 DEF Stored
    <2>4. PICK routed : routed = Routed(store, src, p, m)
      OBVIOUS
    <2>5. p \in DOMAIN store.rows /\ m \in DOMAIN store.models[p]
      BY <2>3
    <2>6. /\ Routable(store, p, m) <=> routed # {}
          /\ \A v \in routed : v.routes[m] = RouteOf(store.rows[p], store.models[p][m])
      BY <2>4, <2>5, RoutedIs
    <2>7. QED
      BY <2>1, <2>2, <2>3, <2>4, <2>6 DEF Routed
  <1>2. QED
    BY <1>1, SnapshotIsCurrent, PTL
-----------------------------------------------------------------------------
(* SocketMeter *)

SocketSpec == SocketInit /\ [][SocketNext]_socketVars

Transcripts == Seq(Frames)

(* The units of the first k frames. *)
Heads(fs) == [i \in DOMAIN fs |-> 1 + fs[i].len]
UpTo(fs, k) == SumOver(Heads(fs), 1..k)

LEMMA FrameTypes ==
    ASSUME NEW fs \in Transcripts
    PROVE  /\ Len(fs) \in Nat /\ DOMAIN fs = 1..Len(fs)
           /\ \A i \in 1..Len(fs) :
                /\ fs[i] \in Frames /\ fs[i].len \in Nat /\ fs[i].usage \in Nat
                /\ fs[i].fin \in BOOLEAN /\ fs[i].json \in BOOLEAN
                /\ fs[i].op \in {"binary", "continuation", "other"}
<1>1. Len(fs) \in Nat /\ DOMAIN fs = 1..Len(fs) /\ \A i \in 1..Len(fs) : fs[i] \in Frames
  <2> HIDE DEF Frames
  <2>1. QED BY DEF Transcripts
<1>2. \A f \in Frames : /\ f.len \in Nat /\ f.usage \in Nat
                        /\ f.fin \in BOOLEAN /\ f.json \in BOOLEAN
                        /\ f.op \in {"binary", "continuation", "other"}
  BY DEF Frames
<1>3. QED BY <1>1, <1>2

LEMMA UpToNext ==
    ASSUME NEW fs \in Transcripts
    PROVE  /\ UpTo(fs, 0) = 0
           /\ \A k \in 0..Len(fs) : UpTo(fs, k) \in Nat
           /\ \A k \in 0..(Len(fs) - 1) : UpTo(fs, k + 1) = UpTo(fs, k) + 1 + fs[k + 1].len
<1>1. PICK w : w = Heads(fs)
  OBVIOUS
<1>2. Len(fs) \in Nat /\ \A i \in 1..Len(fs) : w[i] = 1 + fs[i].len /\ w[i] \in Nat
  BY <1>1, FrameTypes DEF Heads
<1>3. SumOver(w, 1..0) = 0
  <2>1. 1..0 = {}
    OBVIOUS
  <2>2. QED BY <2>1, SumOverEmpty
<1>4. ASSUME NEW k \in 0..Len(fs) PROVE SumOver(w, 1..k) \in Nat /\ IsFiniteSet(1..k)
  <2>1. IsFiniteSet(1..k) /\ \A x \in 1..k : w[x] \in Nat
    BY <1>2, FS_Interval
  <2>2. QED BY <2>1, SumOverType
<1>5. ASSUME NEW k \in 0..(Len(fs) - 1)
      PROVE  SumOver(w, 1..(k + 1)) = SumOver(w, 1..k) + 1 + fs[k + 1].len
  <2>1. k \in 0..Len(fs) /\ k + 1 \in 0..Len(fs) /\ k + 1 \in 1..Len(fs)
    BY <1>2
  <2>2. PICK S, T : S = 1..(k + 1) /\ T = 1..k
    OBVIOUS
  <2>3. IsFiniteSet(S) /\ k + 1 \in S /\ S \ {k + 1} = T /\ \A y \in S : w[y] \in Nat
    <3>1. IsFiniteSet(S)
      BY <1>4, <2>1, <2>2
    <3>2. QED BY <1>2, <2>1, <2>2, <3>1
  <2>4. SumOver(w, S) = w[k + 1] + SumOver(w, T)
    BY <2>3, SumOverRemove
  <2>5. w[k + 1] = 1 + fs[k + 1].len /\ fs[k + 1].len \in Nat /\ SumOver(w, T) \in Nat
    BY <1>2, <1>4, <2>1, <2>2, FrameTypes
  <2>6. SumOver(w, S) = SumOver(w, T) + 1 + fs[k + 1].len
    BY <2>4, <2>5
  <2>7. QED BY <2>2, <2>6
<1>6. QED BY <1>1, <1>3, <1>4, <1>5 DEF UpTo

LEMMA UpToGrows ==
    ASSUME NEW fs \in Transcripts, NEW i \in 0..Len(fs), NEW j \in 0..Len(fs), i < j
    PROVE  UpTo(fs, i) + 1 + fs[i + 1].len <= UpTo(fs, j)
<1> DEFINE F(k) == UpTo(fs, k)
           B == {k \in 0..Len(fs) : i < k /\ ~(F(i) + 1 + fs[i + 1].len <= F(k))}
<1>1. Len(fs) \in Nat /\ fs[i + 1].len \in Nat
  BY FrameTypes
<1>2. (\A k \in 0..Len(fs) : F(k) \in Nat)
      /\ \A k \in 0..(Len(fs) - 1) : F(k + 1) = F(k) + 1 + fs[k + 1].len
  BY UpToNext
<1>3. SUFFICES ASSUME B # {} PROVE FALSE
  OBVIOUS
<1>4. PICK n \in B : \A m \in B : n <= m
  <2> HIDE DEF F
  <2>1. B \subseteq Nat
    BY <1>1
  <2> HIDE DEF B
  <2>2. QED BY <1>3, <2>1, LeastNatural
<1> HIDE DEF F
<1>5. CASE n = i + 1
  BY <1>1, <1>2, <1>4, <1>5
<1>6. CASE n # i + 1
  <2>1. n - 1 \in 0..(Len(fs) - 1) /\ i < n - 1 /\ n - 1 \notin B /\ n - 1 \in 0..Len(fs)
    BY <1>1, <1>4, <1>6
  <2>2. F(i) + 1 + fs[i + 1].len <= F(n - 1)
    BY <2>1
  <2>3. PICK p : p = n - 1
    OBVIOUS
  <2>4. n = p + 1 /\ p \in 0..(Len(fs) - 1) /\ n \in 1..Len(fs) /\ n \in 0..Len(fs)
    BY <1>1, <1>4, <2>1, <2>3
  <2>5. F(n) = F(p) + 1 + fs[n].len
    BY <1>2, <2>4
  <2>6. fs[n].len \in Nat /\ F(n) \in Nat /\ F(p) \in Nat /\ F(i) \in Nat
    BY <1>2, <2>1, <2>3, <2>4, FrameTypes
  <2>7. PICK a, b, c : a = F(i) + 1 + fs[i + 1].len /\ b = F(p) /\ c = F(n)
    OBVIOUS
  <2>8. a \in Nat /\ b \in Nat /\ c \in Nat /\ a <= b /\ b <= c
    BY <1>1, <2>2, <2>3, <2>5, <2>6, <2>7
  <2>9. a <= c
    BY <2>8
  <2>10. QED BY <1>4, <2>7, <2>9
<1>7. QED BY <1>5, <1>6

LEMMA UnitsUpTo ==
    ASSUME NEW fs \in Transcripts, NEW k \in 0..Len(fs)
    PROVE  Units(SubSeq(fs, 1, k)) = UpTo(fs, k) /\ Units(fs) = UpTo(fs, Len(fs))
<1>1. PICK p : p = SubSeq(fs, 1, k)
  OBVIOUS
<1>2. Len(fs) \in Nat /\ DOMAIN fs = 1..Len(fs) /\ DOMAIN p = 1..k /\ \A i \in 1..k : p[i] = fs[i]
  <2>1. fs \in Seq(Frames) /\ Len(fs) \in Nat /\ DOMAIN fs = 1..Len(fs)
    BY FrameTypes DEF Transcripts
  <2> HIDE DEF Frames
  <2>2. QED BY <1>1, <2>1
<1>3. PICK v, w : v = [i \in DOMAIN p |-> 1 + p[i].len] /\ w = Heads(fs)
  OBVIOUS
<1>4. \A i \in 1..k : v[i] = w[i]
  BY <1>2, <1>3 DEF Heads
<1>5. SumOver(v, 1..k) = SumOver(w, 1..k)
  <2>1. IsFiniteSet(1..k)
    BY <1>2, FS_Interval
  <2>2. QED BY <1>4, <2>1, SumOverSame
<1>6. Units(p) = SumOver(v, 1..k)
  BY <1>2, <1>3 DEF Units, SumOver
<1>7. Units(fs) = SumOver(w, 1..Len(fs))
  BY <1>2, <1>3 DEF Units, SumOver, Heads
<1>8. QED BY <1>1, <1>3, <1>5, <1>6, <1>7 DEF UpTo

-----------------------------------------------------------------------------
(* The channel: what the slabs in it add up to. *)

Cell(s) == [i \in 0..Len(s) |-> IF i = 0 THEN 0 ELSE s[i]]
Queue(s) == SumOver(Cell(s), 0..Len(s))

LEMMA QueueEmpty == Queue(<<>>) = 0
<1>1. PICK w : w = Cell(<<>>)
  OBVIOUS
<1>2. PICK S : S = 0..Len(<<>>)
  OBVIOUS
<1>3. IsFiniteSet(S) /\ \A x \in S : w[x] = 0
  <2>1. Len(<<>>) = 0
    OBVIOUS
  <2>2. S = {0}
    BY <1>2, <2>1
  <2>3. IsFiniteSet(S)
    BY <2>2, FS_Singleton
  <2>4. w[0] = 0
    BY <1>1, <2>1 DEF Cell
  <2>5. QED BY <2>2, <2>3, <2>4
<1>4. SumOver(w, S) = 0
  BY <1>3, SumOfZeros
<1>5. QED BY <1>1, <1>2, <1>4 DEF Queue

LEMMA QueueType ==
    ASSUME NEW s \in Seq(Nat)
    PROVE  Queue(s) \in Nat
<1>1. PICK w : w = Cell(s)
  OBVIOUS
<1>2. IsFiniteSet(0..Len(s)) /\ \A x \in 0..Len(s) : w[x] \in Nat
  <2>1. IsFiniteSet(0..Len(s))
    BY FS_Interval
  <2>2. QED BY <1>1, <2>1 DEF Cell
<1>3. QED BY <1>1, <1>2, SumOverType DEF Queue

LEMMA QueueAppend ==
    ASSUME NEW s \in Seq(Nat), NEW n \in Nat
    PROVE  Queue(Append(s, n)) = Queue(s) + n
<1>1. PICK v, w : v = Cell(s) /\ w = Cell(Append(s, n))
  OBVIOUS
<1>2. PICK k : k = Len(s)
  OBVIOUS
<1>3. k \in Nat /\ Len(Append(s, n)) = k + 1 /\ IsFiniteSet(0..k)
  BY <1>2, FS_Interval
<1>4. /\ \A x \in 0..k : w[x] = v[x] /\ w[x] \in Nat
      /\ w[k + 1] = n
  BY <1>1, <1>2, <1>3 DEF Cell
<1>5. SumOver(v, 0..k) = SumOver(w, 0..k)
  BY <1>3, <1>4, SumOverSame
<1>6. \A i \in 0..(k + 1) : w[i] \in Nat
  BY <1>3, <1>4
<1>7. SumOver(w, 0..(k + 1)) = w[k + 1] + SumOver(w, 0..k) /\ SumOver(w, 0..k) \in Nat
  <2>1. PICK m : m = k + 1
    OBVIOUS
  <2>2. m \in Nat /\ m - 1 = k /\ \A i \in 0..m : w[i] \in Nat
    BY <1>3, <1>6, <2>1
  <2>3. SumOver(w, 0..m) = w[m] + SumOver(w, 0..(m - 1)) /\ SumOver(w, 0..(m - 1)) \in Nat
    BY <2>2, SumUpTo
  <2>4. QED BY <2>1, <2>2, <2>3
<1>8. Queue(s) = SumOver(w, 0..k) /\ Queue(Append(s, n)) = SumOver(w, 0..(k + 1))
  BY <1>1, <1>2, <1>3, <1>5 DEF Queue
<1>9. QED BY <1>4, <1>7, <1>8

LEMMA QueueTail ==
    ASSUME NEW s \in Seq(Nat), s # <<>>
    PROVE  Queue(s) = Head(s) + Queue(Tail(s)) /\ Queue(Tail(s)) \in Nat /\ Head(s) \in Nat
<1>1. PICK n : n = Len(s) - 1
  OBVIOUS
<1>2. n \in Nat /\ Len(s) = n + 1 /\ Len(Tail(s)) = n /\ Tail(s) \in Seq(Nat)
      /\ (\A i \in 1..n : Tail(s)[i] = s[i + 1]) /\ (\A i \in 1..(n + 1) : s[i] \in Nat)
      /\ Head(s) = s[1]
  BY <1>1
<1>3. PICK v, u, t : v = Cell(s) /\ u = [i \in 0..n |-> s[i + 1]] /\ t = Cell(Tail(s))
  OBVIOUS
<1>4. /\ v[0] = 0 /\ \A i \in 1..(n + 1) : v[i] = u[i - 1]
      /\ \A i \in 0..n : u[i] \in Nat /\ t[i] \in Nat
      /\ \A i \in (0..n) \ {0} : t[i] = u[i]
      /\ t[0] = 0 /\ u[0] = s[1]
  BY <1>2, <1>3 DEF Cell
<1>5. SumOver(v, 0..(n + 1)) = SumOver(u, 0..n)
  <2>1. PICK m : m = n + 1
    OBVIOUS
  <2>2. m \in Nat /\ m - 1 = n /\ (\A i \in 1..m : v[i] = u[i - 1]) /\ \A i \in 0..(m - 1) : u[i] \in Nat
    BY <1>2, <1>4, <2>1
  <2>3. SumOver(v, 0..m) = SumOver(u, 0..(m - 1))
    BY <1>4, <2>2, SumShifted
  <2>4. QED BY <2>1, <2>2, <2>3
<1>6. IsFiniteSet(0..n) /\ 0 \in 0..n
  BY <1>2, FS_Interval
<1>7. SumOver(u, 0..n) + t[0] = SumOver(t, 0..n) + u[0]
  <2>1. PICK S : S = 0..n
    OBVIOUS
  <2>2. IsFiniteSet(S) /\ 0 \in S /\ (\A y \in S : t[y] \in Nat /\ u[y] \in Nat)
        /\ \A y \in S \ {0} : t[y] = u[y]
    BY <1>4, <1>6, <2>1
  <2>3. SumOver(u, S) + t[0] = SumOver(t, S) + u[0]
    BY <2>2, SumOverChange
  <2>4. QED BY <2>1, <2>3
<1>8. SumOver(u, 0..n) \in Nat /\ SumOver(t, 0..n) \in Nat
  BY <1>4, <1>6, SumOverType
<1>9. Queue(s) = SumOver(v, 0..(n + 1)) /\ Queue(Tail(s)) = SumOver(t, 0..n)
  BY <1>2, <1>3 DEF Queue
<1>10. QED BY <1>2, <1>4, <1>5, <1>7, <1>8, <1>9

-----------------------------------------------------------------------------
(* Messages: LastAt, SizeBy and Told are LastOf, SizeOf and the set of
   LatestUsage, of a session that is given. *)

Opens(fs, b) == fs[b].op = "binary" /\ ~fs[b].fin
Finishes(fs, j) == (fs[j].op = "continuation" /\ fs[j].fin) \/ (fs[j].op = "binary" /\ ~fs[j].fin)
EndsAfter(fs, i) == {j \in (i + 1)..Len(fs) : Finishes(fs, j)}
LastAt(fs, i) ==
    IF fs[i].fin THEN i
    ELSE IF EndsAfter(fs, i) = {} THEN Len(fs) + 1 ELSE Min(EndsAfter(fs, i))

Lens(fs) == [i \in DOMAIN fs |-> fs[i].len]
Pieces(fs, b, k) == {b} \cup {j \in (b + 1)..k : fs[j].op = "continuation"}
SizeBy(fs, b, k) == SumOver(Lens(fs), Pieces(fs, b, k))

States(fs, i) ==
    /\ fs[i].op = "binary" /\ fs[i].json /\ fs[i].usage # NoUsage
    /\ fs[i].fin \/ fs[LastAt(fs, i)].op = "continuation"
    /\ NibbleAt <= SizeBy(fs, i, LastAt(fs, i))
    /\ fs[i].fin \/ SizeBy(fs, i, LastAt(fs, i)) <= MaxJSONMessage

Told(fs, k) == {i \in 1..k : LastAt(fs, i) <= k /\ States(fs, i)}

Latest(fs, usage, k) ==
    \/ Told(fs, k) = {} /\ usage = Unknown
    \/ \E i \in Told(fs, k) :
          usage = fs[i].usage /\ \A j \in Told(fs, k) : LastAt(fs, j) <= LastAt(fs, i)

LEMMA LastIs ==
    ASSUME NEW fs \in Transcripts, NEW b \in 1..Len(fs)
    PROVE  /\ fs[b].fin => LastAt(fs, b) = b
           /\ ~fs[b].fin =>
                /\ LastAt(fs, b) \in (b + 1)..(Len(fs) + 1)
                /\ \A j \in (b + 1)..Len(fs) : Finishes(fs, j) => LastAt(fs, b) <= j
                /\ LastAt(fs, b) <= Len(fs) => Finishes(fs, LastAt(fs, b))
           /\ LastAt(fs, b) \in b..(Len(fs) + 1)
<1>1. Len(fs) \in Nat
  BY FrameTypes
<1>2. CASE fs[b].fin
  BY <1>1, <1>2 DEF LastAt
<1>3. CASE ~fs[b].fin
  <2>1. PICK E : E = EndsAfter(fs, b)
    OBVIOUS
  <2>2. /\ E \subseteq (b + 1)..Len(fs)
        /\ \A j \in (b + 1)..Len(fs) : j \in E <=> Finishes(fs, j)
    BY <2>1 DEF EndsAfter
  <2>3. CASE E = {}
    <3>1. LastAt(fs, b) = Len(fs) + 1
      BY <1>3, <2>1, <2>3 DEF LastAt
    <3>2. QED BY <1>1, <1>3, <2>2, <2>3, <3>1
  <2>4. CASE E # {}
    <3>1. E \subseteq Nat
      BY <1>1, <2>2
    <3>2. \E n \in E : \A m \in E : n <= m
      BY <2>4, <3>1, LeastNatural
    <3>3. LastAt(fs, b) \in E /\ \A m \in E : LastAt(fs, b) <= m
      BY <1>3, <2>1, <2>4, <3>2 DEF LastAt, Min
    <3>4. PICK n : n = LastAt(fs, b)
      OBVIOUS
    <3>5. n \in (b + 1)..Len(fs) /\ Finishes(fs, n) /\ \A j \in (b + 1)..Len(fs) : Finishes(fs, j) => n <= j
      BY <2>2, <3>3, <3>4
    <3>6. n \in (b + 1)..(Len(fs) + 1) /\ n \in b..(Len(fs) + 1)
      BY <1>1, <3>5
    <3>7. QED BY <1>3, <3>4, <3>5, <3>6
  <2>5. QED BY <2>3, <2>4
<1>4. QED BY <1>2, <1>3

LEMMA SizeGrows ==
    ASSUME NEW fs \in Transcripts, NEW b \in 1..Len(fs)
    PROVE  /\ SizeBy(fs, b, b) = fs[b].len
           /\ \A k \in b..Len(fs) : SizeBy(fs, b, k) \in Nat
           /\ \A k \in b..(Len(fs) - 1) :
                /\ fs[k + 1].op = "continuation" =>
                     SizeBy(fs, b, k + 1) = SizeBy(fs, b, k) + fs[k + 1].len
                /\ fs[k + 1].op # "continuation" => SizeBy(fs, b, k + 1) = SizeBy(fs, b, k)
<1>1. PICK w : w = Lens(fs)
  OBVIOUS
<1>2. Len(fs) \in Nat /\ \A i \in 1..Len(fs) : w[i] = fs[i].len /\ w[i] \in Nat
  BY <1>1, FrameTypes DEF Lens
<1>3. ASSUME NEW k \in b..Len(fs)
      PROVE  IsFiniteSet(Pieces(fs, b, k)) /\ Pieces(fs, b, k) \subseteq 1..Len(fs)
             /\ SumOver(w, Pieces(fs, b, k)) \in Nat
  <2>1. Pieces(fs, b, k) \subseteq 1..Len(fs)
    BY <1>2 DEF Pieces
  <2>2. IsFiniteSet(1..Len(fs))
    BY <1>2, FS_Interval
  <2>3. IsFiniteSet(Pieces(fs, b, k))
    BY <2>1, <2>2, FS_Subset
  <2>4. \A y \in Pieces(fs, b, k) : w[y] \in Nat
    BY <1>2, <2>1
  <2>5. QED BY <2>1, <2>3, <2>4, SumOverType
<1>4. SumOver(w, Pieces(fs, b, b)) = fs[b].len
  <2>1. PICK S : S = {b}
    OBVIOUS
  <2>2. Pieces(fs, b, b) = S
    BY <1>2, <2>1 DEF Pieces
  <2>3. IsFiniteSet(S) /\ b \in S /\ (\A y \in S : w[y] \in Nat) /\ S \ {b} = {}
    <3>1. IsFiniteSet(S)
      BY <2>1, FS_Singleton
    <3>2. QED BY <1>2, <2>1, <3>1
  <2>4. SumOver(w, S) = w[b] + SumOver(w, S \ {b})
    BY <2>3, SumOverRemove
  <2>5. SumOver(w, S \ {b}) = 0
    BY <2>3, SumOverEmpty, Zenon
  <2>6. QED BY <1>2, <2>2, <2>4, <2>5
<1>5. ASSUME NEW k \in b..(Len(fs) - 1), fs[k + 1].op = "continuation"
      PROVE  SumOver(w, Pieces(fs, b, k + 1)) = SumOver(w, Pieces(fs, b, k)) + fs[k + 1].len
  <2>1. k \in b..Len(fs) /\ k + 1 \in b..Len(fs) /\ k + 1 \in 1..Len(fs)
    BY <1>2
  <2>2. PICK S, T : S = Pieces(fs, b, k + 1) /\ T = Pieces(fs, b, k)
    OBVIOUS
  <2>3. IsFiniteSet(S) /\ S \subseteq 1..Len(fs) /\ SumOver(w, T) \in Nat
    BY <1>3, <2>1, <2>2
  <2>4. k + 1 \in S /\ S \ {k + 1} = T
    BY <1>2, <1>5, <2>1, <2>2 DEF Pieces
  <2>5. \A y \in S : w[y] \in Nat
    BY <1>2, <2>3
  <2>6. SumOver(w, S) = w[k + 1] + SumOver(w, T)
    BY <2>3, <2>4, <2>5, SumOverRemove
  <2>7. w[k + 1] = fs[k + 1].len /\ w[k + 1] \in Nat
    BY <1>2, <2>1
  <2>8. SumOver(w, S) = SumOver(w, T) + fs[k + 1].len
    BY <2>3, <2>6, <2>7
  <2>9. QED BY <2>2, <2>8
<1>6. ASSUME NEW k \in b..(Len(fs) - 1), fs[k + 1].op # "continuation"
      PROVE  Pieces(fs, b, k + 1) = Pieces(fs, b, k)
  BY <1>2, <1>6 DEF Pieces
<1>7. QED BY <1>1, <1>3, <1>4, <1>5, <1>6 DEF SizeBy

(* What a frame ends. *)
LEMMA EndsHere ==
    ASSUME NEW fs \in Transcripts, NEW k \in 0..(Len(fs) - 1), NEW b \in 1..(k + 1)
    PROVE  /\ LastAt(fs, b) = k + 1 /\ b # k + 1 => ~fs[b].fin /\ Finishes(fs, k + 1)
           /\ b # k + 1 /\ ~fs[b].fin /\ LastAt(fs, b) > k /\ Finishes(fs, k + 1) => LastAt(fs, b) = k + 1
           /\ b # k + 1 /\ ~fs[b].fin /\ LastAt(fs, b) > k /\ ~Finishes(fs, k + 1) => LastAt(fs, b) > k + 1
           /\ b = k + 1 /\ ~fs[b].fin => LastAt(fs, b) > k + 1
           /\ b = k + 1 /\ fs[b].fin => LastAt(fs, b) = k + 1
<1>1. Len(fs) \in Nat /\ b \in 1..Len(fs)
  BY FrameTypes
<1>2. PICK n : n = LastAt(fs, b)
  OBVIOUS
<1>3. /\ fs[b].fin => n = b
      /\ ~fs[b].fin =>
           /\ n \in (b + 1)..(Len(fs) + 1)
           /\ \A j \in (b + 1)..Len(fs) : Finishes(fs, j) => n <= j
           /\ n <= Len(fs) => Finishes(fs, n)
  BY <1>1, <1>2, LastIs
<1>4. CASE fs[b].fin
  BY <1>2, <1>3, <1>4
<1>5. CASE ~fs[b].fin
  <2>1. n \in Nat /\ b < n /\ (b # k + 1 /\ Finishes(fs, k + 1) => n <= k + 1)
        /\ (n = k + 1 => Finishes(fs, k + 1))
    BY <1>1, <1>3, <1>5
  <2>2. QED BY <1>1, <1>2, <1>5, <2>1
<1>6. QED BY <1>4, <1>5

LEMMA LatestSame ==
    ASSUME NEW fs \in Transcripts, NEW k \in 0..(Len(fs) - 1), NEW u, Latest(fs, u, k),
           \A b \in 1..(k + 1) : States(fs, b) => LastAt(fs, b) # k + 1
    PROVE  Latest(fs, u, k + 1)
<1>1. Len(fs) \in Nat /\ \A b \in 1..(k + 1) : LastAt(fs, b) \in b..(Len(fs) + 1)
  BY FrameTypes, LastIs
<1>2. Told(fs, k + 1) = Told(fs, k)
  BY <1>1 DEF Told
<1>3. QED BY <1>2 DEF Latest

LEMMA LatestNew ==
    ASSUME NEW fs \in Transcripts, NEW k \in 0..(Len(fs) - 1), NEW b \in 1..(k + 1),
           States(fs, b), LastAt(fs, b) = k + 1
    PROVE  Latest(fs, fs[b].usage, k + 1)
<1>1. b \in Told(fs, k + 1) /\ \A j \in Told(fs, k + 1) : LastAt(fs, j) <= LastAt(fs, b)
  BY DEF Told
<1>2. QED BY <1>1 DEF Latest

-----------------------------------------------------------------------------
(* The decoder after the first k frames. *)

Decoders == [frame : Nat, buf : Int, inMsg : BOOLEAN, first : Nat, size : Int, skip : BOOLEAN,
             decided : BOOLEAN, bad : BOOLEAN, last : Int, done : BOOLEAN]

(* It is in the one message that is open, if any; it gave that one up only
   if it cannot state a usage any more, and has counted it otherwise. *)
Counts(fs, d, k) ==
    /\ d.skip => ~fs[d.first].json \/ SizeBy(fs, d.first, k) > MaxJSONMessage
    /\ ~d.skip => d.size = SizeBy(fs, d.first, k)

Holds(fs, d, k) ==
    /\ \A b \in 1..k : Opens(fs, b) /\ LastAt(fs, b) > k => d.inMsg /\ d.first = b
    /\ d.inMsg => /\ d.first \in 1..k /\ Opens(fs, d.first) /\ LastAt(fs, d.first) > k
                  /\ Counts(fs, d, k)

Follows(fs, d, k) ==
    d \in Decoders /\ k \in 0..Len(fs) /\ d.frame = k + 1 /\ Holds(fs, d, k) /\ Latest(fs, d.last, k)

(* A frame that belongs to no fragmented message. *)
LEMMA HoldsOn ==
    ASSUME NEW fs \in Transcripts, NEW k \in 0..(Len(fs) - 1), NEW d \in Decoders, Holds(fs, d, k),
           ~Finishes(fs, k + 1), ~Opens(fs, k + 1), fs[k + 1].op # "continuation"
    PROVE  Holds(fs, d, k + 1)
<1>1. Len(fs) \in Nat /\ k + 1 \in 1..Len(fs)
  BY FrameTypes
<1>2. ASSUME NEW b \in 1..(k + 1), Opens(fs, b), LastAt(fs, b) > k + 1
      PROVE  d.inMsg /\ d.first = b
  <2>1. b \in 1..k /\ b \in 1..Len(fs)
    BY <1>1, <1>2
  <2>2. LastAt(fs, b) \in b..(Len(fs) + 1)
    BY <2>1, LastIs
  <2>3. LastAt(fs, b) > k
    BY <1>1, <1>2, <2>2
  <2>4. QED BY <1>2, <2>1, <2>3 DEF Holds
<1>3. ASSUME d.inMsg
      PROVE  /\ d.first \in 1..(k + 1) /\ Opens(fs, d.first) /\ LastAt(fs, d.first) > k + 1
             /\ SizeBy(fs, d.first, k + 1) = SizeBy(fs, d.first, k)
  <2>1. d.first \in 1..k /\ Opens(fs, d.first) /\ LastAt(fs, d.first) > k
    BY <1>3 DEF Holds
  <2>2. d.first \in 1..Len(fs) /\ k \in d.first..(Len(fs) - 1) /\ d.first \in 1..(k + 1) /\ d.first # k + 1
    BY <1>1, <2>1
  <2>3. SizeBy(fs, d.first, k + 1) = SizeBy(fs, d.first, k)
    BY <2>2, SizeGrows
  <2>4. LastAt(fs, d.first) > k + 1
    BY <2>1, <2>2, EndsHere DEF Opens
  <2>5. QED BY <2>1, <2>2, <2>3, <2>4
<1>4. QED BY <1>2, <1>3 DEF Holds, Counts

(* parseFrame has taken frame k + 1 off the buffer and not looked at it. *)
Passed(fs, p, k) ==
    p \in Decoders /\ p.frame = k + 2 /\ Holds(fs, p, k) /\ Latest(fs, p.last, k)

LEMMA FollowsPassed ==
    ASSUME NEW fs \in Transcripts, NEW k \in 0..(Len(fs) - 1), NEW d, Follows(fs, d, k),
           NEW n \in Int, NEW p, p = [d EXCEPT !.frame = k + 2, !.buf = n]
    PROVE  Passed(fs, p, k)
<1>1. k + 2 \in Nat /\ d \in Decoders /\ Holds(fs, d, k) /\ Latest(fs, d.last, k)
  BY FrameTypes DEF Follows
<1>2. /\ p \in Decoders
      /\ p.frame = k + 2 /\ p.last = d.last /\ p.first = d.first /\ p.size = d.size
      /\ p.inMsg = d.inMsg /\ p.skip = d.skip
  <2>1. PICK m : m = k + 2
    OBVIOUS
  <2>2. m \in Nat /\ p = [d EXCEPT !.frame = m, !.buf = n]
    BY <1>1, <2>1
  <2>3. /\ p \in Decoders
        /\ p.frame = m /\ p.last = d.last /\ p.first = d.first /\ p.size = d.size
        /\ p.inMsg = d.inMsg /\ p.skip = d.skip
    BY <1>1, <2>2 DEF Decoders
  <2>4. QED BY <2>1, <2>3
<1>3. Holds(fs, p, k)
  BY <1>1, <1>2 DEF Holds, Counts
<1>4. QED BY <1>1, <1>2, <1>3 DEF Passed

LEMMA PassedFollows ==
    ASSUME NEW fs \in Transcripts, NEW k \in 0..(Len(fs) - 1), NEW p \in Decoders, p.frame = k + 2,
           Holds(fs, p, k + 1), Latest(fs, p.last, k + 1)
    PROVE  Follows(fs, p, k + 1)
<1>1. k + 1 \in 0..Len(fs) /\ p.frame = k + 1 + 1
  BY FrameTypes
<1>2. QED BY <1>1 DEF Follows

LEMMA OtherFollows ==
    ASSUME NEW fs \in Transcripts, NEW k \in 0..(Len(fs) - 1), NEW p, Passed(fs, p, k),
           fs[k + 1].op = "other"
    PROVE  Follows(fs, p, k + 1)
<1>1. p \in Decoders /\ p.frame = k + 2 /\ Holds(fs, p, k) /\ Latest(fs, p.last, k)
  BY DEF Passed
<1>2. ~Finishes(fs, k + 1) /\ ~Opens(fs, k + 1) /\ fs[k + 1].op # "continuation"
  BY DEF Finishes, Opens
<1>3. Holds(fs, p, k + 1)
  BY <1>1, <1>2, HoldsOn
<1>4. \A b \in 1..(k + 1) : States(fs, b) => LastAt(fs, b) # k + 1
  <2>1. \A b \in 1..(k + 1) : LastAt(fs, b) = k + 1 => b = k + 1
    BY <1>2, EndsHere
  <2>2. ~States(fs, k + 1)
    BY DEF States
  <2>3. QED BY <2>1, <2>2
<1>5. Latest(fs, p.last, k + 1)
  BY <1>1, <1>4, LatestSame
<1>6. QED BY <1>1, <1>3, <1>5, PassedFollows

(* beginMessage, of a message in one frame: it counts if it is JSON. *)
LEMMA WholeFollows ==
    ASSUME NEW fs \in Transcripts, NEW k \in 0..(Len(fs) - 1), NEW p, Passed(fs, p, k),
           fs[k + 1].op = "binary", fs[k + 1].fin, NEW q,
           q = IF /\ NibbleAt <= fs[k + 1].len /\ fs[k + 1].json
                  /\ fs[k + 1].usage # NoUsage
               THEN [p EXCEPT !.last = fs[k + 1].usage] ELSE p
    PROVE  Follows(fs, q, k + 1)
<1>1. p \in Decoders /\ p.frame = k + 2 /\ Holds(fs, p, k) /\ Latest(fs, p.last, k)
  BY DEF Passed
<1>2. ~Finishes(fs, k + 1) /\ ~Opens(fs, k + 1) /\ fs[k + 1].op # "continuation"
  BY DEF Finishes, Opens
<1>3. Len(fs) \in Nat /\ k + 1 \in 1..Len(fs) /\ k + 1 \in 1..(k + 1) /\ fs[k + 1].usage \in Nat
  BY FrameTypes
<1>4. LastAt(fs, k + 1) = k + 1 /\ SizeBy(fs, k + 1, k + 1) = fs[k + 1].len
  BY <1>3, LastIs, SizeGrows
<1>5. Holds(fs, p, k + 1)
  BY <1>1, <1>2, HoldsOn
<1>6. \A b \in 1..(k + 1) : LastAt(fs, b) = k + 1 => b = k + 1
  BY <1>2, EndsHere
<1>7. CASE NibbleAt <= fs[k + 1].len /\ fs[k + 1].json /\ fs[k + 1].usage # NoUsage
  <2>1. States(fs, k + 1)
    BY <1>4, <1>7 DEF States
  <2>2. Latest(fs, fs[k + 1].usage, k + 1)
    BY <1>3, <1>4, <2>1, LatestNew
  <2>3. q = [p EXCEPT !.last = fs[k + 1].usage]
    BY <1>7
  <2>4. /\ q \in Decoders /\ q.frame = k + 2 /\ q.last = fs[k + 1].usage
        /\ q.first = p.first /\ q.size = p.size /\ q.inMsg = p.inMsg /\ q.skip = p.skip
    <3>1. PICK n \in Int : n = fs[k + 1].usage
      BY <1>3
    <3>2. p \in Decoders /\ q = [p EXCEPT !.last = n]
      BY <1>1, <2>3, <3>1
    <3>3. /\ q \in Decoders /\ q.frame = p.frame /\ q.last = n
          /\ q.first = p.first /\ q.size = p.size /\ q.inMsg = p.inMsg /\ q.skip = p.skip
      BY <3>2 DEF Decoders
    <3>4. QED BY <1>1, <3>1, <3>3
  <2>5. Holds(fs, q, k + 1)
    BY <1>5, <2>4 DEF Holds, Counts
  <2>6. QED BY <2>2, <2>4, <2>5, PassedFollows
<1>8. CASE ~(NibbleAt <= fs[k + 1].len /\ fs[k + 1].json /\ fs[k + 1].usage # NoUsage)
  <2>1. ~States(fs, k + 1)
    BY <1>4, <1>8 DEF States
  <2>2. \A b \in 1..(k + 1) : States(fs, b) => LastAt(fs, b) # k + 1
    BY <1>6, <2>1
  <2>3. Latest(fs, p.last, k + 1)
    BY <1>1, <2>2, LatestSame
  <2>4. q = p
    BY <1>8
  <2>5. QED BY <1>1, <1>5, <2>3, <2>4, PassedFollows
<1>9. QED BY <1>7, <1>8

(* decide: what is long enough to tell and is not JSON is given up. *)
LEMMA DecideCounts ==
    ASSUME NEW d \in Decoders, NEW k, Counts(frames, d, k)
    PROVE  /\ Decide(d) \in Decoders /\ Counts(frames, Decide(d), k)
           /\ Decide(d).frame = d.frame /\ Decide(d).last = d.last
           /\ Decide(d).inMsg = d.inMsg /\ Decide(d).first = d.first
           /\ ~Decide(d).skip => ~d.skip
<1>1. CASE d.decided \/ d.size < NibbleAt
  <2>1. Decide(d) = d
    BY <1>1 DEF Decide
  <2>2. QED BY <2>1
<1>2. CASE ~(d.decided \/ d.size < NibbleAt) /\ IsJSON(d.first, d.size)
  <2>1. PICK e : e = Decide(d)
    OBVIOUS
  <2>2. e = [d EXCEPT !.decided = TRUE]
    BY <1>2, <2>1 DEF Decide
  <2>3. /\ e \in Decoders /\ e.frame = d.frame /\ e.last = d.last /\ e.size = d.size
        /\ e.inMsg = d.inMsg /\ e.first = d.first /\ e.skip = d.skip
    BY <2>2 DEF Decoders
  <2>4. Counts(frames, e, k)
    BY <2>3 DEF Counts
  <2>5. QED BY <2>1, <2>3, <2>4
<1>3. CASE ~(d.decided \/ d.size < NibbleAt) /\ ~IsJSON(d.first, d.size)
  <2>1. PICK e : e = Decide(d)
    OBVIOUS
  <2>2. e = [d EXCEPT !.decided = TRUE, !.skip = TRUE, !.size = 0]
    BY <1>3, <2>1 DEF Decide
  <2>3. /\ e \in Decoders /\ e.frame = d.frame /\ e.last = d.last
        /\ e.inMsg = d.inMsg /\ e.first = d.first /\ e.skip
    <3>1. PICK z \in Int : z = 0
      OBVIOUS
    <3>2. e = [d EXCEPT !.decided = TRUE, !.skip = TRUE, !.size = z]
      BY <2>2, <3>1
    <3>3. QED BY <3>2 DEF Decoders
  <2>4. ~frames[d.first].json
    <3>1. d.size \in Int /\ NibbleAt \in Nat
      BY SocketsAssumption DEF Decoders
    <3>2. d.size >= NibbleAt
      BY <1>3, <3>1
    <3>3. QED BY <1>3, <3>2 DEF IsJSON
  <2>5. Counts(frames, e, k)
    BY <2>3, <2>4 DEF Counts
  <2>6. QED BY <2>1, <2>3, <2>5
<1>4. QED BY <1>1, <1>2, <1>3

(* beginMessage, of a message in fragments: one that was open is given up. *)
LEMMA OpeningFollows ==
    ASSUME frames \in Transcripts, NEW k \in 0..(Len(frames) - 1), NEW p, Passed(frames, p, k),
           frames[k + 1].op = "binary", ~frames[k + 1].fin, NEW g,
           g = [p EXCEPT !.inMsg = TRUE, !.decided = FALSE, !.skip = FALSE,
                         !.first = k + 1, !.size = frames[k + 1].len]
    PROVE  Follows(frames, Decide(g), k + 1)
<1>1. p \in Decoders /\ p.frame = k + 2 /\ Holds(frames, p, k) /\ Latest(frames, p.last, k)
  BY DEF Passed
<1>2. Len(frames) \in Nat /\ k + 1 \in 1..Len(frames) /\ k + 1 \in 1..(k + 1)
      /\ frames[k + 1].len \in Nat
  BY FrameTypes
<1>3. Finishes(frames, k + 1) /\ Opens(frames, k + 1)
  BY DEF Finishes, Opens
<1>4. /\ g \in Decoders /\ g.frame = k + 2 /\ g.last = p.last /\ g.inMsg = TRUE /\ g.first = k + 1
      /\ g.skip = FALSE /\ g.size = frames[k + 1].len
  <2>1. PICK m, n : m = k + 1 /\ n = frames[k + 1].len
    OBVIOUS
  <2>2. m \in Nat /\ n \in Int /\ g = [p EXCEPT !.inMsg = TRUE, !.decided = FALSE, !.skip = FALSE,
                                              !.first = m, !.size = n]
    BY <1>2, <2>1
  <2>3. /\ g \in Decoders /\ g.frame = p.frame /\ g.last = p.last /\ g.inMsg = TRUE
        /\ g.first = m /\ g.skip = FALSE /\ g.size = n
    BY <1>1, <2>2 DEF Decoders
  <2>4. QED BY <1>1, <2>1, <2>3
<1>5. SizeBy(frames, k + 1, k + 1) = frames[k + 1].len /\ LastAt(frames, k + 1) > k + 1
  BY <1>2, SizeGrows, EndsHere
<1>6. Counts(frames, g, k + 1)
  BY <1>4, <1>5 DEF Counts
<1>7. PICK q : q = Decide(g)
  OBVIOUS
<1>8. /\ q \in Decoders /\ q.frame = k + 2 /\ q.last = p.last /\ q.inMsg /\ q.first = k + 1
      /\ Counts(frames, q, k + 1)
  BY <1>4, <1>6, <1>7, DecideCounts
<1>9. ASSUME NEW b \in 1..(k + 1), Opens(frames, b), LastAt(frames, b) > k + 1
      PROVE  b = k + 1
  <2>1. SUFFICES ASSUME b # k + 1 PROVE FALSE
    OBVIOUS
  <2>2. b \in 1..Len(frames) /\ ~frames[b].fin
    BY <1>2, <1>9 DEF Opens
  <2>3. LastAt(frames, b) \in b..(Len(frames) + 1)
    BY <2>2, LastIs
  <2>4. LastAt(frames, b) > k
    BY <1>2, <1>9, <2>3
  <2>5. LastAt(frames, b) = k + 1
    BY <1>3, <2>1, <2>2, <2>4, EndsHere
  <2>6. QED BY <1>2, <1>9, <2>5
<1>10. Holds(frames, q, k + 1)
  BY <1>2, <1>3, <1>5, <1>8, <1>9 DEF Holds
<1>11. \A b \in 1..(k + 1) : States(frames, b) => LastAt(frames, b) # k + 1
  <2>1. SUFFICES ASSUME NEW b \in 1..(k + 1), States(frames, b), LastAt(frames, b) = k + 1 PROVE FALSE
    OBVIOUS
  <2>2. b # k + 1
    BY <1>2, <1>5, <2>1
  <2>3. ~frames[b].fin
    BY <2>1, <2>2, EndsHere
  <2>4. frames[k + 1].op = "continuation"
    BY <2>1, <2>3 DEF States
  <2>5. QED BY <2>4
<1>12. Latest(frames, q.last, k + 1)
  BY <1>1, <1>8, <1>11, LatestSame
<1>13. QED BY <1>7, <1>8, <1>10, <1>12, PassedFollows

(* continueMessage, of a fragment that belongs to no open message. *)
LEMMA StrayFollows ==
    ASSUME NEW fs \in Transcripts, NEW k \in 0..(Len(fs) - 1), NEW p, Passed(fs, p, k),
           fs[k + 1].op = "continuation", ~p.inMsg
    PROVE  Follows(fs, p, k + 1)
<1>1. p \in Decoders /\ p.frame = k + 2 /\ Holds(fs, p, k) /\ Latest(fs, p.last, k)
  BY DEF Passed
<1>2. Len(fs) \in Nat
  BY FrameTypes
<1>3. ASSUME NEW b \in 1..k PROVE Opens(fs, b) => LastAt(fs, b) <= k
  <2>1. b \in 1..Len(fs)
    BY <1>2
  <2>2. LastAt(fs, b) \in b..(Len(fs) + 1)
    BY <2>1, LastIs
  <2>3. QED BY <1>1, <2>2 DEF Holds
<1>4. ~Opens(fs, k + 1) /\ ~States(fs, k + 1)
  BY DEF Opens, States
<1>5. Holds(fs, p, k + 1)
  <2>1. ASSUME NEW b \in 1..(k + 1), Opens(fs, b), LastAt(fs, b) > k + 1 PROVE FALSE
    <3>1. b \in 1..k
      BY <1>4, <2>1
    <3>2. LastAt(fs, b) \in b..(Len(fs) + 1)
      BY <1>2, <3>1, LastIs
    <3>3. QED BY <1>3, <2>1, <3>1, <3>2
  <2>2. QED BY <2>1 DEF Holds
<1>6. \A b \in 1..(k + 1) : States(fs, b) => LastAt(fs, b) # k + 1
  <2>1. SUFFICES ASSUME NEW b \in 1..(k + 1), States(fs, b), LastAt(fs, b) = k + 1 PROVE FALSE
    OBVIOUS
  <2>2. b # k + 1 /\ b \in 1..k
    BY <1>4, <2>1
  <2>3. ~fs[b].fin /\ fs[b].op = "binary"
    BY <2>1, <2>2, EndsHere DEF States
  <2>4. LastAt(fs, b) <= k
    BY <1>3, <2>2, <2>3 DEF Opens
  <2>5. QED BY <2>1, <2>4
<1>7. Latest(fs, p.last, k + 1)
  BY <1>1, <1>6, LatestSame
<1>8. QED BY <1>1, <1>5, <1>7, PassedFollows

(* The message grows by a fragment, or past what may be kept of it. *)
Grown(d, len) ==
    IF d.skip THEN d
    ELSE IF d.size + len > MaxJSONMessage THEN [d EXCEPT !.skip = TRUE, !.size = 0]
    ELSE [d EXCEPT !.size = @ + len]

LEMMA GrownCounts ==
    ASSUME NEW fs \in Transcripts, NEW k \in 0..(Len(fs) - 1), NEW p, Passed(fs, p, k),
           fs[k + 1].op = "continuation", p.inMsg, NEW g, g = Grown(p, fs[k + 1].len)
    PROVE  /\ g \in Decoders /\ g.frame = k + 2 /\ g.last = p.last /\ g.inMsg /\ g.first = p.first
           /\ Counts(fs, g, k + 1)
           /\ ~g.skip => SizeBy(fs, g.first, k + 1) <= MaxJSONMessage
<1>1. p \in Decoders /\ p.frame = k + 2 /\ Holds(fs, p, k)
  BY DEF Passed
<1>2. p.first \in 1..k /\ Counts(fs, p, k) /\ p.size \in Int
  BY <1>1 DEF Holds, Decoders
<1>3. Len(fs) \in Nat /\ fs[k + 1].len \in Nat /\ MaxJSONMessage \in Nat
  BY FrameTypes, SocketsAssumption
<1>4. /\ SizeBy(fs, p.first, k) \in Nat
      /\ SizeBy(fs, p.first, k + 1) = SizeBy(fs, p.first, k) + fs[k + 1].len
  <2>1. p.first \in 1..Len(fs) /\ k \in p.first..Len(fs) /\ k \in p.first..(Len(fs) - 1)
    BY <1>2, <1>3
  <2>2. QED BY <2>1, SizeGrows
<1>5. CASE p.skip
  <2>1. g = p
    BY <1>5 DEF Grown
  <2>2. ~fs[p.first].json \/ SizeBy(fs, p.first, k + 1) > MaxJSONMessage
    BY <1>2, <1>3, <1>4, <1>5 DEF Counts
  <2>3. QED BY <1>1, <1>5, <2>1, <2>2 DEF Counts
<1>6. CASE ~p.skip /\ p.size + fs[k + 1].len > MaxJSONMessage
  <2>1. g = [p EXCEPT !.skip = TRUE, !.size = 0]
    BY <1>6 DEF Grown
  <2>2. /\ g \in Decoders /\ g.frame = p.frame /\ g.last = p.last /\ g.inMsg = p.inMsg
        /\ g.first = p.first /\ g.skip
    <3>1. PICK z \in Int : z = 0
      OBVIOUS
    <3>2. g = [p EXCEPT !.skip = TRUE, !.size = z]
      BY <2>1, <3>1
    <3>3. QED BY <1>1, <3>2 DEF Decoders
  <2>3. SizeBy(fs, p.first, k + 1) > MaxJSONMessage
    BY <1>2, <1>4, <1>6 DEF Counts
  <2>4. QED BY <1>1, <2>2, <2>3 DEF Counts
<1>7. CASE ~p.skip /\ ~(p.size + fs[k + 1].len > MaxJSONMessage)
  <2>1. PICK z \in Int : z = p.size + fs[k + 1].len
    BY <1>2, <1>3
  <2>2. g = [p EXCEPT !.size = z]
    BY <1>7, <2>1 DEF Grown
  <2>3. /\ g \in Decoders /\ g.frame = p.frame /\ g.last = p.last /\ g.inMsg = p.inMsg
        /\ g.first = p.first /\ g.skip = p.skip /\ g.size = z
    BY <1>1, <2>2 DEF Decoders
  <2>4. z = SizeBy(fs, p.first, k + 1) /\ z <= MaxJSONMessage
    BY <1>2, <1>3, <1>4, <1>7, <2>1 DEF Counts
  <2>5. QED BY <1>1, <1>7, <2>3, <2>4 DEF Counts
<1>8. QED BY <1>5, <1>6, <1>7

(* continueMessage, of the message that is open: at its end it counts if what
   was kept of it is JSON. *)
LEMMA FragmentFollows ==
    ASSUME frames \in Transcripts, NEW k \in 0..(Len(frames) - 1), NEW p, Passed(frames, p, k),
           frames[k + 1].op = "continuation", p.inMsg
    PROVE  Follows(frames, ContinueMessage(p, k + 1), k + 1)
<1>1. p \in Decoders /\ p.frame = k + 2 /\ Holds(frames, p, k) /\ Latest(frames, p.last, k)
  BY DEF Passed
<1>2. Len(frames) \in Nat /\ k \in Nat
  BY FrameTypes
<1>3. PICK b : b = p.first
  OBVIOUS
<1>4. b \in 1..k /\ b \in 1..Len(frames) /\ b \in 1..(k + 1) /\ b # k + 1
      /\ Opens(frames, b) /\ ~frames[b].fin /\ frames[b].op = "binary" /\ LastAt(frames, b) > k
  BY <1>1, <1>2, <1>3 DEF Holds, Opens
<1>5. PICK g : g = Grown(p, frames[k + 1].len)
  OBVIOUS
<1>6. /\ g \in Decoders /\ g.frame = k + 2 /\ g.last = p.last /\ g.inMsg /\ g.first = b
      /\ Counts(frames, g, k + 1)
      /\ ~g.skip => SizeBy(frames, b, k + 1) <= MaxJSONMessage
  BY <1>3, <1>5, GrownCounts
<1>7. PICK r : r = Decide(g)
  OBVIOUS
<1>8. /\ r \in Decoders /\ r.frame = k + 2 /\ r.last = p.last /\ r.inMsg /\ r.first = b
      /\ Counts(frames, r, k + 1)
      /\ ~r.skip => SizeBy(frames, b, k + 1) <= MaxJSONMessage
  BY <1>6, <1>7, DecideCounts
<1>9. ContinueMessage(p, k + 1) = IF frames[k + 1].fin THEN EndMessage(r) ELSE r
  BY <1>5, <1>7 DEF ContinueMessage, Grown
<1>10. ~Opens(frames, k + 1) /\ ~States(frames, k + 1) /\ (Finishes(frames, k + 1) <=> frames[k + 1].fin)
  BY DEF Opens, States, Finishes
<1>11. \A c \in 1..(k + 1) : Opens(frames, c) /\ LastAt(frames, c) >= k + 1 => c = b
  <2>1. SUFFICES ASSUME NEW c \in 1..(k + 1), Opens(frames, c), LastAt(frames, c) >= k + 1
                 PROVE  c = b
    OBVIOUS
  <2>2. c \in 1..k /\ c \in 1..Len(frames)
    BY <1>2, <1>10, <2>1
  <2>3. LastAt(frames, c) \in c..(Len(frames) + 1)
    BY <2>2, LastIs
  <2>4. LastAt(frames, c) > k
    BY <1>2, <2>1, <2>3
  <2>5. QED BY <1>1, <1>3, <2>1, <2>2, <2>4 DEF Holds
<1>12. CASE ~frames[k + 1].fin
  <2>1. LastAt(frames, b) > k + 1
    BY <1>4, <1>10, <1>12, EndsHere
  <2>2. Holds(frames, r, k + 1)
    <3>1. ASSUME NEW c \in 1..(k + 1), Opens(frames, c), LastAt(frames, c) > k + 1
          PROVE  c = b
      <4>1. c \in 1..Len(frames)
        BY <1>2, <3>1
      <4>2. LastAt(frames, c) \in c..(Len(frames) + 1)
        BY <4>1, LastIs
      <4>3. LastAt(frames, c) >= k + 1
        BY <1>2, <3>1, <4>2
      <4>4. QED BY <1>11, <3>1, <4>3
    <3>2. QED BY <1>4, <1>8, <2>1, <3>1 DEF Holds
  <2>3. \A c \in 1..(k + 1) : States(frames, c) => LastAt(frames, c) # k + 1
    BY <1>10, <1>12, EndsHere
  <2>4. Latest(frames, r.last, k + 1)
    BY <1>1, <1>8, <2>3, LatestSame
  <2>5. QED BY <1>8, <1>9, <1>12, <2>2, <2>4, PassedFollows
<1>13. CASE frames[k + 1].fin
  <2>1. LastAt(frames, b) = k + 1
    BY <1>4, <1>10, <1>13, EndsHere
  <2>2. PICK h : h = IF ~r.skip /\ r.size > 0 /\ IsJSON(r.first, r.size)
                     THEN OnMessage(r, frames[r.first].usage) ELSE r
    OBVIOUS
  <2>3. PICK z \in Int : z = 0
    OBVIOUS
  <2>4. PICK q : q = [h EXCEPT !.inMsg = FALSE, !.decided = FALSE, !.skip = FALSE, !.size = z]
    OBVIOUS
  <2>5. q = ContinueMessage(p, k + 1)
    BY <1>9, <1>13, <2>2, <2>3, <2>4 DEF EndMessage
  <2>6. r.size \in Int /\ NibbleAt \in Nat \ {0} /\ frames[b].usage \in Nat
        /\ SizeBy(frames, b, k + 1) \in Nat
    <3>1. k + 1 \in b..Len(frames)
      BY <1>2, <1>4
    <3>2. r.size \in Int /\ NibbleAt \in Nat \ {0}
      BY <1>8, SocketsAssumption DEF Decoders
    <3>3. frames[b].usage \in Nat /\ SizeBy(frames, b, k + 1) \in Nat
      BY <1>4, <3>1, FrameTypes, SizeGrows
    <3>4. QED BY <3>2, <3>3
  <2>7. \A c \in 1..(k + 1) : ~(Opens(frames, c) /\ LastAt(frames, c) > k + 1)
    <3>1. SUFFICES ASSUME NEW c \in 1..(k + 1), Opens(frames, c), LastAt(frames, c) > k + 1
                   PROVE  FALSE
      OBVIOUS
    <3>2. c \in 1..Len(frames)
      BY <1>2
    <3>3. LastAt(frames, c) \in c..(Len(frames) + 1)
      BY <3>2, LastIs
    <3>4. LastAt(frames, c) >= k + 1 /\ LastAt(frames, c) # k + 1
      BY <1>2, <3>1, <3>3
    <3>5. QED BY <1>11, <2>1, <3>1, <3>4
  <2>8. CASE States(frames, b)
    <3>1. /\ frames[b].json /\ frames[b].usage # NoUsage
          /\ NibbleAt <= SizeBy(frames, b, k + 1) /\ SizeBy(frames, b, k + 1) <= MaxJSONMessage
      BY <1>4, <2>1, <2>8 DEF States
    <3>2. ~r.skip /\ r.size = SizeBy(frames, b, k + 1)
      BY <1>8, <2>6, <3>1, SocketsAssumption DEF Counts
    <3>3. h = [r EXCEPT !.last = frames[b].usage]
      BY <1>8, <2>2, <2>6, <3>1, <3>2 DEF IsJSON, OnMessage
    <3>4. h \in Decoders /\ h.frame = r.frame /\ h.last = frames[b].usage
      <4>1. PICK n \in Int : n = frames[b].usage
        BY <2>6
      <4>2. r \in Decoders /\ h = [r EXCEPT !.last = n]
        BY <1>8, <3>3, <4>1
      <4>3. h \in Decoders /\ h.frame = r.frame /\ h.last = n
        BY <4>2 DEF Decoders
      <4>4. QED BY <4>1, <4>3
    <3>5. Latest(frames, h.last, k + 1)
      BY <1>4, <2>1, <2>8, <3>4, LatestNew
    <3>6. q \in Decoders /\ q.frame = h.frame /\ q.last = h.last /\ ~q.inMsg
      BY <2>4, <3>4 DEF Decoders
    <3>7. Holds(frames, q, k + 1)
      BY <2>7, <3>6 DEF Holds
    <3>8. QED BY <1>8, <2>5, <3>4, <3>5, <3>6, <3>7, PassedFollows
  <2>9. CASE ~States(frames, b)
    <3>1. h = r
      <4>1. SUFFICES ASSUME ~r.skip, r.size > 0, IsJSON(r.first, r.size), frames[b].usage # NoUsage
                     PROVE  FALSE
        BY <1>8, <2>2 DEF OnMessage
      <4>2. r.size = SizeBy(frames, b, k + 1)
        BY <1>8, <4>1 DEF Counts
      <4>3. NibbleAt <= SizeBy(frames, b, k + 1) /\ frames[b].json
        BY <1>8, <2>6, <4>1, <4>2 DEF IsJSON
      <4>4. States(frames, b)
        BY <1>4, <1>8, <2>1, <4>1, <4>3 DEF States
      <4>5. QED BY <2>9, <4>4
    <3>2. q \in Decoders /\ q.frame = r.frame /\ q.last = r.last /\ ~q.inMsg
      BY <1>8, <2>4, <3>1 DEF Decoders
    <3>3. \A c \in 1..(k + 1) : States(frames, c) => LastAt(frames, c) # k + 1
      <4>1. SUFFICES ASSUME NEW c \in 1..(k + 1), States(frames, c), LastAt(frames, c) = k + 1
                     PROVE  FALSE
        OBVIOUS
      <4>2. c # k + 1
        BY <1>10, <4>1
      <4>3. Opens(frames, c)
        BY <4>1, <4>2, EndsHere DEF Opens, States
      <4>4. c = b
        BY <1>2, <1>11, <4>1, <4>3
      <4>5. QED BY <2>9, <4>1, <4>4
    <3>4. Latest(frames, q.last, k + 1)
      BY <1>1, <1>8, <3>2, <3>3, LatestSame
    <3>5. Holds(frames, q, k + 1)
      BY <2>7, <3>2 DEF Holds
    <3>6. QED BY <1>8, <2>5, <3>2, <3>4, <3>5, PassedFollows
  <2>10. QED BY <2>8, <2>9
<1>14. QED BY <1>12, <1>13

(* What the decoder does with a message leaves its buffer alone. *)
Apart(d, e) == e.buf = d.buf /\ e.bad = d.bad /\ e.done = d.done

LEMMA DecideApart ==
    ASSUME NEW d \in Decoders
    PROVE  Apart(d, Decide(d)) /\ Decide(d) \in Decoders /\ Decide(d).first = d.first
<1>1. PICK z \in Int : z = 0
  OBVIOUS
<1>2. /\ [d EXCEPT !.decided = TRUE] \in Decoders /\ Apart(d, [d EXCEPT !.decided = TRUE])
      /\ [d EXCEPT !.decided = TRUE].first = d.first
      /\ [d EXCEPT !.decided = TRUE, !.skip = TRUE, !.size = z] \in Decoders
      /\ Apart(d, [d EXCEPT !.decided = TRUE, !.skip = TRUE, !.size = z])
      /\ [d EXCEPT !.decided = TRUE, !.skip = TRUE, !.size = z].first = d.first
  BY DEF Decoders, Apart
<1>3. Apart(d, d)
  BY DEF Apart
<1>4. QED BY <1>1, <1>2, <1>3 DEF Decide

LEMMA HeardApart ==
    ASSUME NEW d \in Decoders, NEW u \in Nat
    PROVE  Apart(d, OnMessage(d, u)) /\ OnMessage(d, u) \in Decoders
<1>1. [d EXCEPT !.last = u] \in Decoders /\ Apart(d, [d EXCEPT !.last = u]) /\ Apart(d, d)
  BY DEF Decoders, Apart
<1>2. QED BY <1>1 DEF OnMessage

LEMMA EndApart ==
    ASSUME NEW d \in Decoders, frames[d.first].usage \in Nat
    PROVE  Apart(d, EndMessage(d)) /\ EndMessage(d) \in Decoders
<1>1. PICK z \in Int : z = 0
  OBVIOUS
<1>2. PICK h : h = IF ~d.skip /\ d.size > 0 /\ IsJSON(d.first, d.size)
                   THEN OnMessage(d, frames[d.first].usage) ELSE d
  OBVIOUS
<1>3. h \in Decoders /\ Apart(d, h)
  <2>1. Apart(d, d)
    BY DEF Apart
  <2>2. QED BY <1>2, <2>1, HeardApart
<1>4. PICK e : e = [h EXCEPT !.inMsg = FALSE, !.decided = FALSE, !.skip = FALSE, !.size = z]
  OBVIOUS
<1>5. e = EndMessage(d)
  BY <1>1, <1>2, <1>4 DEF EndMessage
<1>6. e \in Decoders /\ Apart(h, e)
  BY <1>3, <1>4 DEF Decoders, Apart
<1>7. QED BY <1>3, <1>5, <1>6 DEF Apart

LEMMA BeginApart ==
    ASSUME frames \in Transcripts, NEW d \in Decoders, NEW i \in 1..Len(frames)
    PROVE  Apart(d, BeginMessage(d, i))
<1>1. i \in Nat /\ frames[i].len \in Int /\ frames[i].usage \in Nat /\ Apart(d, d)
  BY FrameTypes DEF Apart
<1>2. PICK n : n = frames[i].len
  OBVIOUS
<1>3. PICK g : g = [d EXCEPT !.inMsg = TRUE, !.decided = FALSE, !.skip = FALSE, !.first = i, !.size = n]
  OBVIOUS
<1>4. g \in Decoders /\ Apart(d, g)
  BY <1>1, <1>2, <1>3 DEF Decoders, Apart
<1>5. Apart(g, Decide(g))
  BY <1>4, DecideApart
<1>6. Apart(d, Decide(g))
  BY <1>4, <1>5 DEF Apart
<1>7. Apart(d, OnMessage(d, frames[i].usage))
  BY <1>1, HeardApart
<1>8. QED BY <1>1, <1>2, <1>3, <1>6, <1>7 DEF BeginMessage

LEMMA ContinueApart ==
    ASSUME frames \in Transcripts, NEW d \in Decoders, NEW i \in 1..Len(frames),
           d.inMsg => d.first \in 1..Len(frames)
    PROVE  Apart(d, ContinueMessage(d, i))
<1>1. frames[i].len \in Int /\ Apart(d, d)
  BY FrameTypes DEF Apart
<1>2. CASE ~d.inMsg
  BY <1>1, <1>2 DEF ContinueMessage
<1>3. CASE d.inMsg
  <2>1. PICK g : g = Grown(d, frames[i].len)
    OBVIOUS
  <2>2. g \in Decoders /\ Apart(d, g) /\ g.first = d.first
    <3>1. PICK z \in Int : z = 0
      OBVIOUS
    <3>2. PICK m : m = d.size + frames[i].len
      OBVIOUS
    <3>3. d.size \in Int /\ m \in Int
      BY <1>1, <3>2 DEF Decoders
    <3>4. /\ [d EXCEPT !.skip = TRUE, !.size = z] \in Decoders /\ [d EXCEPT !.size = m] \in Decoders
          /\ Apart(d, [d EXCEPT !.skip = TRUE, !.size = z]) /\ Apart(d, [d EXCEPT !.size = m])
          /\ [d EXCEPT !.skip = TRUE, !.size = z].first = d.first /\ [d EXCEPT !.size = m].first = d.first
      BY <3>3 DEF Decoders, Apart
    <3>5. QED BY <1>1, <2>1, <3>1, <3>2, <3>4 DEF Grown
  <2>3. PICK r : r = Decide(g)
    OBVIOUS
  <2>4. r \in Decoders /\ Apart(g, r) /\ r.first = d.first
    BY <2>2, <2>3, DecideApart
  <2>5. frames[r.first].usage \in Nat
    BY <1>3, <2>4, FrameTypes
  <2>6. Apart(r, EndMessage(r))
    BY <2>4, <2>5, EndApart
  <2>7. Apart(d, r) /\ Apart(d, EndMessage(r))
    BY <2>2, <2>4, <2>6 DEF Apart
  <2>8. ContinueMessage(d, i) = IF frames[i].fin THEN EndMessage(r) ELSE r
    BY <1>3, <2>1, <2>3 DEF ContinueMessage, Grown
  <2>9. QED BY <2>7, <2>8
<1>4. QED BY <1>2, <1>3

-----------------------------------------------------------------------------
(* The decoder has read n units, those of its buffer and q in the channel not
   counted, in frames none of which it may not read. *)

Odd(fs, i) == fs[i].masked \/ fs[i].len > MaxFrameBuffer

Reads(fs, d, q, n) ==
    \E k \in 0..Len(fs) :
        /\ Follows(fs, d, k) /\ d.buf \in Nat
        /\ UpTo(fs, k) + d.buf + q = n
        /\ \A i \in 1..k : ~Odd(fs, i)

Readable(fs, d) ==
    /\ d.buf >= 1 /\ d.frame <= Len(fs)
    /\ Odd(fs, d.frame) \/ d.buf > fs[d.frame].len

LEMMA ReadsOn ==
    ASSUME frames \in Transcripts, NEW d, NEW q \in Nat, NEW n, Reads(frames, d, q, n),
           Readable(frames, d), ~Odd(frames, d.frame),
           NEW p, p = Past(d, d.frame), NEW e, e = Dispatch(p, d.frame)
    PROVE  Reads(frames, e, q, n) /\ e \in Decoders /\ e.bad = d.bad /\ e.done = d.done
<1>1. PICK k \in 0..Len(frames) :
        /\ Follows(frames, d, k) /\ d.buf \in Nat
        /\ UpTo(frames, k) + d.buf + q = n
        /\ \A i \in 1..k : ~Odd(frames, i)
  BY DEF Reads
<1>2. d \in Decoders /\ d.frame = k + 1 /\ Len(frames) \in Nat
  BY <1>1, FrameTypes DEF Follows
<1>3. k \in 0..(Len(frames) - 1) /\ k + 1 \in 1..Len(frames) /\ k + 1 \in 0..Len(frames)
  BY <1>2 DEF Readable
<1>4. frames[k + 1].len \in Nat /\ d.buf > frames[k + 1].len
      /\ frames[k + 1].op \in {"binary", "continuation", "other"} /\ frames[k + 1].usage \in Nat
      /\ frames[k + 1].fin \in BOOLEAN /\ frames[k + 1].json \in BOOLEAN
  BY <1>2, <1>3, FrameTypes DEF Readable
<1>5. PICK m, b : m = k + 2 /\ b = d.buf - (1 + frames[k + 1].len)
  OBVIOUS
<1>6. b \in Nat /\ b \in Int /\ m \in Nat
  BY <1>1, <1>4, <1>5
<1>7. p = [d EXCEPT !.frame = m, !.buf = b]
  <2>1. d.frame + 1 = m
    BY <1>2, <1>5
  <2>2. QED BY <1>2, <1>5, <2>1 DEF Past
<1>8. p \in Decoders /\ p.buf = b /\ p.bad = d.bad /\ p.done = d.done
  BY <1>2, <1>6, <1>7 DEF Decoders
<1>9. Passed(frames, p, k)
  BY <1>1, <1>3, <1>5, <1>6, <1>7, FollowsPassed
<1>10. Follows(frames, e, k + 1) /\ Apart(p, e)
  <2>1. CASE frames[k + 1].op = "binary" /\ frames[k + 1].fin
    <3>1. e = BeginMessage(p, k + 1)
      BY <1>2, <2>1 DEF Dispatch
    <3>2. e = IF /\ NibbleAt <= frames[k + 1].len /\ frames[k + 1].json
                 /\ frames[k + 1].usage # NoUsage
              THEN [p EXCEPT !.last = frames[k + 1].usage] ELSE p
      BY <1>4, <2>1, <3>1, SocketsAssumption DEF BeginMessage, IsJSON, OnMessage
    <3>3. QED BY <1>3, <1>8, <1>9, <2>1, <3>1, <3>2, WholeFollows, BeginApart
  <2>2. CASE frames[k + 1].op = "binary" /\ ~frames[k + 1].fin
    <3>1. e = BeginMessage(p, k + 1)
      BY <1>2, <2>2 DEF Dispatch
    <3>2. PICK g : g = [p EXCEPT !.inMsg = TRUE, !.decided = FALSE, !.skip = FALSE,
                                 !.first = k + 1, !.size = frames[k + 1].len]
      OBVIOUS
    <3>3. e = Decide(g)
      BY <2>2, <3>1, <3>2 DEF BeginMessage
    <3>4. Apart(p, e)
      BY <1>3, <1>8, <3>1, BeginApart
    <3>5. Follows(frames, Decide(g), k + 1)
      BY <1>3, <1>9, <2>2, <3>2, OpeningFollows
    <3>6. QED BY <3>3, <3>4, <3>5
  <2>3. CASE frames[k + 1].op = "continuation"
    <3>1. e = ContinueMessage(p, k + 1)
      BY <1>2, <2>3 DEF Dispatch
    <3>2. Apart(p, e)
      <4>1. p.inMsg => p.first \in 1..Len(frames)
        BY <1>3, <1>9 DEF Passed, Holds
      <4>2. QED BY <1>3, <1>8, <3>1, <4>1, ContinueApart
    <3>3. CASE p.inMsg
      BY <1>3, <1>9, <2>3, <3>1, <3>2, <3>3, FragmentFollows
    <3>4. CASE ~p.inMsg
      <4>1. e = p
        BY <3>1, <3>4 DEF ContinueMessage
      <4>2. QED BY <1>3, <1>9, <2>3, <3>2, <3>4, <4>1, StrayFollows
    <3>5. QED BY <3>3, <3>4
  <2>4. CASE frames[k + 1].op = "other"
    <3>1. e = p
      BY <1>2, <2>4 DEF Dispatch
    <3>2. Follows(frames, p, k + 1)
      BY <1>3, <1>9, <2>4, OtherFollows
    <3>3. QED BY <3>1, <3>2 DEF Apart
  <2>5. QED BY <1>4, <2>1, <2>2, <2>3, <2>4
<1>11. UpTo(frames, k + 1) = UpTo(frames, k) + 1 + frames[k + 1].len /\ UpTo(frames, k) \in Nat
  BY <1>3, UpToNext
<1>12. UpTo(frames, k + 1) + e.buf + q = n /\ e.buf \in Nat
  <2>1. e.buf = b
    BY <1>8, <1>10 DEF Apart
  <2>2. PICK x, y, l, c : x = UpTo(frames, k) /\ y = UpTo(frames, k + 1)
                          /\ l = frames[k + 1].len /\ c = d.buf
    OBVIOUS
  <2>3. x \in Nat /\ l \in Nat /\ c \in Nat /\ y = x + 1 + l /\ b = c - (1 + l) /\ x + c + q = n
    BY <1>1, <1>4, <1>5, <1>11, <2>2
  <2>4. y + b + q = n
    BY <2>3
  <2>5. QED BY <1>6, <2>1, <2>2, <2>4
<1>13. \A i \in 1..(k + 1) : ~Odd(frames, i)
  BY <1>1, <1>2, <1>3
<1>14. Reads(frames, e, q, n)
  BY <1>3, <1>10, <1>12, <1>13 DEF Reads
<1>15. QED BY <1>8, <1>10, <1>14 DEF Apart, Follows

-----------------------------------------------------------------------------
(* The invariant: the units that entered the channel are in the frames read,
   in the buffer, and in the slabs; the decoder gives up only at a frame it may
   not read; the meter is desynced if a slab was dropped or the decoder gave
   up, and then only; and a decoder that is done has read what there was. *)

SocketTypes ==
    /\ frames \in Transcripts /\ slabs \in Seq(Nat) /\ decoder \in Decoders
    /\ sent \in Nat /\ fed \in Nat /\ fed <= sent /\ sent <= UpTo(frames, Len(frames))
    /\ desynced \in BOOLEAN /\ inputClosed \in BOOLEAN

NotBegun ==
    frames = <<>> =>
        /\ sent = 0 /\ slabs = <<>> /\ fed = 0 /\ ~desynced /\ ~inputClosed
        /\ result = NoResult /\ decoder = NewDecoder

SocketInv ==
    /\ SocketTypes /\ NotBegun
    /\ ~decoder.bad => Reads(frames, decoder, Queue(slabs), fed)
    /\ decoder.bad => \E i \in 1..Len(frames) : UpTo(frames, i - 1) < sent /\ Odd(frames, i)
    /\ (fed < sent => desynced) /\ (desynced => fed < sent \/ decoder.bad)
    /\ decoder.done =>
          /\ inputClosed /\ slabs = <<>> /\ (decoder.bad => desynced)
          /\ decoder.bad \/ ~Readable(frames, decoder)
    /\ result # NoResult => decoder.done /\ result = (IF desynced THEN Unknown ELSE decoder.last)

LEMMA ReadsType ==
    ASSUME NEW fs \in Transcripts, NEW d, NEW q, NEW n, Reads(fs, d, q, n)
    PROVE  /\ d \in Decoders /\ d.buf \in Nat /\ d.frame \in 1..(Len(fs) + 1)
           /\ UpTo(fs, d.frame - 1) \in Nat /\ UpTo(fs, d.frame - 1) + d.buf + q = n
           /\ Follows(fs, d, d.frame - 1) /\ \A i \in 1..(d.frame - 1) : ~Odd(fs, i)
<1>1. PICK k \in 0..Len(fs) :
        /\ Follows(fs, d, k) /\ d.buf \in Nat
        /\ UpTo(fs, k) + d.buf + q = n
        /\ \A i \in 1..k : ~Odd(fs, i)
  BY DEF Reads
<1>2. d \in Decoders /\ d.frame = k + 1 /\ Len(fs) \in Nat
  BY <1>1, FrameTypes DEF Follows
<1>3. d.frame - 1 = k /\ d.frame \in 1..(Len(fs) + 1)
  BY <1>2
<1>4. UpTo(fs, k) \in Nat
  BY UpToNext
<1>5. QED BY <1>1, <1>2, <1>3, <1>4

LEMMA ReadsNothing ==
    ASSUME NEW fs \in Transcripts
    PROVE  Reads(fs, NewDecoder, 0, 0) /\ NewDecoder \in Decoders
<1>1. NewDecoder \in Decoders /\ NewDecoder.frame = 1 /\ NewDecoder.buf = 0 /\ ~NewDecoder.inMsg
      /\ NewDecoder.last = Unknown
  BY DEF NewDecoder, Decoders, Unknown
<1>2. Len(fs) \in Nat /\ 0 \in 0..Len(fs) /\ UpTo(fs, 0) = 0 /\ \A i \in 1..0 : FALSE
  BY FrameTypes, UpToNext
<1>3. Told(fs, 0) = {}
  BY <1>2 DEF Told
<1>4. Latest(fs, NewDecoder.last, 0)
  BY <1>1, <1>3 DEF Latest
<1>5. Holds(fs, NewDecoder, 0)
  BY <1>1, <1>2 DEF Holds
<1>6. Follows(fs, NewDecoder, 0)
  BY <1>1, <1>2, <1>4, <1>5 DEF Follows
<1>7. QED BY <1>1, <1>2, <1>6 DEF Reads

LEMMA ReadsMore ==
    ASSUME NEW fs \in Transcripts, NEW d, NEW q \in Nat, NEW n, NEW m \in Nat, Reads(fs, d, q, n)
    PROVE  Reads(fs, d, q + m, n + m)
<1>1. PICK k \in 0..Len(fs) :
        /\ Follows(fs, d, k) /\ d.buf \in Nat
        /\ UpTo(fs, k) + d.buf + q = n
        /\ \A i \in 1..k : ~Odd(fs, i)
  BY DEF Reads
<1>2. PICK x, c : x = UpTo(fs, k) /\ c = d.buf
  OBVIOUS
<1>3. x \in Nat /\ c \in Nat /\ x + c + q = n
  BY <1>1, <1>2, UpToNext
<1>4. x + c + (q + m) = n + m
  BY <1>3
<1>5. QED BY <1>1, <1>2, <1>4 DEF Reads

LEMMA ReadsSlab ==
    ASSUME NEW fs \in Transcripts, NEW d, NEW q \in Nat, NEW s \in Nat, NEW r \in Nat, q = s + r,
           NEW n, Reads(fs, d, q, n), NEW e, e = [d EXCEPT !.buf = @ + s]
    PROVE  Reads(fs, e, r, n) /\ e \in Decoders /\ e.bad = d.bad /\ e.done = d.done
<1>1. PICK k \in 0..Len(fs) :
        /\ Follows(fs, d, k) /\ d.buf \in Nat
        /\ UpTo(fs, k) + d.buf + q = n
        /\ \A i \in 1..k : ~Odd(fs, i)
  BY DEF Reads
<1>2. PICK b : b = d.buf + s
  OBVIOUS
<1>3. b \in Nat /\ b \in Int /\ d \in Decoders /\ e = [d EXCEPT !.buf = b]
  <2>1. d \in Decoders
    BY <1>1 DEF Follows
  <2>2. e = [d EXCEPT !.buf = b]
    BY <1>2, <2>1
  <2>3. QED BY <1>1, <1>2, <2>1, <2>2
<1>4. /\ e \in Decoders /\ e.buf = b /\ e.frame = d.frame /\ e.last = d.last /\ e.first = d.first
      /\ e.size = d.size /\ e.inMsg = d.inMsg /\ e.skip = d.skip /\ e.bad = d.bad /\ e.done = d.done
  BY <1>3 DEF Decoders
<1>5. Follows(fs, e, k)
  BY <1>1, <1>4 DEF Follows, Holds, Counts
<1>6. UpTo(fs, k) + b + r = n
  <2>1. PICK x, c : x = UpTo(fs, k) /\ c = d.buf
    OBVIOUS
  <2>2. x \in Nat /\ c \in Nat /\ b = c + s /\ x + c + q = n
    BY <1>1, <1>2, <2>1, UpToNext
  <2>3. x + b + r = n
    BY <2>2
  <2>4. QED BY <2>1, <2>3
<1>7. QED BY <1>1, <1>3, <1>4, <1>5, <1>6 DEF Reads

(* A backlog over the cap never comes about: what is left of a session fits,
   and so does a frame that is not odd. *)
LEMMA BufferFits ==
    ASSUME NEW fs \in Transcripts, NEW d, NEW q \in Nat, NEW n, Reads(fs, d, q, n), ~Readable(fs, d),
           n <= UpTo(fs, Len(fs))
    PROVE  d.buf <= MaxFrameBuffer
<1>1. /\ d.buf \in Nat /\ d.frame \in 1..(Len(fs) + 1)
      /\ UpTo(fs, d.frame - 1) \in Nat /\ UpTo(fs, d.frame - 1) + d.buf + q = n
  BY ReadsType
<1>2. MaxFrameBuffer \in Nat /\ Len(fs) \in Nat
  BY SocketsAssumption, FrameTypes
<1>3. CASE d.frame <= Len(fs)
  <2>1. fs[d.frame].len \in Nat
    BY <1>1, <1>2, <1>3, FrameTypes
  <2>2. QED BY <1>1, <1>2, <1>3, <2>1 DEF Readable, Odd
<1>4. CASE d.frame = Len(fs) + 1
  <2>1. d.frame - 1 = Len(fs)
    BY <1>2, <1>4
  <2>2. UpTo(fs, Len(fs)) + d.buf + q <= UpTo(fs, Len(fs)) /\ UpTo(fs, Len(fs)) \in Nat
    BY <1>1, <2>1
  <2>3. QED BY <1>1, <1>2, <2>2
<1>5. QED BY <1>1, <1>2, <1>3, <1>4

LEMMA HandshakeKeeps ==
    ASSUME SocketInv, NEW fs \in Downstreams, Handshake(fs)
    PROVE  SocketInv'
<1>1. /\ sent = 0 /\ slabs = <<>> /\ fed = 0 /\ desynced = FALSE /\ inputClosed = FALSE
      /\ result = NoResult /\ decoder = NewDecoder
  BY DEF Handshake, SocketInv, NotBegun, SocketTypes
<1>2. /\ frames' = fs /\ sent' = 0 /\ slabs' = <<>> /\ fed' = 0 /\ desynced' = FALSE
      /\ inputClosed' = FALSE /\ result' = NoResult /\ decoder' = NewDecoder
  BY <1>1 DEF Handshake
<1>3. fs \in Transcripts /\ Len(fs) \in Nat /\ UpTo(fs, Len(fs)) \in Nat
  <2>1. fs \in Transcripts
    BY SocketsAssumption DEF Transcripts
  <2>2. QED BY <2>1, FrameTypes, UpToNext
<1>4. Reads(fs, NewDecoder, Queue(<<>>), 0) /\ NewDecoder \in Decoders
  BY <1>3, ReadsNothing, QueueEmpty
<1>5. SocketTypes'
  <2>1. <<>> \in Seq(Nat)
    OBVIOUS
  <2>2. UpTo(frames', Len(frames')) \in Nat /\ frames' \in Transcripts
    BY <1>2, <1>3
  <2>3. 0 <= UpTo(frames', Len(frames'))
    BY <2>2
  <2>4. slabs' \in Seq(Nat) /\ decoder' \in Decoders
    BY <1>2, <1>4, <2>1, Zenon
  <2>5. sent' \in Nat /\ fed' \in Nat /\ fed' <= sent' /\ sent' <= UpTo(frames', Len(frames'))
    <3>1. sent' = 0 /\ fed' = 0
      BY <1>2, Zenon
    <3>2. QED BY <2>3, <3>1
  <2>6. desynced' \in BOOLEAN /\ inputClosed' \in BOOLEAN
    BY <1>2
  <2>7. QED BY <2>2, <2>4, <2>5, <2>6 DEF SocketTypes
<1>6. NewDecoder.bad = FALSE /\ NewDecoder.done = FALSE
  BY DEF NewDecoder
<1>7. QED BY <1>2, <1>4, <1>5, <1>6 DEF SocketInv, NotBegun

LEMMA FeedKeeps ==
    ASSUME SocketInv, NEW n \in 1..MaxSlab, Feed(n)
    PROVE  SocketInv'
<1>1. n \in Nat /\ n > 0
  BY SocketsAssumption
<1>2. /\ frames \in Transcripts /\ slabs \in Seq(Nat) /\ sent \in Nat /\ fed \in Nat /\ fed <= sent
      /\ Len(frames) \in Nat /\ Units(frames) = UpTo(frames, Len(frames))
  <2>1. frames \in Transcripts
    BY DEF SocketInv, SocketTypes
  <2>2. Len(frames) \in Nat
    BY <2>1, FrameTypes
  <2>3. Len(frames) \in 0..Len(frames)
    BY <2>2
  <2>4. QED BY <2>1, <2>2, <2>3, UnitsUpTo DEF SocketInv, SocketTypes
<1>3. /\ sent' = sent + n /\ sent' <= UpTo(frames, Len(frames)) /\ ~inputClosed
      /\ frames' = frames /\ inputClosed' = inputClosed /\ result' = result /\ decoder' = decoder
  BY <1>2 DEF Feed
<1>4. frames # <<>>
  <2>1. SUFFICES ASSUME frames = <<>> PROVE FALSE
    OBVIOUS
  <2>2. Len(frames) = 0 /\ sent = 0
    BY <2>1 DEF SocketInv, NotBegun
  <2>3. UpTo(frames, 0) = 0
    BY <1>2, UpToNext
  <2>4. QED BY <1>1, <1>3, <2>2, <2>3
<1>5. decoder.done = FALSE /\ result = NoResult
  BY <1>3 DEF SocketInv, SocketTypes, Decoders
<1>6. ASSUME decoder.bad
      PROVE  \E i \in 1..Len(frames) : UpTo(frames, i - 1) < sent' /\ Odd(frames, i)
  <2>1. PICK i \in 1..Len(frames) : UpTo(frames, i - 1) < sent /\ Odd(frames, i)
    BY <1>6 DEF SocketInv
  <2>2. UpTo(frames, i - 1) \in Nat
    <3>1. i - 1 \in 0..Len(frames)
      BY <1>2
    <3>2. QED BY <1>2, <3>1, UpToNext
  <2>3. UpTo(frames, i - 1) < sent'
    BY <1>1, <1>2, <1>3, <2>1, <2>2
  <2>4. QED BY <2>1, <2>3
<1>7. Queue(slabs) \in Nat
  BY <1>2, QueueType
<1>8. CASE desynced
  <2>1. slabs' = slabs /\ fed' = fed /\ desynced' = desynced
    BY <1>8 DEF Feed
  <2>2. SocketTypes'
    BY <1>1, <1>2, <1>3, <2>1 DEF SocketInv, SocketTypes
  <2>3. fed' < sent'
    BY <1>1, <1>2, <1>3, <2>1
  <2>4. QED BY <1>3, <1>4, <1>5, <1>6, <1>8, <2>1, <2>2, <2>3 DEF SocketInv, NotBegun
<1>9. CASE ~desynced /\ Len(slabs) < ChanDepth
  <2>1. slabs' = Append(slabs, n) /\ fed' = fed + n /\ desynced' = desynced
    BY <1>9 DEF Feed
  <2>2. SocketTypes'
    BY <1>1, <1>2, <1>3, <2>1 DEF SocketInv, SocketTypes
  <2>3. fed = sent /\ fed' = sent'
    BY <1>2, <1>3, <1>9, <2>1 DEF SocketInv
  <2>4. ASSUME ~decoder.bad PROVE Reads(frames, decoder, Queue(slabs'), fed')
    <3>1. Reads(frames, decoder, Queue(slabs), fed)
      BY <2>4 DEF SocketInv
    <3>2. Reads(frames, decoder, Queue(slabs) + n, fed + n)
      BY <1>1, <1>2, <1>7, <3>1, ReadsMore
    <3>3. Queue(Append(slabs, n)) = Queue(slabs) + n
      BY <1>1, <1>2, QueueAppend
    <3>4. QED BY <2>1, <3>2, <3>3
  <2>5. sent' \in Nat /\ ~(fed' < sent')
    BY <1>1, <1>2, <1>3, <2>3
  <2>6. QED BY <1>3, <1>4, <1>5, <1>6, <1>9, <2>1, <2>2, <2>4, <2>5 DEF SocketInv, NotBegun
<1>10. CASE ~desynced /\ ~(Len(slabs) < ChanDepth)
  <2>1. slabs' = slabs /\ fed' = fed /\ desynced' = TRUE
    BY <1>10 DEF Feed
  <2>2. SocketTypes'
    BY <1>1, <1>2, <1>3, <2>1 DEF SocketInv, SocketTypes
  <2>3. fed' < sent'
    BY <1>1, <1>2, <1>3, <2>1
  <2>4. QED BY <1>3, <1>4, <1>5, <1>6, <2>1, <2>2, <2>3 DEF SocketInv, NotBegun
<1>11. QED BY <1>8, <1>9, <1>10

LEMMA ParseKeeps ==
    ASSUME SocketInv, ParseFrame
    PROVE  SocketInv'
<1>1. /\ frames \in Transcripts /\ slabs \in Seq(Nat) /\ sent \in Nat /\ fed \in Nat /\ fed <= sent
      /\ ~decoder.bad /\ Readable(frames, decoder)
      /\ Reads(frames, decoder, Queue(slabs), fed)
  BY DEF SocketInv, SocketTypes, ParseFrame, FrameRead, HeaderRead, Readable, Anomalous, Odd
<1>2. /\ frames' = frames /\ sent' = sent /\ slabs' = slabs /\ fed' = fed /\ desynced' = desynced
      /\ inputClosed' = inputClosed /\ result' = result
  BY DEF ParseFrame
<1>3. ~decoder.done /\ result = NoResult
  BY <1>1 DEF SocketInv
<1>4. Len(frames) \in Nat /\ Queue(slabs) \in Nat
  BY <1>1, FrameTypes, QueueType
<1>5. /\ decoder \in Decoders /\ decoder.buf \in Nat /\ decoder.frame \in 1..(Len(frames) + 1)
      /\ UpTo(frames, decoder.frame - 1) \in Nat
      /\ UpTo(frames, decoder.frame - 1) + decoder.buf + Queue(slabs) = fed
  BY <1>1, <1>4, ReadsType
<1>6. frames # <<>>
  <2>1. SUFFICES ASSUME frames = <<>> PROVE FALSE
    OBVIOUS
  <2>2. Len(frames) = 0
    BY <2>1
  <2>3. QED BY <1>1, <1>5, <2>2 DEF Readable
<1>7. CASE Odd(frames, decoder.frame)
  <2>1. decoder' = Fail(decoder)
    BY <1>7 DEF ParseFrame, Odd, Anomalous
  <2>2. decoder' \in Decoders /\ decoder'.bad /\ ~decoder'.done
    <3>1. PICK z \in Int : z = 0
      OBVIOUS
    <3>2. decoder' = [decoder EXCEPT !.bad = TRUE, !.buf = z]
      BY <2>1, <3>1 DEF Fail
    <3>3. QED BY <1>3, <1>5, <3>2 DEF Decoders
  <2>3. UpTo(frames, decoder.frame - 1) < sent /\ decoder.frame \in 1..Len(frames)
    BY <1>1, <1>4, <1>5 DEF Readable
  <2>4. SocketTypes'
    BY <1>2, <2>2 DEF SocketInv, SocketTypes
  <2>5. desynced => fed < sent
    BY <1>1 DEF SocketInv
  <2>6. QED BY <1>2, <1>3, <1>6, <1>7, <2>2, <2>3, <2>4, <2>5 DEF SocketInv, NotBegun
<1>8. CASE ~Odd(frames, decoder.frame)
  <2>1. PICK p : p = Past(decoder, decoder.frame)
    OBVIOUS
  <2>2. decoder' = Dispatch(p, decoder.frame)
    BY <1>8, <2>1 DEF ParseFrame, Odd, Anomalous
  <2>3. /\ Reads(frames, decoder', Queue(slabs), fed) /\ decoder' \in Decoders
        /\ decoder'.bad = decoder.bad /\ decoder'.done = decoder.done
    BY <1>1, <1>4, <1>8, <2>1, <2>2, ReadsOn
  <2>4. SocketTypes'
    BY <1>2, <2>3 DEF SocketInv, SocketTypes
  <2>5. QED BY <1>1, <1>2, <1>3, <1>6, <2>3, <2>4 DEF SocketInv, NotBegun
<1>9. QED BY <1>7, <1>8

LEMMA SlabKeeps ==
    ASSUME SocketInv, TakeSlab
    PROVE  SocketInv'
<1>1. /\ frames \in Transcripts /\ slabs \in Seq(Nat) /\ sent \in Nat /\ fed \in Nat /\ fed <= sent
      /\ sent <= UpTo(frames, Len(frames)) /\ slabs # <<>> /\ decoder \in Decoders
  BY DEF SocketInv, SocketTypes, TakeSlab
<1>2. /\ frames' = frames /\ sent' = sent /\ slabs' = Tail(slabs) /\ fed' = fed
      /\ desynced' = desynced /\ inputClosed' = inputClosed /\ result' = result
  BY DEF TakeSlab
<1>3. ~decoder.done /\ result = NoResult /\ frames # <<>>
  BY <1>1 DEF SocketInv, NotBegun
<1>4. slabs' \in Seq(Nat)
  BY <1>1, <1>2
<1>5. CASE decoder.bad
  <2>1. decoder' = decoder
    BY <1>5 DEF TakeSlab
  <2>2. SocketTypes'
    BY <1>2, <1>4, <2>1 DEF SocketInv, SocketTypes
  <2>3. QED BY <1>2, <1>3, <1>5, <2>1, <2>2 DEF SocketInv, NotBegun
<1>6. CASE ~decoder.bad
  <2>1. Reads(frames, decoder, Queue(slabs), fed) /\ ~Readable(frames, decoder)
    BY <1>6 DEF SocketInv, TakeSlab, FrameRead, HeaderRead, Readable, Anomalous, Odd
  <2>2. /\ Queue(slabs) = Head(slabs) + Queue(Tail(slabs))
        /\ Queue(slabs) \in Nat /\ Queue(Tail(slabs)) \in Nat /\ Head(slabs) \in Nat
    BY <1>1, QueueTail, QueueType
  <2>3. decoder.buf <= MaxFrameBuffer
    <3>1. UpTo(frames, Len(frames)) \in Nat
      <4>1. Len(frames) \in Nat
        BY <1>1, FrameTypes
      <4>2. Len(frames) \in 0..Len(frames)
        BY <4>1
      <4>3. QED BY <1>1, <4>2, UpToNext
    <3>2. fed <= UpTo(frames, Len(frames))
      BY <1>1, <3>1
    <3>3. QED BY <1>1, <2>1, <2>2, <3>2, BufferFits
  <2>4. decoder' = [decoder EXCEPT !.buf = @ + Head(slabs)]
    <3>1. decoder.buf \in Nat /\ MaxFrameBuffer \in Nat
      BY <1>1, <2>1, <2>2, ReadsType, SocketsAssumption
    <3>2. ~(decoder.buf > MaxFrameBuffer)
      BY <2>3, <3>1
    <3>3. QED BY <1>6, <3>2 DEF TakeSlab
  <2>5. /\ Reads(frames, decoder', Queue(slabs'), fed) /\ decoder' \in Decoders
        /\ decoder'.bad = decoder.bad /\ decoder'.done = decoder.done
    <3>1. PICK q, s, r : q = Queue(slabs) /\ s = Head(slabs) /\ r = Queue(Tail(slabs))
      OBVIOUS
    <3>2. PICK e : e = [decoder EXCEPT !.buf = @ + s]
      OBVIOUS
    <3>3. Reads(frames, e, r, fed) /\ e \in Decoders /\ e.bad = decoder.bad /\ e.done = decoder.done
      BY <1>1, <2>1, <2>2, <3>1, <3>2, ReadsSlab
    <3>4. QED BY <1>2, <2>4, <3>1, <3>2, <3>3
  <2>6. SocketTypes'
    BY <1>2, <1>4, <2>5 DEF SocketInv, SocketTypes
  <2>7. QED BY <1>2, <1>3, <1>6, <2>5, <2>6 DEF SocketInv, NotBegun
<1>7. QED BY <1>5, <1>6

LEMMA CloseKeeps ==
    ASSUME SocketInv, CloseInput
    PROVE  SocketInv'
<1>1. /\ frames # <<>> /\ inputClosed' = TRUE /\ frames' = frames /\ sent' = sent /\ slabs' = slabs
      /\ fed' = fed /\ desynced' = desynced /\ result' = result /\ decoder' = decoder
  BY DEF CloseInput
<1>2. SocketTypes'
  BY <1>1 DEF SocketInv, SocketTypes
<1>3. QED BY <1>1, <1>2 DEF SocketInv, NotBegun

LEMMA DrainedKeeps ==
    ASSUME SocketInv, Drained
    PROVE  SocketInv'
<1>1. /\ frames \in Transcripts /\ slabs = <<>> /\ sent \in Nat /\ fed \in Nat /\ fed <= sent
      /\ sent <= UpTo(frames, Len(frames)) /\ decoder \in Decoders /\ inputClosed /\ ~decoder.done
  BY DEF SocketInv, SocketTypes, Drained
<1>2. /\ frames' = frames /\ sent' = sent /\ slabs' = slabs /\ fed' = fed
      /\ inputClosed' = inputClosed /\ result' = result /\ desynced' = (desynced \/ decoder'.bad)
  BY DEF Drained
<1>3. result = NoResult /\ frames # <<>>
  BY <1>1 DEF SocketInv, NotBegun
<1>4. ASSUME ~decoder.bad
      PROVE  /\ Reads(frames, decoder, Queue(slabs), fed) /\ ~Readable(frames, decoder)
             /\ ~(decoder.buf > MaxFrameBuffer)
  <2>1. Reads(frames, decoder, Queue(slabs), fed) /\ ~Readable(frames, decoder)
    BY <1>4 DEF SocketInv, Drained, FrameRead, HeaderRead, Readable, Anomalous, Odd
  <2>2. Queue(slabs) \in Nat
    BY QueueType DEF SocketInv, SocketTypes
  <2>3. fed <= UpTo(frames, Len(frames))
    <3>1. Len(frames) \in Nat
      BY <1>1, FrameTypes
    <3>2. Len(frames) \in 0..Len(frames)
      BY <3>1
    <3>3. UpTo(frames, Len(frames)) \in Nat
      BY <1>1, <3>2, UpToNext
    <3>4. QED BY <1>1, <3>3
  <2>4. decoder.buf <= MaxFrameBuffer
    BY <1>1, <2>1, <2>2, <2>3, BufferFits
  <2>5. decoder.buf \in Nat /\ MaxFrameBuffer \in Nat
    BY <1>1, <2>1, <2>2, ReadsType, SocketsAssumption
  <2>6. QED BY <2>1, <2>4, <2>5
<1>5. /\ decoder' \in Decoders /\ decoder'.bad = decoder.bad /\ decoder'.done
      /\ decoder'.last = decoder.last /\ decoder'.buf = decoder.buf /\ decoder'.frame = decoder.frame
      /\ decoder'.first = decoder.first /\ decoder'.size = decoder.size
      /\ decoder'.inMsg = decoder.inMsg /\ decoder'.skip = decoder.skip
  <2>1. (decoder.bad \/ decoder.buf > MaxFrameBuffer) <=> decoder.bad
    BY <1>4
  <2>2. PICK b \in BOOLEAN : b = decoder.bad
    BY <1>1 DEF Decoders
  <2>3. decoder' = [decoder EXCEPT !.done = TRUE, !.bad = b]
    BY <1>1, <2>1, <2>2 DEF Drained
  <2>4. QED BY <1>1, <2>2, <2>3 DEF Decoders
<1>6. SocketTypes'
  BY <1>2, <1>5 DEF SocketInv, SocketTypes
<1>7. ASSUME ~decoder.bad
      PROVE  Reads(frames, decoder', Queue(slabs), fed) /\ ~Readable(frames, decoder')
  <2>1. PICK k \in 0..Len(frames) :
          /\ Follows(frames, decoder, k) /\ decoder.buf \in Nat
          /\ UpTo(frames, k) + decoder.buf + Queue(slabs) = fed
          /\ \A i \in 1..k : ~Odd(frames, i)
    BY <1>4, <1>7 DEF Reads
  <2>2. Follows(frames, decoder', k)
    BY <1>5, <2>1 DEF Follows, Holds, Counts
  <2>3. Reads(frames, decoder', Queue(slabs), fed)
    BY <1>5, <2>1, <2>2 DEF Reads
  <2>4. QED BY <1>4, <1>5, <1>7, <2>3 DEF Readable
<1>8. QED BY <1>1, <1>2, <1>3, <1>5, <1>6, <1>7 DEF SocketInv, NotBegun

LEMMA FinishKeeps ==
    ASSUME SocketInv, Finish
    PROVE  SocketInv'
<1>1. /\ decoder.done /\ result' = (IF desynced THEN Unknown ELSE decoder.last) /\ frames' = frames
      /\ sent' = sent /\ slabs' = slabs /\ fed' = fed /\ desynced' = desynced /\ inputClosed' = inputClosed
      /\ decoder' = decoder
  BY DEF Finish, Metered
<1>2. frames # <<>>
  BY <1>1 DEF SocketInv, NotBegun, NewDecoder
<1>3. SocketTypes'
  BY <1>1 DEF SocketInv, SocketTypes
<1>4. QED BY <1>1, <1>2, <1>3 DEF SocketInv, NotBegun

LEMMA SocketInvIsInductive ==
    /\ SocketInit => SocketInv
    /\ SocketInv /\ [SocketNext]_socketVars => SocketInv'
<1>1. ASSUME SocketInit PROVE SocketInv
  <2>1. frames = <<>> /\ frames \in Transcripts /\ <<>> \in Seq(Nat)
    <3>1. frames = <<>>
      BY <1>1 DEF SocketInit
    <3> HIDE DEF Frames
    <3>2. QED BY <3>1 DEF Transcripts
  <2>2. Len(frames) \in 0..Len(frames)
    BY <2>1
  <2>3. Reads(frames, NewDecoder, 0, 0) /\ NewDecoder \in Decoders /\ UpTo(frames, Len(frames)) \in Nat
    BY <2>1, <2>2, ReadsNothing, UpToNext
  <2>4. SocketTypes
    <3>1. 0 <= UpTo(frames, Len(frames))
      BY <2>3
    <3>2. /\ sent = 0 /\ slabs = <<>> /\ fed = 0 /\ desynced = FALSE /\ inputClosed = FALSE
          /\ decoder = NewDecoder
      BY <1>1 DEF SocketInit
    <3>3. /\ slabs \in Seq(Nat) /\ decoder \in Decoders /\ sent \in Nat /\ fed \in Nat
          /\ fed <= sent /\ sent <= UpTo(frames, Len(frames))
          /\ desynced \in BOOLEAN /\ inputClosed \in BOOLEAN
      <4>1. slabs \in Seq(Nat) /\ decoder \in Decoders
        BY <2>1, <2>3, <3>2, Zenon
      <4>2. sent = 0 /\ fed = 0
        BY <3>2, Zenon
      <4>3. sent \in Nat /\ fed \in Nat /\ fed <= sent /\ sent <= UpTo(frames, Len(frames))
        BY <3>1, <4>2
      <4>4. desynced \in BOOLEAN /\ inputClosed \in BOOLEAN
        BY <3>2
      <4>5. QED BY <4>1, <4>3, <4>4
    <3>4. QED BY <2>1, <3>3 DEF SocketTypes
  <2>5. NewDecoder.bad = FALSE /\ NewDecoder.done = FALSE
    BY DEF NewDecoder
  <2>6. QED BY <1>1, <2>3, <2>4, <2>5, QueueEmpty DEF SocketInit, SocketInv, NotBegun
<1>2. ASSUME SocketInv, [SocketNext]_socketVars PROVE SocketInv'
  <2>1. CASE UNCHANGED socketVars
    BY <1>2, <2>1 DEF socketVars, SocketInv, SocketTypes, NotBegun
  <2>2. CASE SocketNext
    BY <1>2, <2>2, HandshakeKeeps, FeedKeeps, ParseKeeps, SlabKeeps, CloseKeeps, DrainedKeeps,
       FinishKeeps DEF SocketNext
  <2>3. QED BY <1>2, <2>1, <2>2
<1>3. QED BY <1>1, <1>2

(* No frame ends two messages that state a usage. *)
LEMMA EndsApart ==
    ASSUME NEW fs \in Transcripts, NEW k \in 0..Len(fs), NEW i \in Told(fs, k), NEW j \in Told(fs, k),
           LastAt(fs, i) = LastAt(fs, j)
    PROVE  i = j
<1>1. Len(fs) \in Nat
  BY FrameTypes
<1>2. ASSUME NEW a \in Told(fs, k), NEW b \in Told(fs, k), a < b, LastAt(fs, a) = LastAt(fs, b)
      PROVE  FALSE
  <2>1. /\ a \in 1..Len(fs) /\ b \in 1..Len(fs) /\ LastAt(fs, a) <= k
        /\ States(fs, a) /\ States(fs, b)
    BY <1>1, <1>2 DEF Told
  <2>2. LastAt(fs, a) \in a..(Len(fs) + 1) /\ LastAt(fs, b) \in b..(Len(fs) + 1)
    BY <2>1, LastIs
  <2>3. ~fs[a].fin
    <3>1. SUFFICES ASSUME fs[a].fin PROVE FALSE
      OBVIOUS
    <3>2. LastAt(fs, a) = a
      BY <2>1, <3>1, LastIs
    <3>3. QED BY <1>1, <1>2, <2>1, <2>2, <3>2
  <2>4. CASE fs[b].fin
    <3>1. LastAt(fs, b) = b
      BY <2>1, <2>4, LastIs
    <3>2. fs[b].op = "continuation" /\ fs[b].op = "binary"
      BY <1>2, <2>1, <2>3, <3>1 DEF States
    <3>3. QED BY <3>2
  <2>5. CASE ~fs[b].fin
    <3>1. Finishes(fs, b) /\ b \in (a + 1)..Len(fs)
      BY <1>1, <1>2, <2>1, <2>5 DEF States, Finishes
    <3>2. LastAt(fs, a) <= b
      BY <2>1, <2>3, <3>1, LastIs
    <3>3. LastAt(fs, b) \in (b + 1)..(Len(fs) + 1)
      BY <2>1, <2>5, LastIs
    <3>4. QED BY <1>1, <1>2, <2>1, <3>2, <3>3
  <2>6. QED BY <2>4, <2>5
<1>3. i \in Nat /\ j \in Nat
  BY <1>1 DEF Told
<1>4. i < j \/ j < i \/ i = j
  BY <1>3
<1>5. QED BY <1>2, <1>4

(* What has been read whole, when the decoder waits for more. *)
LEMMA WholeRead ==
    ASSUME frames \in Transcripts, NEW d, NEW n \in Nat, Reads(frames, d, 0, n), ~Readable(frames, d)
    PROVE  /\ Whole(n) = 1..(d.frame - 1)
           /\ \A i \in 1..Len(frames) : UpTo(frames, i - 1) < n => ~Odd(frames, i)
<1>1. /\ d.buf \in Nat /\ d.frame \in 1..(Len(frames) + 1)
      /\ UpTo(frames, d.frame - 1) \in Nat /\ UpTo(frames, d.frame - 1) + d.buf + 0 = n
      /\ \A i \in 1..(d.frame - 1) : ~Odd(frames, i)
  BY ReadsType
<1>2. PICK k : k = d.frame - 1
  OBVIOUS
<1>3. Len(frames) \in Nat /\ k \in 0..Len(frames) /\ d.frame = k + 1 /\ DOMAIN frames = 1..Len(frames)
  BY <1>1, <1>2, FrameTypes
<1>4. PICK x, c : x = UpTo(frames, k) /\ c = d.buf
  OBVIOUS
<1>5. x \in Nat /\ c \in Nat /\ x + c = n
  BY <1>1, <1>2, <1>4
<1>6. ASSUME NEW j \in 0..Len(frames), k < j
      PROVE  n < UpTo(frames, j)
  <2>1. UpTo(frames, k) + 1 + frames[k + 1].len <= UpTo(frames, j)
    BY <1>3, <1>6, UpToGrows
  <2>2. k + 1 \in 1..Len(frames)
    BY <1>3, <1>6
  <2>3. frames[k + 1].len \in Nat /\ UpTo(frames, j) \in Nat
    BY <2>2, FrameTypes, UpToNext
  <2>4. PICK l, y : l = frames[k + 1].len /\ y = UpTo(frames, j)
    OBVIOUS
  <2>5. c <= l
    BY <1>3, <1>4, <1>5, <2>2, <2>3, <2>4 DEF Readable
  <2>6. l \in Nat /\ y \in Nat /\ x + 1 + l <= y
    BY <1>4, <2>1, <2>3, <2>4
  <2>7. n < y
    BY <1>5, <2>5, <2>6
  <2>8. QED BY <2>4, <2>7
<1>7. ASSUME NEW j \in 0..Len(frames), j <= k
      PROVE  UpTo(frames, j) <= n
  <2>1. CASE j = k
    BY <1>4, <1>5, <2>1
  <2>2. CASE j < k
    <3>1. UpTo(frames, j) + 1 + frames[j + 1].len <= UpTo(frames, k)
      BY <1>3, <2>2, UpToGrows
    <3>2. j + 1 \in 1..Len(frames)
      BY <1>3, <2>2
    <3>3. frames[j + 1].len \in Nat /\ UpTo(frames, j) \in Nat
      BY <3>2, FrameTypes, UpToNext
    <3>4. PICK l, y : l = frames[j + 1].len /\ y = UpTo(frames, j)
      OBVIOUS
    <3>5. l \in Nat /\ y \in Nat /\ y + 1 + l <= x
      BY <1>4, <3>1, <3>3, <3>4
    <3>6. y <= n
      BY <1>5, <3>5
    <3>7. QED BY <3>4, <3>6
  <2>3. QED BY <1>3, <1>7, <2>1, <2>2
<1>8. Whole(n) = 1..k
  <2>1. ASSUME NEW i \in 1..Len(frames)
        PROVE  Units(SubSeq(frames, 1, i)) <= n <=> i <= k
    <3>1. i \in 0..Len(frames)
      BY <1>3
    <3>2. Units(SubSeq(frames, 1, i)) = UpTo(frames, i) /\ UpTo(frames, i) \in Nat
      BY <3>1, UnitsUpTo, UpToNext
    <3>3. k < i => n < UpTo(frames, i)
      BY <1>6, <3>1
    <3>4. i <= k => UpTo(frames, i) <= n
      BY <1>7, <3>1
    <3>5. QED BY <1>3, <3>1, <3>2, <3>3, <3>4
  <2>2. Whole(n) = {i \in 1..Len(frames) : i <= k}
    BY <1>3, <2>1 DEF Whole
  <2>3. QED BY <1>3, <2>2
<1>9. ASSUME NEW i \in 1..Len(frames), UpTo(frames, i - 1) < n
      PROVE  ~Odd(frames, i)
  <2>1. i - 1 \in 0..Len(frames) /\ UpTo(frames, i - 1) \in Nat
    <3>1. i - 1 \in 0..Len(frames)
      BY <1>3
    <3>2. QED BY <3>1, UpToNext
  <2>2. CASE i <= k
    BY <1>1, <1>2, <1>3, <2>2
  <2>3. CASE i = k + 1
    <3>1. i - 1 = k
      BY <1>3, <2>3
    <3>2. x < n
      BY <1>4, <1>9, <3>1
    <3>3. d.buf >= 1
      BY <1>4, <1>5, <3>2
    <3>4. d.frame <= Len(frames) /\ d.frame = i
      BY <1>3, <2>3
    <3>5. QED BY <3>3, <3>4 DEF Readable
  <2>4. CASE k + 1 < i
    <3>1. n < UpTo(frames, i - 1)
      <4>1. k < i - 1
        BY <1>3, <2>4
      <4>2. QED BY <1>6, <2>1, <4>1
    <3>2. QED BY <1>9, <2>1, <3>1
  <2>5. QED BY <1>3, <2>2, <2>3, <2>4
<1>10. QED BY <1>2, <1>8, <1>9

LEMMA LatestIsUsage ==
    ASSUME frames \in Transcripts, NEW k \in 0..Len(frames), Whole(sent) = 1..k,
           NEW u, Latest(frames, u, k)
    PROVE  u = LatestUsage
<1> DEFINE stating == {i \in Whole(sent) :
            /\ frames[i].op = "binary" /\ frames[i].json /\ frames[i].usage # NoUsage
            /\ LastOf(i) \in Whole(sent) /\ (frames[i].fin \/ frames[LastOf(i)].op = "continuation")
            /\ NibbleAt <= SizeOf(i)
            /\ frames[i].fin \/ SizeOf(i) <= MaxJSONMessage}
           ended == {LastOf(i) : i \in stating}
<1>1. Len(frames) \in Nat
  BY FrameTypes
<1>2. ASSUME NEW i
      PROVE  LastOf(i) = LastAt(frames, i) /\ SizeOf(i) = SizeBy(frames, i, LastAt(frames, i))
  <2>1. LastOf(i) = LastAt(frames, i)
    BY DEF LastOf, LastAt, EndsAfter, Finishes
  <2>2. QED BY <2>1 DEF SizeOf, SizeBy, SumOver, Lens, Pieces
<1>3. ASSUME NEW i \in 1..k
      PROVE  LastAt(frames, i) \in 1..k <=> LastAt(frames, i) <= k
  <2>1. i \in 1..Len(frames)
    BY <1>1
  <2>2. LastAt(frames, i) \in i..(Len(frames) + 1)
    BY <2>1, LastIs
  <2>3. QED BY <1>1, <2>2
<1>4. stating = Told(frames, k)
  BY <1>2, <1>3 DEF Told, States
<1>5. LatestUsage = IF stating = {} THEN Unknown
                    ELSE frames[CHOOSE i \in stating : LastOf(i) = Max(ended)].usage
  BY DEF LatestUsage
<1> HIDE DEF stating
<1>6. CASE Told(frames, k) = {} /\ u = Unknown
  BY <1>4, <1>5, <1>6
<1>7. CASE \E i \in Told(frames, k) :
               u = frames[i].usage /\ \A j \in Told(frames, k) : LastAt(frames, j) <= LastAt(frames, i)
  <2>1. PICK i \in Told(frames, k) :
               u = frames[i].usage /\ \A j \in Told(frames, k) : LastAt(frames, j) <= LastAt(frames, i)
    BY <1>7
  <2>2. \A j \in Told(frames, k) : LastAt(frames, j) \in Nat
    <3>1. ASSUME NEW j \in Told(frames, k) PROVE LastAt(frames, j) \in Nat
      <4>1. j \in 1..Len(frames)
        BY <1>1 DEF Told
      <4>2. LastAt(frames, j) \in j..(Len(frames) + 1)
        BY <4>1, LastIs
      <4>3. QED BY <1>1, <4>1, <4>2
    <3>2. QED BY <3>1
  <2>3. PICK E : E = ended
    OBVIOUS
  <2>4. /\ LastAt(frames, i) \in E /\ E \subseteq Nat
        /\ \A y \in E : y <= LastAt(frames, i)
    BY <1>2, <1>4, <2>1, <2>2, <2>3
  <2>5. Max(E) \in E /\ \A y \in E : Max(E) >= y
    <3>1. \E m \in E : \A y \in E : m >= y
      BY <2>4
    <3>2. QED BY <3>1 DEF Max
  <2>6. Max(E) = LastAt(frames, i)
    <3>1. Max(E) \in Nat /\ LastAt(frames, i) \in Nat /\ Max(E) <= LastAt(frames, i)
          /\ Max(E) >= LastAt(frames, i)
      BY <2>4, <2>5
    <3>2. QED BY <3>1
  <2>7. PICK c : c = CHOOSE j \in stating : LastOf(j) = Max(ended)
    OBVIOUS
  <2>8. c \in stating /\ LastOf(c) = Max(ended)
    <3>1. i \in stating /\ LastOf(i) = Max(ended)
      BY <1>2, <1>4, <2>3, <2>6
    <3>2. QED BY <2>7, <3>1
  <2>9. c = i
    BY <1>2, <1>4, <2>3, <2>6, <2>8, EndsApart
  <2>10. QED BY <1>4, <1>5, <2>1, <2>7, <2>9
<1>8. QED BY <1>6, <1>7 DEF Latest

(* However its bytes were cut into slabs and however far the decoder fell
   behind, a finished session is metered by the latest usage the server sent
   in frames that were read whole, or not at all (wsmeter.go). *)
THEOREM MeteredOrUnknown == SocketSpec => []SocketsNeverGuess
<1>1. SocketInv => SocketsNeverGuess
  <2> SUFFICES ASSUME SocketInv, result # NoResult
               PROVE  LET readable == \A i \in 1..Len(frames) :
                              Units(SubSeq(frames, 1, i - 1)) < sent => ~Anomalous(i)
                      IN  IF fed < sent \/ ~readable THEN result = Unknown
                          ELSE result = LatestUsage
    BY DEF SocketsNeverGuess
  <2>1. /\ frames \in Transcripts /\ sent \in Nat /\ fed \in Nat /\ fed <= sent /\ slabs = <<>>
        /\ decoder.done /\ result = (IF desynced THEN Unknown ELSE decoder.last)
        /\ Len(frames) \in Nat
    BY FrameTypes DEF SocketInv, SocketTypes
  <2> DEFINE readable == \A i \in 1..Len(frames) :
                 Units(SubSeq(frames, 1, i - 1)) < sent => ~Anomalous(i)
  <2>2. readable <=> \A i \in 1..Len(frames) : UpTo(frames, i - 1) < sent => ~Odd(frames, i)
    <3>1. ASSUME NEW i \in 1..Len(frames)
          PROVE  Units(SubSeq(frames, 1, i - 1)) = UpTo(frames, i - 1) /\ (Anomalous(i) <=> Odd(frames, i))
      <4>1. i - 1 \in 0..Len(frames)
        BY <2>1
      <4>2. QED BY <2>1, <4>1, UnitsUpTo DEF Anomalous, Odd
    <3>2. QED BY <3>1
  <2>3. CASE desynced
    <3>1. fed < sent \/ decoder.bad
      BY <2>3 DEF SocketInv
    <3>2. decoder.bad => ~readable
      BY <2>2 DEF SocketInv
    <3>3. result = Unknown
      BY <2>1, <2>3
    <3>4. QED BY <3>1, <3>2, <3>3
  <2>4. CASE ~desynced
    <3>1. fed = sent /\ ~decoder.bad /\ ~Readable(frames, decoder)
      BY <2>1, <2>4 DEF SocketInv
    <3>2. Reads(frames, decoder, 0, sent)
      BY <2>1, <3>1, QueueEmpty DEF SocketInv
    <3>3. readable /\ Whole(sent) = 1..(decoder.frame - 1)
      BY <2>1, <2>2, <3>1, <3>2, WholeRead
    <3>4. Follows(frames, decoder, decoder.frame - 1)
      BY <2>1, <3>2, ReadsType
    <3>5. result = LatestUsage
      BY <2>1, <2>4, <3>3, <3>4, LatestIsUsage DEF Follows
    <3>6. ~(fed < sent)
      BY <2>1, <3>1
    <3>7. QED BY <3>3, <3>5, <3>6
  <2>5. QED BY <2>3, <2>4
<1>2. QED BY <1>1, SocketInvIsInductive, PTL DEF SocketSpec

-----------------------------------------------------------------------------
(* Panel *)

PanelSpec == PanelInit /\ [][PanelNext]_panelVars

LEMMA MaxOfNaturals ==
    ASSUME NEW S, S \subseteq Nat, IsFiniteSet(S), S # {}
    PROVE  Max(S) \in S /\ \A y \in S : y <= Max(S)
<1> DEFINE f == [x \in S |-> x]
<1>1. \A x \in S : f[x] \in Int
  OBVIOUS
<1>2. PICK x \in S : \A y \in S : f[y] <= f[x]
  <2> HIDE DEF f
  <2>1. QED BY <1>1, HasLargest
<1>3. x \in S /\ \A y \in S : x >= y
  BY <1>2
<1>4. QED BY <1>3 DEF Max

LEMMA MinOfNaturals ==
    ASSUME NEW S, S \subseteq Nat, S # {}
    PROVE  Min(S) \in S /\ \A y \in S : Min(S) <= y
<1>1. PICK x \in S : \A y \in S : x <= y
  BY LeastNatural
<1>2. QED BY <1>1 DEF Min

(* What it is to begin with a body, and to show one, place by place. *)
Begins(s, t) == Len(s) <= Len(t) /\ \A m \in 1..Len(s) : s[m] = t[m]
ShownFrom(view, body, k) ==
    k + Len(body) <= Len(view) /\ \A m \in 1..Len(body) : body[m] = view[k + m]

LEMMA PrefixIs ==
    ASSUME NEW U, NEW s \in Seq(U), NEW t \in Seq(U)
    PROVE  IsPrefix(s, t) <=> Begins(s, t)
<1>1. CASE Len(s) <= Len(t)
  <2>1. /\ SubSeq(s, 1, Len(s)) \in Seq(U) /\ SubSeq(t, 1, Len(s)) \in Seq(U)
        /\ Len(SubSeq(s, 1, Len(s))) = Len(s) /\ Len(SubSeq(t, 1, Len(s))) = Len(s)
        /\ \A m \in 1..Len(s) : SubSeq(s, 1, Len(s))[m] = s[m] /\ SubSeq(t, 1, Len(s))[m] = t[m]
    BY <1>1
  <2>2. CASE SubSeq(s, 1, Len(s)) = SubSeq(t, 1, Len(s))
    BY <1>1, <2>1, <2>2 DEF IsPrefix, Begins
  <2>3. CASE Begins(s, t)
    <3>1. SubSeq(s, 1, Len(s)) = SubSeq(t, 1, Len(s))
      BY <2>1, <2>3, SeqEqual DEF Begins
    <3>2. QED BY <1>1, <2>3, <3>1 DEF IsPrefix
  <2>4. QED BY <2>2, <2>3 DEF IsPrefix
<1>2. QED BY <1>1 DEF IsPrefix, Begins

LEMMA ShowsIs ==
    ASSUME NEW U, NEW view \in Seq(U), NEW body \in Seq(U)
    PROVE  Shows(view, body) <=> \E k \in 0..Len(view) : ShownFrom(view, body, k)
<1>1. ASSUME NEW k \in 0..Len(view)
      PROVE  IsPrefix(body, SubSeq(view, k + 1, Len(view))) <=> ShownFrom(view, body, k)
  <2>1. PICK rest : rest = SubSeq(view, k + 1, Len(view))
    OBVIOUS
  <2>2. /\ rest \in Seq(U) /\ Len(rest) = Len(view) - k
        /\ \A m \in 1..(Len(view) - k) : rest[m] = view[k + m]
    BY <2>1
  <2>3. IsPrefix(body, rest) <=> Begins(body, rest)
    BY <2>2, PrefixIs
  <2>4. Len(body) \in Nat /\ Len(view) \in Nat
    OBVIOUS
  <2>5. Begins(body, rest) <=> ShownFrom(view, body, k)
    <3>1. PICK b \in Nat : b = Len(body)
      BY <2>4
    <3>2. PICK v \in Nat : v = Len(view)
      BY <2>4
    <3>3. k \in Nat /\ (b <= v - k <=> k + b <= v)
      BY <3>2
    <3>4. b <= v - k => \A m \in 1..b : rest[m] = view[k + m]
      <4>1. b <= v - k => \A m \in 1..b : m \in 1..(v - k)
        BY <3>2
      <4>2. QED BY <2>2, <3>2, <4>1
    <3>5. Len(rest) = v - k
      BY <2>2, <3>2
    <3>6. CASE b <= v - k
      BY <3>1, <3>2, <3>3, <3>4, <3>5, <3>6 DEF Begins, ShownFrom
    <3>7. CASE ~(b <= v - k)
      BY <3>1, <3>2, <3>3, <3>5, <3>7 DEF Begins, ShownFrom
    <3>8. QED BY <3>6, <3>7
  <2>6. QED BY <2>1, <2>3, <2>5
<1>2. QED BY <1>1 DEF Shows

(* A message, as its sender wrote it. *)
Messages == [words : Nat, rest : {0, 1}]

(* Merging keeps what the view shows, and shows what is merged. *)
LEMMA MergeShows ==
    ASSUME NEW view \in Seq(Messages), NEW next \in Seq(Messages)
    PROVE  /\ MergePromptItems(view, next) \in Seq(Messages)
           /\ Shows(MergePromptItems(view, next), next)
           /\ \A body \in Seq(Messages) :
                 Shows(view, body) => Shows(MergePromptItems(view, next), body)
<1> DEFINE Shared(n) == SubSeq(view, Len(view) - n + 1, Len(view)) = SubSeq(next, 1, n)
           least == Min({Len(view), Len(next)})
           S == {n \in 0..least : Shared(n)}
<1>1. Len(view) \in Nat /\ Len(next) \in Nat
  OBVIOUS
<1>2. least \in Nat /\ least <= Len(view) /\ least <= Len(next)
  <2>1. {Len(view), Len(next)} \subseteq Nat /\ {Len(view), Len(next)} # {}
    BY <1>1
  <2>2. QED BY <2>1, MinOfNaturals
<1>3. PICK n : n = Max(S)
  OBVIOUS
<1>4. n \in 0..least /\ Shared(n)
  <2>1. Shared(0)
    BY <1>1
  <2>2. 0 \in S /\ S \subseteq 0..least /\ S \subseteq Nat
    BY <1>2, <2>1
  <2>3. IsFiniteSet(S)
    <3>1. PICK l : l = least
      OBVIOUS
    <3>2. IsFiniteSet(0..l)
      BY <1>2, <3>1, FS_Interval
    <3>3. S \subseteq 0..l
      BY <3>1
    <3> HIDE DEF S, least
    <3>4. QED BY <3>2, <3>3, FS_Subset
  <2>4. n \in S
    <3> HIDE DEF S
    <3>1. QED BY <1>3, <2>2, <2>3, MaxOfNaturals
  <2>5. QED BY <2>4
<1>5. PICK merged : merged = MergePromptItems(view, next)
  OBVIOUS
<1>6. PICK tail : tail = SubSeq(next, n + 1, Len(next))
  OBVIOUS
<1>7. merged = view \o tail
  BY <1>3, <1>5, <1>6 DEF MergePromptItems
<1> HIDE DEF S, least
<1>8. n \in Nat /\ n <= Len(view) /\ n <= Len(next)
  BY <1>2, <1>4
<1>9. /\ tail \in Seq(Messages) /\ Len(tail) = Len(next) - n
      /\ \A m \in 1..(Len(next) - n) : tail[m] = next[n + m]
  BY <1>1, <1>6, <1>8
<1>10. /\ merged \in Seq(Messages) /\ Len(merged) = Len(view) + Len(next) - n
       /\ \A m \in 1..Len(view) : merged[m] = view[m]
       /\ \A m \in 1..(Len(next) - n) : merged[Len(view) + m] = next[n + m]
  <2>1. merged \in Seq(Messages) /\ Len(merged) = Len(view) + Len(tail)
    BY <1>7, <1>9, ConcatProperties
  <2>2. /\ \A m \in 1..Len(view) : merged[m] = view[m]
        /\ \A m \in 1..Len(tail) : merged[Len(view) + m] = tail[m]
    BY <1>1, <1>7, <1>9
  <2>3. QED BY <1>1, <1>8, <1>9, <2>1, <2>2
<1>11. \A m \in 1..n : view[Len(view) - n + m] = next[m]
  <2>1. PICK s : s = SubSeq(view, Len(view) - n + 1, Len(view))
    OBVIOUS
  <2>2. PICK t : t = SubSeq(next, 1, n)
    OBVIOUS
  <2>3. \A m \in 1..n : s[m] = view[Len(view) - n + m]
    <3>1. PICK k : k = Len(view) - n
      OBVIOUS
    <3>2. k \in Nat /\ k + n = Len(view) /\ s = SubSeq(view, k + 1, Len(view))
      BY <1>1, <1>8, <2>1, <3>1
    <3>3. \A m \in 1..(Len(view) - k) : s[m] = view[k + m]
      BY <1>1, <3>2
    <3>4. TAKE m \in 1..n
    <3>5. m \in 1..(Len(view) - k)
      BY <1>1, <1>8, <3>2
    <3>6. s[m] = view[k + m]
      BY <3>3, <3>5
    <3>7. QED BY <3>1, <3>6
  <2>4. \A m \in 1..n : t[m] = next[m]
    BY <1>1, <1>8, <2>2
  <2>5. s = t
    BY <1>4, <2>1, <2>2
  <2>6. QED BY <2>3, <2>4, <2>5
<1>12. ShownFrom(merged, next, Len(view) - n)
  <2>1. PICK k : k = Len(view) - n
    OBVIOUS
  <2>2. k \in Nat /\ k + n = Len(view) /\ k + Len(next) <= Len(merged)
    BY <1>1, <1>8, <1>10, <2>1
  <2>3. ASSUME NEW m \in 1..Len(next)
        PROVE  next[m] = merged[k + m]
    <3>1. CASE m <= n
      <4>1. m \in 1..n /\ k + m \in 1..Len(view)
        BY <1>1, <1>8, <2>2, <3>1
      <4>2. QED BY <1>10, <1>11, <2>1, <4>1
    <3>2. CASE m > n
      <4>1. m - n \in 1..(Len(next) - n) /\ Len(view) + (m - n) = k + m /\ n + (m - n) = m
        BY <1>1, <1>8, <2>2, <3>2
      <4>2. QED BY <1>10, <4>1
    <3>3. QED BY <1>8, <3>1, <3>2
  <2>4. QED BY <2>1, <2>2, <2>3 DEF ShownFrom
<1>13. Shows(merged, next)
  <2>1. Len(view) - n \in 0..Len(merged)
    BY <1>1, <1>8, <1>10
  <2>2. QED BY <1>10, <1>12, <2>1, ShowsIs
<1>14. ASSUME NEW body \in Seq(Messages), Shows(view, body)
       PROVE  Shows(merged, body)
  <2>1. PICK k \in 0..Len(view) : ShownFrom(view, body, k)
    BY <1>14, ShowsIs
  <2>2. Len(body) \in Nat
    OBVIOUS
  <2>3. k \in 0..Len(merged) /\ ShownFrom(merged, body, k)
    <3>1. k + Len(body) <= Len(view) /\ \A m \in 1..Len(body) : body[m] = view[k + m]
      BY <2>1 DEF ShownFrom
    <3>2. \A m \in 1..Len(body) : k + m \in 1..Len(view)
      BY <1>1, <2>2, <3>1
    <3>3. Len(view) <= Len(merged)
      BY <1>1, <1>8, <1>10
    <3>4. QED BY <1>1, <1>10, <2>2, <3>1, <3>2, <3>3 DEF ShownFrom
  <2>4. QED BY <1>10, <2>3, ShowsIs
<1>15. QED BY <1>5, <1>10, <1>13, <1>14

(* The view of mergePrompts, call by call.  That the recursive function
   satisfies its equation follows from partial solutions that agree. *)
After(bodies, n, view) ==
    IF n \in DOMAIN bodies THEN MergePromptItems(view, bodies[n]) ELSE view
IsView(g, bodies, n) ==
    \A m \in 0..n : g[m] = IF m = 0 THEN <<>> ELSE After(bodies, m, g[m - 1])
IsWholeView(g, bodies) ==
    g = [n \in Nat |-> IF n = 0 THEN <<>>
                       ELSE IF n \in DOMAIN bodies THEN MergePromptItems(g[n - 1], bodies[n])
                       ELSE g[n - 1]]

LEMMA ViewsAgree ==
    ASSUME NEW bodies, NEW j \in Nat, NEW k \in Nat, NEW g, NEW h,
           IsView(g, bodies, j), IsView(h, bodies, k), NEW n \in Nat, n <= j, n <= k
    PROVE  g[n] = h[n]
<1> DEFINE B == {m \in 0..n : g[m] # h[m]}
<1> SUFFICES ASSUME B # {} PROVE FALSE
  OBVIOUS
<1>1. PICK m \in B : \A i \in B : m <= i
  <2>1. B \subseteq Nat
    OBVIOUS
  <2> HIDE DEF B
  <2>2. QED BY <2>1, LeastNatural
<1>2. m \in 0..j /\ m \in 0..k /\ m \in 0..n /\ g[m] # h[m]
  BY <1>1
<1>3. m # 0
  BY <1>2 DEF IsView
<1>4. g[m - 1] = h[m - 1]
  <2>1. m - 1 \in 0..n /\ ~(m <= m - 1)
    BY <1>2, <1>3
  <2>2. QED BY <1>1, <2>1
<1>5. g[m] = After(bodies, m, g[m - 1]) /\ h[m] = After(bodies, m, h[m - 1])
  BY <1>2, <1>3 DEF IsView
<1>6. QED BY <1>2, <1>4, <1>5

LEMMA ViewExists ==
    ASSUME NEW bodies, NEW n \in Nat
    PROVE  \E g : IsView(g, bodies, n)
<1> DEFINE B == {m \in Nat : ~ \E g : IsView(g, bodies, m)}
<1> SUFFICES ASSUME B # {} PROVE FALSE
  OBVIOUS
<1>1. PICK m \in B : \A i \in B : m <= i
  <2>1. B \subseteq Nat
    OBVIOUS
  <2> HIDE DEF B
  <2>2. QED BY <2>1, LeastNatural
<1>2. CASE m = 0
  <2> DEFINE f == [i \in 0..m |-> <<>>]
  <2>1. IsView(f, bodies, m)
    BY <1>2 DEF IsView
  <2>2. QED BY <1>1, <2>1
<1>3. CASE m # 0
  <2>1. m - 1 \in Nat /\ m - 1 \notin B
    BY <1>1, <1>3
  <2>2. PICK g : IsView(g, bodies, m - 1)
    BY <2>1
  <2> DEFINE f == [i \in 0..m |-> IF i < m THEN g[i] ELSE After(bodies, m, g[m - 1])]
  <2>3. ASSUME NEW i \in 0..m
        PROVE  f[i] = IF i = 0 THEN <<>> ELSE After(bodies, i, f[i - 1])
    <3>1. CASE i < m
      <4>1. i \in 0..(m - 1) /\ f[i] = g[i]
        BY <2>1, <3>1
      <4>2. g[i] = IF i = 0 THEN <<>> ELSE After(bodies, i, g[i - 1])
        BY <2>2, <4>1 DEF IsView
      <4>3. i # 0 => f[i - 1] = g[i - 1]
        BY <2>1, <3>1
      <4>4. QED BY <4>1, <4>2, <4>3
    <3>2. CASE i = m
      <4>1. f[m - 1] = g[m - 1] /\ f[m] = After(bodies, m, g[m - 1])
        BY <1>3, <2>1
      <4>2. QED BY <1>3, <3>2, <4>1
    <3>3. QED BY <3>1, <3>2
  <2>4. IsView(f, bodies, m)
    BY <2>3 DEF IsView
  <2>5. QED BY <1>1, <2>4
<1>4. QED BY <1>2, <1>3

LEMMA WholeView ==
    ASSUME NEW bodies
    PROVE  \E g : /\ \A n \in Nat : IsView(g, bodies, n)
                  /\ MergePrompts(bodies) = g[Max({0} \cup DOMAIN bodies)]
<1> DEFINE G(k) == CHOOSE g : IsView(g, bodies, k)
           D == [k \in Nat |-> G(k)[k]]
<1>1. \A k \in Nat : IsView(G(k), bodies, k)
  BY ViewExists
<1> HIDE DEF G
<1>2. ASSUME NEW k \in Nat
      PROVE  D[k] = IF k = 0 THEN <<>> ELSE After(bodies, k, D[k - 1])
  <2>1. k \in 0..k /\ D[k] = G(k)[k]
    OBVIOUS
  <2>2. G(k)[k] = IF k = 0 THEN <<>> ELSE After(bodies, k, G(k)[k - 1])
    BY <1>1, <2>1 DEF IsView
  <2>3. CASE k # 0
    <3>1. k - 1 \in Nat /\ k - 1 <= k /\ IsView(G(k), bodies, k) /\ IsView(G(k - 1), bodies, k - 1)
      BY <1>1, <2>3
    <3>2. G(k)[k - 1] = G(k - 1)[k - 1]
      BY <3>1, ViewsAgree
    <3>3. D[k - 1] = G(k - 1)[k - 1]
      BY <3>1
    <3>4. QED BY <2>1, <2>2, <2>3, <3>2, <3>3
  <2>4. QED BY <2>1, <2>2, <2>3
<1>3. D = [n \in Nat |-> IF n = 0 THEN <<>> ELSE After(bodies, n, D[n - 1])]
  BY <1>2
<1>4. IsWholeView(D, bodies)
  <2> HIDE DEF D
  <2>1. QED BY <1>3 DEF IsWholeView, After
<1>5. PICK g : g = CHOOSE h : IsWholeView(h, bodies)
  OBVIOUS
<1>6. IsWholeView(g, bodies)
  <2> HIDE DEF D
  <2>1. QED BY <1>4, <1>5
<1>7. MergePrompts(bodies) = g[Max({0} \cup DOMAIN bodies)]
  BY <1>5 DEF MergePrompts, IsWholeView
<1>8. \A n \in Nat : IsView(g, bodies, n)
  BY <1>6 DEF IsWholeView, IsView, After
<1>9. QED BY <1>7, <1>8

Bodies(bodies) ==
    /\ DOMAIN bodies \subseteq Nat \ {0} /\ IsFiniteSet(DOMAIN bodies)
    /\ \A i \in DOMAIN bodies : bodies[i] \in Seq(Messages)

(* Every body that is merged is shown by the view. *)
LEMMA MergeShowsAll ==
    ASSUME NEW bodies, Bodies(bodies)
    PROVE  /\ MergePrompts(bodies) \in Seq(Messages)
           /\ \A i \in DOMAIN bodies : Shows(MergePrompts(bodies), bodies[i])
<1>1. PICK g : /\ \A n \in Nat : IsView(g, bodies, n)
               /\ MergePrompts(bodies) = g[Max({0} \cup DOMAIN bodies)]
  BY WholeView
<1> DEFINE Good(n) == /\ g[n] \in Seq(Messages)
                      /\ \A i \in DOMAIN bodies : i <= n => Shows(g[n], bodies[i])
           B == {n \in Nat : ~Good(n)}
<1>2. B = {}
  <2> SUFFICES ASSUME B # {} PROVE FALSE
    OBVIOUS
  <2>1. PICK n \in B : \A m \in B : n <= m
    <3>1. B \subseteq Nat
      OBVIOUS
    <3> HIDE DEF B
    <3>2. QED BY <3>1, LeastNatural
  <2>2. n \in Nat /\ ~Good(n) /\ n \in 0..n
    BY <2>1
  <2>3. g[n] = IF n = 0 THEN <<>> ELSE After(bodies, n, g[n - 1])
    BY <1>1, <2>2 DEF IsView
  <2>4. CASE n = 0
    <3>1. g[n] \in Seq(Messages)
      BY <2>3, <2>4
    <3>2. \A i \in DOMAIN bodies : ~(i <= n)
      BY <2>4 DEF Bodies
    <3>3. QED BY <2>2, <3>1, <3>2
  <2>5. CASE n # 0
    <3>1. n - 1 \in Nat /\ Good(n - 1)
      BY <2>1, <2>2, <2>5
    <3>2. PICK view : view = g[n - 1]
      OBVIOUS
    <3>3. /\ view \in Seq(Messages) /\ g[n] = After(bodies, n, view)
          /\ \A i \in DOMAIN bodies : i <= n - 1 => Shows(view, bodies[i])
      BY <2>3, <2>5, <3>1, <3>2
    <3>4. \A i \in DOMAIN bodies : i \in Nat /\ (i <= n => i <= n - 1 \/ i = n)
      BY <2>2 DEF Bodies
    <3>5. CASE n \in DOMAIN bodies
      <4>1. PICK next : next = bodies[n]
        OBVIOUS
      <4>2. next \in Seq(Messages) /\ g[n] = MergePromptItems(view, next)
        BY <3>3, <3>5, <4>1 DEF Bodies, After
      <4>3. g[n] \in Seq(Messages) /\ Shows(g[n], next)
            /\ \A body \in Seq(Messages) : Shows(view, body) => Shows(g[n], body)
        BY <3>3, <4>2, MergeShows
      <4>4. \A i \in DOMAIN bodies : i <= n => Shows(g[n], bodies[i])
        BY <3>3, <3>4, <4>1, <4>3 DEF Bodies
      <4>5. QED BY <2>2, <4>3, <4>4
    <3>6. CASE n \notin DOMAIN bodies
      <4>1. g[n] = view
        BY <3>3, <3>6 DEF After
      <4>2. \A i \in DOMAIN bodies : i <= n => i <= n - 1
        BY <3>4, <3>6
      <4>3. QED BY <2>2, <3>3, <4>1, <4>2
    <3>7. QED BY <3>5, <3>6
  <2>6. QED BY <2>4, <2>5
<1>3. PICK end : end = Max({0} \cup DOMAIN bodies)
  OBVIOUS
<1>4. end \in Nat /\ \A i \in DOMAIN bodies : i <= end
  <2>1. {0} \cup DOMAIN bodies \subseteq Nat /\ {0} \cup DOMAIN bodies # {}
    BY DEF Bodies
  <2>2. IsFiniteSet({0} \cup DOMAIN bodies)
    BY FS_Singleton, FS_Union DEF Bodies
  <2>3. QED BY <1>3, <2>1, <2>2, MaxOfNaturals
<1>5. Good(end)
  BY <1>2, <1>4
<1>6. QED BY <1>1, <1>3, <1>4, <1>5

(* The words of a body, and of a view that shows it. *)
LEMMA WordsOf ==
    ASSUME NEW body \in Seq(Messages)
    PROVE  /\ Words(body) \in Seq(Nat) /\ Len(Words(body)) = Len(body)
           /\ \A k \in 1..Len(body) : Words(body)[k] = body[k].words
<1>1. Len(body) \in Nat /\ DOMAIN body = 1..Len(body)
  OBVIOUS
<1>2. \A k \in 1..Len(body) : body[k].words \in Nat
  <2>1. \A k \in 1..Len(body) : body[k] \in Messages
    BY <1>1
  <2>2. QED BY <2>1 DEF Messages
<1>3. Words(body) = [k \in 1..Len(body) |-> body[k].words]
  BY <1>1 DEF Words
<1>4. QED BY <1>1, <1>2, <1>3

LEMMA WordsAreShown ==
    ASSUME NEW view \in Seq(Messages), NEW body \in Seq(Messages), Shows(view, body)
    PROVE  Shows(Words(view), Words(body))
<1>1. PICK k \in 0..Len(view) : ShownFrom(view, body, k)
  BY ShowsIs
<1>2. Len(view) \in Nat /\ Len(body) \in Nat /\ k + Len(body) <= Len(view)
  BY <1>1 DEF ShownFrom
<1>3. \A m \in 1..Len(body) : k + m \in 1..Len(view) /\ body[m] = view[k + m]
  BY <1>1, <1>2 DEF ShownFrom
<1>4. PICK v \in Seq(Nat) : v = Words(view)
  BY WordsOf
<1>5. PICK b \in Seq(Nat) : b = Words(body)
  BY WordsOf
<1>6. Len(v) = Len(view) /\ \A m \in 1..Len(view) : v[m] = view[m].words
  BY <1>4, WordsOf
<1>7. Len(b) = Len(body) /\ \A m \in 1..Len(body) : b[m] = body[m].words
  BY <1>5, WordsOf
<1>8. ShownFrom(v, b, k)
  BY <1>2, <1>3, <1>6, <1>7 DEF ShownFrom
<1>9. Shows(v, b)
  BY <1>6, <1>8, ShowsIs
<1>10. QED BY <1>4, <1>5, <1>9

(* Fingerprints of the bodies, as sessionShapes has them. *)
Prints == [count : Nat, head : Nat, tail : Seq(Nat)]
ShapesOK(shapes, n) ==
    /\ DOMAIN shapes \subseteq 1..n
    /\ \A i \in DOMAIN shapes : shapes[i].print.count \in Nat

LEMMA ThreadIs ==
    ASSUME NEW n \in Nat, NEW shapes, ShapesOK(shapes, n), NEW i \in DOMAIN shapes
    PROVE  /\ Thread(shapes, i) \subseteq 1..n
           /\ Thread(shapes, i) \subseteq DOMAIN shapes
           /\ \A j \in Thread(shapes, i) : Thread(shapes, j) = Thread(shapes, i)
BY DEF Thread, ShapesOK

(* Along a run the first message stays, and a request is longer or the same. *)
AtLeast(shapes, i, j) ==
    /\ shapes[i].print.count <= shapes[j].print.count
    /\ shapes[i].print.count = shapes[j].print.count => shapes[i].print.tail = shapes[j].print.tail

LEMMA RunHolds ==
    ASSUME NEW n \in Nat, NEW shapes, ShapesOK(shapes, n), NEW i \in DOMAIN shapes,
           NEW j \in Thread(shapes, i), i \in Thread(shapes, i), i <= j, SameRun(shapes, i, j)
    PROVE  AtLeast(shapes, i, j)
<1> DEFINE T == Thread(shapes, i)
           B == {k \in T : i <= k /\ k <= j /\ ~AtLeast(shapes, i, k)}
<1>1. T \subseteq 1..n /\ T \subseteq DOMAIN shapes
  BY ThreadIs
<1>2. B = {}
  <2> SUFFICES ASSUME B # {} PROVE FALSE
    OBVIOUS
  <2>1. PICK k \in B : \A m \in B : k <= m
    <3>1. B \subseteq Nat
      BY <1>1
    <3> HIDE DEF B
    <3>2. QED BY <3>1, LeastNatural
  <2>2. k \in T /\ k \in Nat /\ i \in Nat /\ j \in Nat /\ i <= k /\ k <= j /\ ~AtLeast(shapes, i, k)
    BY <1>1, <2>1
  <2>3. k # i
    BY <2>2 DEF AtLeast, ShapesOK
  <2> DEFINE P == {x \in T : x < k}
  <2>4. P \subseteq Nat /\ i \in P /\ IsFiniteSet(P)
    <3>1. IsFiniteSet(1..n)
      BY FS_Interval
    <3>2. P \subseteq 1..n
      BY <1>1
    <3>3. IsFiniteSet(P)
      BY <3>1, <3>2, FS_Subset
    <3>4. QED BY <1>1, <2>2, <2>3, <3>3
  <2>5. PICK p : p = Max(P)
    OBVIOUS
  <2>6. p \in P /\ \A y \in P : y <= p
    <3> HIDE DEF P
    <3>1. QED BY <2>4, <2>5, MaxOfNaturals
  <2>7. p \in T /\ p \in Nat /\ i <= p /\ p < k /\ p < j
    BY <1>1, <2>2, <2>4, <2>6
  <2> DEFINE R == {x \in T : x > p}
  <2>8. Min(R) = k
    <3>1. R \subseteq Nat /\ k \in R
      BY <1>1, <2>2, <2>7
    <3>2. \A y \in R : k <= y
      BY <1>1, <2>2, <2>6, <2>7
    <3>3. PICK m : m = Min(R)
      OBVIOUS
    <3>4. m \in R /\ \A y \in R : m <= y
      <4> HIDE DEF R
      <4>1. QED BY <3>1, <3>3, MinOfNaturals
    <3>5. m <= k /\ k <= m /\ m \in Nat
      BY <3>1, <3>2, <3>4
    <3>6. QED BY <2>2, <3>3, <3>5
  <2>9. Extends(shapes[p], shapes[k])
    BY <2>7, <2>8 DEF SameRun
  <2>10. AtLeast(shapes, i, p)
    <3>1. p \notin B
      BY <2>1, <2>2, <2>7
    <3>2. QED BY <2>2, <2>7, <3>1
  <2>11. /\ shapes[i].print.count \in Nat /\ shapes[p].print.count \in Nat
         /\ shapes[k].print.count \in Nat
    BY <1>1, <2>2, <2>7 DEF ShapesOK
  <2>12. AtLeast(shapes, i, k)
    BY <2>9, <2>10, <2>11 DEF AtLeast, Extends
  <2>13. QED BY <2>2, <2>12
<1>3. j \in T /\ j \in Nat
  BY <1>1
<1>4. QED BY <1>2, <1>3

LEMMA RunsJoin ==
    ASSUME NEW n \in Nat, NEW shapes, ShapesOK(shapes, n), NEW i \in DOMAIN shapes,
           NEW j \in Thread(shapes, i), NEW k \in Thread(shapes, i),
           SameRun(shapes, i, j), SameRun(shapes, j, k)
    PROVE  SameRun(shapes, i, k)
<1>1. /\ Thread(shapes, j) = Thread(shapes, i) /\ Thread(shapes, i) \subseteq 1..n
  BY ThreadIs
<1>2. SUFFICES ASSUME NEW x \in Thread(shapes, i), i <= x, x < k
               PROVE  Extends(shapes[x], shapes[Min({y \in Thread(shapes, i) : y > x})])
  BY DEF SameRun
<1>3. x \in Nat /\ j \in Nat
  BY <1>1
<1>4. CASE x < j
  BY <1>2, <1>4 DEF SameRun
<1>5. CASE j <= x
  BY <1>1, <1>2, <1>5 DEF SameRun
<1>6. QED BY <1>3, <1>4, <1>5

(* What the cover leaves out has a member of the cover behind it in its run. *)
LEMMA CoverHolds ==
    ASSUME NEW n \in Nat, NEW shapes, ShapesOK(shapes, n), NEW i \in DOMAIN shapes,
           shapes[i].raw, i \notin MessageCover(shapes)
    PROVE  \E j \in MessageCover(shapes) :
              /\ j > i /\ j \in Thread(shapes, i) /\ i \in Thread(shapes, i)
              /\ AtLeast(shapes, i, j)
<1> DEFINE T == Thread(shapes, i)
           S == {j \in T : j > i /\ shapes[j].raw /\ SameRun(shapes, i, j)}
<1>1. T \subseteq 1..n /\ T \subseteq DOMAIN shapes /\ i \in 1..n
  BY ThreadIs DEF ShapesOK
<1>2. Stamped(shapes[i]) /\ S # {}
  BY DEF MessageCover
<1>3. i \in T
  BY <1>2 DEF Thread
<1>4. PICK j : j = Max(S)
  OBVIOUS
<1>5. j \in S /\ \A y \in S : y <= j
  <2>1. S \subseteq 1..n /\ S \subseteq Nat
    BY <1>1
  <2>2. IsFiniteSet(1..n)
    BY FS_Interval
  <2>3. IsFiniteSet(S)
    BY <2>1, <2>2, FS_Subset
  <2> HIDE DEF S
  <2>4. QED BY <1>2, <1>4, <2>1, <2>3, MaxOfNaturals
<1>6. j \in T /\ j > i /\ i \in Nat /\ j \in Nat /\ shapes[j].raw /\ SameRun(shapes, i, j)
  BY <1>1, <1>5
<1>7. j \in MessageCover(shapes)
  <2>1. SUFFICES ASSUME NEW k \in Thread(shapes, j), k > j, shapes[k].raw, SameRun(shapes, j, k)
                 PROVE  FALSE
    BY <1>1, <1>6 DEF MessageCover
  <2>2. k \in T /\ k \in Nat
    BY <1>1, <1>6, ThreadIs
  <2>3. SameRun(shapes, i, k)
    BY <1>6, <2>1, <2>2, RunsJoin
  <2>4. k \in S
    BY <1>6, <2>1, <2>2, <2>3
  <2>5. QED BY <1>5, <1>6, <2>1, <2>2, <2>4
<1>8. AtLeast(shapes, i, j)
  BY <1>3, <1>6, RunHolds
<1>9. QED BY <1>3, <1>6, <1>7, <1>8

(* The calls on record, and what an open panel is worth.  A body the cover
   left out begins, word for word, one that was chosen, or was rewritten: that
   stays so whatever is sent, stamped or pruned until the bodies are read,
   since what retention takes of the chosen ones is older than what is left. *)
Texts == Seq(Messages) \ {<<>>}
CallRows == {c \in [agent : Agents, body : Texts, print : Prints] :
                c.print \in {Unstamped, Fingerprint(c.body)}}
PanelTypeOK ==
    /\ context \in [Agents -> Seq(Messages)] /\ said \in Nat
    /\ calls \in Seq(CallRows)
    /\ goneCalls \in Nat /\ goneBodies \in Nat
    /\ viewer \in [at : {"shut", "reading", "shown"}, upTo : Nat, ids : SUBSET Nat,
                   shown : Seq(Messages), omitted : Nat]
    /\ viewer.upTo <= Len(calls)

HeldBy(i, ids) ==
    \E j \in ids :
        /\ j >= i /\ calls[j].agent = calls[i].agent
        /\ IsPrefix(Words(calls[i].body), Words(calls[j].body))

ReadingOK ==
    viewer.at = "reading" =>
        /\ viewer.ids \subseteq 1..viewer.upTo
        /\ \A i \in 1..viewer.upTo : HasRaw(i) => HeldBy(i, viewer.ids) \/ RewrittenAfter(i)

PanelInv == PanelTypeOK /\ ReadingOK /\ CapturedIsShown

LEMMA PanelInvInit == PanelInit => PanelInv
<1> SUFFICES ASSUME PanelInit PROVE PanelInv
  OBVIOUS
<1>1. context \in [Agents -> Seq(Messages)] /\ calls \in Seq(CallRows) /\ Len(calls) = 0
  BY DEF PanelInit
<1>2. viewer.at = "shut" /\ viewer.upTo = 0 /\ said = 0 /\ goneCalls = 0 /\ goneBodies = 0
  BY DEF PanelInit, Shut
<1>3. viewer \in [at : {"shut", "reading", "shown"}, upTo : Nat, ids : SUBSET Nat,
                 shown : Seq(Messages), omitted : Nat]
  BY EmptySeq DEF PanelInit, Shut
<1>4. QED BY <1>1, <1>2, <1>3 DEF PanelInv, PanelTypeOK, ReadingOK, CapturedIsShown

(* The agents' contexts stay sequences of numbered messages. *)
LEMMA ContextsAreTexts ==
    ASSUME NEW ctx \in Seq(Messages), said \in Nat, NEW next \in NextContexts(ctx)
    PROVE  next \in Seq(Messages)
<1>1. \A n \in Nat : News(n) \in Seq(Messages)
  <2>1. TAKE n \in Nat
  <2>2. \A k \in 1..n : [words |-> said + k, rest |-> 0] \in Messages
    BY DEF Messages
  <2>3. PICK f : f = [k \in 1..n |-> [words |-> said + k, rest |-> 0]]
    OBVIOUS
  <2>4. f \in [1..n -> Messages]
    BY <2>2, <2>3
  <2>5. f \in Seq(Messages)
    BY <2>4
  <2>6. QED BY <2>3, <2>5 DEF News
<1>2. \A s \in Seq(Messages), n \in Nat : s \o News(n) \in Seq(Messages)
  BY <1>1
<1>3. Len(ctx) > 1 => Front(ctx) \in Seq(Messages)
  BY DEF Front
<1>4. Len(ctx) > 2 => RemoveAt(ctx, 2) \in Seq(Messages)
  <2>1. ASSUME Len(ctx) > 2
        PROVE  RemoveAt(ctx, 2) \in Seq(Messages)
    <3>1. SubSeq(ctx, 1, 2 - 1) \in Seq(Messages) /\ SubSeq(ctx, 2 + 1, Len(ctx)) \in Seq(Messages)
      BY <2>1
    <3>2. QED BY <3>1 DEF RemoveAt
  <2>2. QED BY <2>1
<1>5. CASE \E n \in 0..2 : next = ctx \o News(n)
  BY <1>2, <1>5
<1>6. CASE next = News(1)
  BY <1>1, <1>6
<1>7. CASE \E n \in 1..2 : Len(ctx) > 1 /\ next = Front(ctx) \o News(n)
  BY <1>2, <1>3, <1>7
<1>8. CASE \E n \in 0..2 : Len(ctx) > 2 /\ next = RemoveAt(ctx, 2) \o News(n)
  <2>1. PICK n \in 0..2 : Len(ctx) > 2 /\ next = RemoveAt(ctx, 2) \o News(n)
    BY <1>8
  <2>2. RemoveAt(ctx, 2) \in Seq(Messages) /\ n \in Nat
    BY <1>4, <2>1
  <2>3. QED BY <1>2, <2>1, <2>2
<1>9. CASE \E k \in DOMAIN ctx : next = [ctx EXCEPT ![k].rest = 1]
  <2>1. PICK k \in 1..Len(ctx) : next = [ctx EXCEPT ![k].rest = 1]
    <3>1. DOMAIN ctx = 1..Len(ctx)
      OBVIOUS
    <3>2. QED BY <1>9, <3>1
  <2>2. PICK swapped : swapped = [ctx[k] EXCEPT !.rest = 1]
    OBVIOUS
  <2>3. swapped \in Messages
    <3>1. ctx[k] \in Messages
      BY <2>1
    <3>2. QED BY <2>2, <3>1 DEF Messages
  <2>4. next = [ctx EXCEPT ![k] = swapped]
    BY <2>1, <2>2
  <2>5. QED BY <2>1, <2>3, <2>4
<1>10. QED BY <1>5, <1>6, <1>7, <1>8, <1>9 DEF NextContexts

LEMMA FingerprintType ==
    ASSUME NEW body \in Texts
    PROVE  /\ Fingerprint(body) = [count |-> Len(body), head |-> Words(body)[1],
                                   tail |-> Words(body)]
           /\ Fingerprint(body) \in Prints
           /\ Len(body) \in Nat \ {0}
<1>1. body \in Seq(Messages) /\ body # <<>> /\ Len(body) \in Nat \ {0}
  BY EmptySeq DEF Texts
<1>2. /\ Words(body) \in Seq(Nat) /\ Len(Words(body)) = Len(body)
      /\ Words(body)[1] = body[1].words
  BY <1>1, WordsOf
<1>3. Words(body)[1] \in Nat
  BY <1>1, <1>2
<1>4. QED BY <1>1, <1>2, <1>3 DEF Fingerprint, Prints

LEMMA CallFacts ==
    ASSUME PanelTypeOK, NEW i \in 1..Len(calls)
    PROVE  /\ calls[i].agent \in Agents /\ calls[i].body \in Texts
           /\ calls[i].body \in Seq(Messages) /\ calls[i].print \in Prints
           /\ calls[i].print = Unstamped \/ calls[i].print = Fingerprint(calls[i].body)
           /\ Len(calls[i].body) \in Nat
BY DEF PanelTypeOK, CallRows, Texts

(* Calls are only appended and stamped: what was true of bodies stays. *)
SameBodies ==
    /\ Len(calls') >= Len(calls)
    /\ \A i \in 1..Len(calls) :
          calls'[i].body = calls[i].body /\ calls'[i].agent = calls[i].agent
RetentionGoesOn == goneCalls' >= goneCalls /\ goneBodies' >= goneBodies

LEMMA BodiesStay ==
    ASSUME PanelTypeOK, PanelTypeOK', SameBodies, RetentionGoesOn
    PROVE  /\ \A i \in 1..Len(calls) : HasRaw(i)' => HasRaw(i)
           /\ \A i \in 1..Len(calls) : RewrittenAfter(i) => RewrittenAfter(i)'
           /\ \A i \in 1..Len(calls) : LookAlikeAfter(i) => LookAlikeAfter(i)'
           /\ \A i \in 1..Len(calls) : \A ids \in SUBSET (1..Len(calls)) :
                 HeldBy(i, ids) => HeldBy(i, ids)'
<1>1. /\ Len(calls) \in Nat /\ Len(calls') \in Nat /\ Len(calls') >= Len(calls)
      /\ DOMAIN calls = 1..Len(calls) /\ DOMAIN calls' = 1..Len(calls')
  BY DEF PanelTypeOK, SameBodies
<1>2. \A i \in 1..Len(calls) : HasRaw(i)' => HasRaw(i)
  BY DEF PanelTypeOK, RetentionGoesOn, HasRaw
<1>3. ASSUME NEW i \in 1..Len(calls), RewrittenAfter(i)
      PROVE  RewrittenAfter(i)'
  <2>1. PICK j \in DOMAIN calls :
            /\ j > i /\ calls[j].agent = calls[i].agent
            /\ Head(Words(calls[j].body)) = Head(Words(calls[i].body))
            /\ Len(calls[j].body) > Len(calls[i].body)
            /\ ~IsPrefix(Words(calls[i].body), Words(calls[j].body))
    BY <1>3 DEF RewrittenAfter
  <2>2. /\ calls'[j].body = calls[j].body /\ calls'[j].agent = calls[j].agent
        /\ calls'[i].body = calls[i].body /\ calls'[i].agent = calls[i].agent
        /\ j \in DOMAIN calls'
    BY <1>1 DEF SameBodies
  <2>3. QED BY <2>1, <2>2 DEF RewrittenAfter
<1>4. ASSUME NEW i \in 1..Len(calls), NEW ids \in SUBSET (1..Len(calls)), HeldBy(i, ids)
      PROVE  HeldBy(i, ids)'
  BY <1>4 DEF HeldBy, SameBodies
<1>5. ASSUME NEW i \in 1..Len(calls), LookAlikeAfter(i)
      PROVE  LookAlikeAfter(i)'
  <2>1. PICK j \in DOMAIN calls :
            /\ j > i /\ calls[j].agent = calls[i].agent
            /\ IsPrefix(Words(calls[i].body), Words(calls[j].body))
            /\ ~IsPrefix(calls[i].body, calls[j].body)
    BY <1>5 DEF LookAlikeAfter
  <2>2. /\ calls'[j].body = calls[j].body /\ calls'[j].agent = calls[j].agent
        /\ calls'[i].body = calls[i].body /\ calls'[i].agent = calls[i].agent
        /\ j \in DOMAIN calls'
    BY <1>1 DEF SameBodies
  <2>3. QED BY <2>1, <2>2 DEF LookAlikeAfter
<1>6. QED BY <1>2, <1>3, <1>4, <1>5

LEMMA PanelStays ==
    ASSUME PanelInv, PanelTypeOK', SameBodies, RetentionGoesOn, viewer' = viewer
    PROVE  PanelInv'
<1>1. viewer.upTo \in Nat /\ viewer.upTo <= Len(calls) /\ Len(calls) \in Nat
  BY DEF PanelInv, PanelTypeOK
<1>2. \A i \in 1..viewer.upTo : i \in 1..Len(calls)
  BY <1>1
<1>3. ReadingOK'
  <2>1. SUFFICES ASSUME viewer.at = "reading"
                 PROVE  /\ viewer.ids \subseteq 1..viewer.upTo
                        /\ \A i \in 1..viewer.upTo :
                              HasRaw(i)' => HeldBy(i, viewer.ids)' \/ RewrittenAfter(i)'
    BY DEF ReadingOK, HeldBy, HasRaw, RewrittenAfter
  <2>2. viewer.ids \subseteq 1..viewer.upTo
    BY <2>1 DEF PanelInv, ReadingOK
  <2>3. viewer.ids \in SUBSET (1..Len(calls))
    BY <1>2, <2>2
  <2>4. ASSUME NEW i \in 1..viewer.upTo, HasRaw(i)'
        PROVE  HeldBy(i, viewer.ids)' \/ RewrittenAfter(i)'
    <3>1. HasRaw(i) /\ i \in 1..Len(calls)
      BY <1>2, <2>4, BodiesStay DEF PanelInv
    <3>2. HeldBy(i, viewer.ids) \/ RewrittenAfter(i)
      BY <2>1, <3>1 DEF PanelInv, ReadingOK
    <3>3. QED BY <2>3, <3>1, <3>2, BodiesStay DEF PanelInv
  <2>5. QED BY <2>2, <2>4
<1>4. CapturedIsShown'
  <2>1. SUFFICES ASSUME viewer.at = "shown", NEW i \in 1..viewer.upTo, HasRaw(i)'
                 PROVE  \/ viewer.omitted > 0
                        \/ RewrittenAfter(i)'
                        \/ /\ Shows(Words(viewer.shown), Words(calls'[i].body))
                           /\ Shows(viewer.shown, calls'[i].body) \/ LookAlikeAfter(i)'
    BY DEF CapturedIsShown, HasRaw, RewrittenAfter, LookAlikeAfter
  <2>2. HasRaw(i) /\ i \in 1..Len(calls)
    BY <1>2, <2>1, BodiesStay DEF PanelInv
  <2>3. \/ viewer.omitted > 0
        \/ RewrittenAfter(i)
        \/ /\ Shows(Words(viewer.shown), Words(calls[i].body))
           /\ Shows(viewer.shown, calls[i].body) \/ LookAlikeAfter(i)
    BY <2>1, <2>2 DEF PanelInv, CapturedIsShown
  <2>4. calls'[i].body = calls[i].body
    BY <2>2 DEF SameBodies
  <2>5. QED BY <2>2, <2>3, <2>4, BodiesStay DEF PanelInv
<1>5. QED BY <1>3, <1>4 DEF PanelInv

LEMMA PanelAsk ==
    ASSUME PanelInv, Ask
    PROVE  PanelInv'
<1>1. PICK a \in Agents : \E ctx \in NextContexts(context[a]) \ {<<>>} :
        /\ context' = [context EXCEPT ![a] = ctx]
        /\ said' = Max({said} \cup Range(Words(ctx)))
        /\ \/ calls' = Append(calls, [agent |-> a, body |-> ctx, print |-> Unstamped])
           \/ UNCHANGED calls
        /\ UNCHANGED <<goneCalls, goneBodies, viewer>>
  BY DEF Ask
<1>2. PICK ctx \in NextContexts(context[a]) \ {<<>>} :
        /\ context' = [context EXCEPT ![a] = ctx]
        /\ said' = Max({said} \cup Range(Words(ctx)))
        /\ \/ calls' = Append(calls, [agent |-> a, body |-> ctx, print |-> Unstamped])
           \/ UNCHANGED calls
        /\ UNCHANGED <<goneCalls, goneBodies, viewer>>
  BY <1>1
<1>3. ctx \in Seq(Messages) /\ ctx \in Texts
  <2>1. context[a] \in Seq(Messages) /\ said \in Nat
    BY DEF PanelInv, PanelTypeOK
  <2>2. PICK old : old = context[a]
    OBVIOUS
  <2>3. ctx \in Seq(Messages)
    BY <1>2, <2>1, <2>2, ContextsAreTexts
  <2>4. QED BY <1>2, <2>3 DEF Texts
<1>4. said' \in Nat
  <2> DEFINE words == Words(ctx)
  <2>1. Range(words) \subseteq Nat /\ IsFiniteSet(Range(words))
    <3>1. PICK w \in Seq(Nat) : w = words
      BY <1>3, WordsOf
    <3>2. IsFiniteSet(1..Len(w)) /\ DOMAIN w = 1..Len(w)
      BY <3>1, FS_Interval
    <3>3. w \in Surjection(1..Len(w), Range(w))
      BY <3>1, <3>2 DEF Surjection, Range
    <3>4. IsFiniteSet(Range(w))
      BY <3>2, <3>3, FS_Surjection
    <3>5. Range(w) \subseteq Nat
      BY <3>1, <3>2 DEF Range
    <3>6. QED BY <3>1, <3>4, <3>5
  <2> HIDE DEF words
  <2>2. {said} \cup Range(words) \subseteq Nat /\ {said} \cup Range(words) # {}
    BY <2>1 DEF PanelInv, PanelTypeOK
  <2>3. IsFiniteSet({said} \cup Range(words))
    BY <2>1, FS_Singleton, FS_Union
  <2>4. Max({said} \cup Range(words)) \in Nat
    BY <2>2, <2>3, MaxOfNaturals
  <2>5. QED BY <1>2, <2>4 DEF words
<1>5. context' \in [Agents -> Seq(Messages)]
  BY <1>2, <1>3 DEF PanelInv, PanelTypeOK
<1>6. calls' \in Seq(CallRows) /\ SameBodies
  <2>1. calls \in Seq(CallRows)
    BY DEF PanelInv, PanelTypeOK
  <2>2. CASE UNCHANGED calls
    BY <2>1, <2>2 DEF SameBodies
  <2>3. CASE calls' = Append(calls, [agent |-> a, body |-> ctx, print |-> Unstamped])
    <3>1. Unstamped \in Prints
      BY EmptySeq DEF Unstamped, Prints
    <3>2. [agent |-> a, body |-> ctx, print |-> Unstamped] \in CallRows
      BY <1>3, <3>1 DEF CallRows
    <3>3. PICK c \in CallRows : c = [agent |-> a, body |-> ctx, print |-> Unstamped]
      BY <3>2
    <3>4. calls' = Append(calls, c)
      BY <2>3, <3>3
    <3>5. /\ calls' \in Seq(CallRows) /\ Len(calls') = Len(calls) + 1
          /\ \A i \in 1..Len(calls) : calls'[i] = calls[i]
      BY <2>1, <3>4
    <3>6. QED BY <2>1, <3>5 DEF SameBodies
  <2>4. QED BY <1>2, <2>2, <2>3
<1>7. PanelTypeOK' /\ RetentionGoesOn
  <2>1. viewer' = viewer /\ goneCalls' = goneCalls /\ goneBodies' = goneBodies
    BY <1>2
  <2>2. viewer.upTo <= Len(calls')
    BY <1>6 DEF PanelInv, PanelTypeOK, SameBodies
  <2>3. QED BY <1>4, <1>5, <1>6, <2>1, <2>2 DEF PanelInv, PanelTypeOK, RetentionGoesOn
<1>8. QED BY <1>2, <1>6, <1>7, PanelStays

LEMMA PanelStamp ==
    ASSUME PanelInv, NEW i \in DOMAIN calls, Stamp(i)
    PROVE  PanelInv'
<1>1. i \in 1..Len(calls) /\ calls \in Seq(CallRows) /\ Len(calls) \in Nat
  BY DEF PanelInv, PanelTypeOK
<1>2. calls[i].body \in Texts /\ calls[i] \in CallRows
  BY <1>1 DEF CallRows
<1>3. PICK print : print = Fingerprint(calls[i].body)
  OBVIOUS
<1>4. print \in Prints /\ calls' = [calls EXCEPT ![i].print = print]
  BY <1>2, <1>3, FingerprintType DEF Stamp
<1>5. [calls[i] EXCEPT !.print = print] \in CallRows
  BY <1>2, <1>3, <1>4 DEF CallRows
<1>6. calls' = [calls EXCEPT ![i] = [calls[i] EXCEPT !.print = print]]
  BY <1>4
<1>7. calls' \in Seq(CallRows) /\ Len(calls') = Len(calls)
  BY <1>1, <1>5, <1>6
<1>8. SameBodies
  <2>1. ASSUME NEW k \in 1..Len(calls)
        PROVE  calls'[k].body = calls[k].body /\ calls'[k].agent = calls[k].agent
    <3>1. calls[k] \in CallRows
      BY <1>1
    <3>2. CASE k = i
      BY <1>1, <1>2, <1>6, <3>2 DEF CallRows
    <3>3. CASE k # i
      BY <1>1, <1>6, <3>3
    <3>4. QED BY <3>2, <3>3
  <2>2. QED BY <1>1, <1>7, <2>1 DEF SameBodies
<1>9. viewer' = viewer /\ UNCHANGED <<context, said, goneCalls, goneBodies>>
  BY DEF Stamp
<1>10. PanelTypeOK' /\ RetentionGoesOn
  BY <1>7, <1>9 DEF PanelInv, PanelTypeOK, RetentionGoesOn
<1>11. QED BY <1>8, <1>9, <1>10, PanelStays

LEMMA PanelPrune ==
    ASSUME PanelInv, Prune
    PROVE  PanelInv'
<1>1. /\ viewer' = viewer /\ calls' = calls /\ context' = context /\ said' = said
      /\ goneCalls' \in Nat /\ goneBodies' \in Nat
      /\ goneCalls' >= goneCalls /\ goneBodies' >= goneBodies
  BY DEF Prune, PanelInv, PanelTypeOK
<1>2. SameBodies /\ RetentionGoesOn
  BY <1>1 DEF SameBodies, RetentionGoesOn, PanelInv, PanelTypeOK
<1>3. PanelTypeOK'
  BY <1>1 DEF PanelInv, PanelTypeOK
<1>4. QED BY <1>1, <1>2, <1>3, PanelStays

(* The panel opens: what the cover of the shapes leaves out is held by what
   it chose, or was rewritten. *)
LEMMA PanelOpens ==
    ASSUME PanelInv, OpenPanel
    PROVE  PanelInv'
<1> DEFINE shapes == SessionShapes
           n == Len(calls)
<1>1. PanelTypeOK /\ n \in Nat /\ DOMAIN calls = 1..n
  BY DEF PanelInv, PanelTypeOK
<1>2. /\ viewer'.at = "reading" /\ viewer'.upTo = n /\ viewer'.ids = MessageCover(shapes)
      /\ UNCHANGED <<context, said, calls, goneCalls, goneBodies>>
  BY DEF OpenPanel, Shut
<1>3. /\ DOMAIN shapes = {x \in 1..n : x > goneCalls}
      /\ \A x \in DOMAIN shapes :
            shapes[x] = [agent |-> calls[x].agent, print |-> calls[x].print, raw |-> HasRaw(x)]
  BY <1>1 DEF SessionShapes
<1> HIDE DEF shapes
<1>4. ShapesOK(shapes, n)
  <2>1. \A x \in DOMAIN shapes : calls[x].print \in Prints
    BY <1>1, <1>3, CallFacts
  <2>2. QED BY <1>3, <2>1 DEF ShapesOK, Prints
<1>5. MessageCover(shapes) \subseteq 1..n
  BY <1>3 DEF MessageCover
<1>6. ASSUME NEW i \in 1..n, HasRaw(i), i \notin MessageCover(shapes)
      PROVE  HeldBy(i, MessageCover(shapes)) \/ RewrittenAfter(i)
  <2>1. i \in DOMAIN shapes /\ shapes[i].raw
    <3>1. i > goneCalls
      BY <1>6 DEF HasRaw
    <3>2. QED BY <1>3, <1>6, <3>1
  <2>2. PICK j \in MessageCover(shapes) :
            /\ j > i /\ j \in Thread(shapes, i) /\ i \in Thread(shapes, i)
            /\ AtLeast(shapes, i, j)
    BY <1>1, <1>4, <1>6, <2>1, CoverHolds
  <2>3. /\ j \in DOMAIN shapes /\ Stamped(shapes[i]) /\ Stamped(shapes[j])
        /\ shapes[j].agent = shapes[i].agent /\ shapes[j].print.head = shapes[i].print.head
    BY <2>2 DEF Thread
  <2>4. j \in 1..n /\ j \in DOMAIN calls
    BY <1>1, <1>3, <2>3
  <2>5. PICK s : s = calls[i].body
    OBVIOUS
  <2>6. PICK t : t = calls[j].body
    OBVIOUS
  <2>7. /\ s \in Texts /\ t \in Texts /\ s \in Seq(Messages) /\ t \in Seq(Messages)
        /\ calls[j].agent = calls[i].agent
    BY <1>1, <1>3, <2>1, <2>3, <2>4, <2>5, <2>6, CallFacts
  <2>8. calls[i].print = Fingerprint(s) /\ calls[j].print = Fingerprint(t)
    BY <1>1, <1>3, <2>1, <2>3, <2>4, <2>5, <2>6, CallFacts DEF Stamped, Unstamped
  <2> DEFINE u == Words(s)
             v == Words(t)
  <2>9. /\ shapes[i].print = [count |-> Len(s), head |-> u[1], tail |-> u]
        /\ shapes[j].print = [count |-> Len(t), head |-> v[1], tail |-> v]
    BY <1>3, <2>1, <2>3, <2>7, <2>8, FingerprintType
  <2>10. Len(s) <= Len(t) /\ (Len(s) = Len(t) => u = v) /\ u[1] = v[1]
    BY <2>2, <2>3, <2>9 DEF AtLeast
  <2>11. CASE IsPrefix(u, v)
    <3>1. j >= i
      BY <2>2, <2>4
    <3>2. QED BY <2>2, <2>5, <2>6, <2>7, <2>11, <3>1 DEF HeldBy
  <2>12. CASE ~IsPrefix(u, v)
    <3>1. /\ Len(s) \in Nat /\ Len(t) \in Nat
          /\ u \in Seq(Nat) /\ Len(u) = Len(s) /\ v \in Seq(Nat) /\ Len(v) = Len(t)
      BY <2>7, WordsOf
    <3> HIDE DEF u, v
    <3>2. Len(s) # Len(t)
      <4>1. SUFFICES ASSUME u = v PROVE FALSE
        BY <2>10
      <4>2. QED BY <2>12, <4>1, <3>1 DEF IsPrefix
    <3>3. Len(t) > Len(s) /\ Head(v) = Head(u)
      BY <2>10, <3>1, <3>2
    <3>4. RewrittenAfter(i)
      BY <2>2, <2>4, <2>5, <2>6, <2>7, <2>12, <3>3 DEF RewrittenAfter, u, v
    <3>5. QED BY <3>4
  <2>13. QED BY <2>11, <2>12
<1>7. ASSUME NEW i \in 1..n, HasRaw(i), i \in MessageCover(shapes)
      PROVE  HeldBy(i, MessageCover(shapes))
  <2>1. PICK s : s = calls[i].body
    OBVIOUS
  <2>2. PICK u \in Seq(Nat) : u = Words(s)
    BY <1>1, <2>1, CallFacts, WordsOf
  <2>3. IsPrefix(u, u)
    BY DEF IsPrefix
  <2>4. QED BY <1>7, <2>1, <2>2, <2>3 DEF HeldBy
<1>8. ReadingOK'
  BY <1>2, <1>5, <1>6, <1>7 DEF ReadingOK, HeldBy, HasRaw, RewrittenAfter
<1>9. CapturedIsShown'
  BY <1>2 DEF CapturedIsShown
<1>10. PanelTypeOK'
  <2>1. MessageCover(shapes) \in SUBSET Nat
    BY <1>5
  <2>2. viewer' \in [at : {"shut", "reading", "shown"}, upTo : Nat, ids : SUBSET Nat,
                    shown : Seq(Messages), omitted : Nat]
    BY <1>1, <2>1, EmptySeq DEF OpenPanel, Shut, shapes
  <2>3. QED BY <1>1, <1>2, <2>2 DEF PanelTypeOK
<1>11. QED BY <1>8, <1>9, <1>10 DEF PanelInv

LEMMA BeginningIsShown ==
    ASSUME NEW U, NEW view \in Seq(U), NEW s \in Seq(U), NEW t \in Seq(U),
           IsPrefix(s, t), Shows(view, t)
    PROVE  Shows(view, s)
<1>1. PICK k \in 0..Len(view) : ShownFrom(view, t, k)
  BY ShowsIs
<1>2. Begins(s, t)
  BY PrefixIs
<1>3. Len(s) \in Nat /\ Len(t) \in Nat /\ Len(view) \in Nat
  OBVIOUS
<1>4. ShownFrom(view, s, k)
  BY <1>1, <1>2, <1>3 DEF ShownFrom, Begins
<1>5. QED BY <1>4, ShowsIs

(* The panel shows: of what was chosen, all that is left is read, unless it
   says otherwise, and every body read is shown with all that begins it. *)
LEMMA PanelShows ==
    ASSUME PanelInv, ShowPanel
    PROVE  PanelInv'
<1> DEFINE there == {i \in viewer.ids : HasRaw(i)}
<1>1. PICK read : read = Admitted(there, [i \in there |-> Len(calls[i].body)], ViewBudget)
  OBVIOUS
<1>2. PICK bodies : bodies = [i \in read |-> calls[i].body]
  OBVIOUS
<1>3. PICK view : view = MergePrompts(bodies)
  OBVIOUS
<1>4. /\ viewer.at = "reading"
      /\ viewer' = [viewer EXCEPT !.at = "shown", !.shown = view,
                                  !.omitted = Cardinality(there \ read)]
      /\ UNCHANGED <<context, said, calls, goneCalls, goneBodies>>
  BY <1>1, <1>2, <1>3 DEF ShowPanel
<1>5. PanelTypeOK /\ Len(calls) \in Nat /\ viewer.upTo \in Nat /\ viewer.upTo <= Len(calls)
  BY DEF PanelInv, PanelTypeOK
<1>6. /\ viewer.ids \subseteq 1..viewer.upTo
      /\ \A i \in 1..viewer.upTo : HasRaw(i) => HeldBy(i, viewer.ids) \/ RewrittenAfter(i)
  BY <1>4 DEF PanelInv, ReadingOK
<1>7. PICK S : S = there
  OBVIOUS
<1>8. \A i \in S : i \in viewer.ids /\ i \in 1..Len(calls) /\ HasRaw(i)
  BY <1>5, <1>6, <1>7
<1>9. read \subseteq S
  BY <1>1, <1>7 DEF Admitted
<1>10. IsFiniteSet(S) /\ IsFiniteSet(read) /\ IsFiniteSet(S \ read)
  <2>1. IsFiniteSet(1..Len(calls)) /\ S \subseteq 1..Len(calls)
    BY <1>5, <1>8, FS_Interval
  <2>2. IsFiniteSet(S)
    BY <2>1, FS_Subset
  <2>3. QED BY <1>9, <2>2, FS_Subset
<1>11. Bodies(bodies)
  <2>1. \A i \in read : calls[i].body \in Seq(Messages) /\ i \in Nat \ {0}
    BY <1>5, <1>8, <1>9, CallFacts
  <2>2. QED BY <1>2, <1>10, <2>1 DEF Bodies
<1>12. view \in Seq(Messages) /\ \A i \in read : Shows(view, calls[i].body)
  BY <1>2, <1>3, <1>11, MergeShowsAll
<1>13. viewer' = [viewer EXCEPT !.at = "shown", !.shown = view, !.omitted = Cardinality(S \ read)]
  BY <1>4, <1>7
<1>14. PanelTypeOK' /\ viewer'.at = "shown" /\ viewer'.upTo = viewer.upTo
       /\ viewer'.shown = view /\ viewer'.omitted = Cardinality(S \ read)
  <2>1. Cardinality(S \ read) \in Nat
    BY <1>10, FS_CardinalityType
  <2>2. viewer \in [at : {"shut", "reading", "shown"}, upTo : Nat, ids : SUBSET Nat,
                    shown : Seq(Messages), omitted : Nat]
    BY <1>5 DEF PanelTypeOK
  <2>3. PICK omitted \in Nat : omitted = Cardinality(S \ read)
    BY <2>1
  <2>4. viewer' = [viewer EXCEPT !.at = "shown", !.shown = view, !.omitted = omitted]
    BY <1>13, <2>3
  <2>5. /\ viewer' \in [at : {"shut", "reading", "shown"}, upTo : Nat, ids : SUBSET Nat,
                        shown : Seq(Messages), omitted : Nat]
        /\ viewer'.at = "shown" /\ viewer'.upTo = viewer.upTo
        /\ viewer'.shown = view /\ viewer'.omitted = omitted
    BY <1>12, <2>2, <2>4
  <2>6. QED BY <1>4, <1>5, <2>3, <2>5 DEF PanelTypeOK
<1>15. ASSUME NEW i \in 1..viewer.upTo, HasRaw(i), Cardinality(S \ read) = 0
       PROVE  \/ RewrittenAfter(i)
              \/ /\ Shows(Words(view), Words(calls[i].body))
                 /\ Shows(view, calls[i].body) \/ LookAlikeAfter(i)
  <2>1. read = S
    <3>1. S \ read = {}
      BY <1>10, <1>15, FS_EmptySet
    <3>2. QED BY <1>9, <3>1
  <2>2. CASE HeldBy(i, viewer.ids)
    <3>1. PICK j \in viewer.ids :
              /\ j >= i /\ calls[j].agent = calls[i].agent
              /\ IsPrefix(Words(calls[i].body), Words(calls[j].body))
      BY <2>2 DEF HeldBy
    <3>2. i \in 1..Len(calls) /\ j \in 1..Len(calls)
      BY <1>5, <1>6, <3>1
    <3>3. HasRaw(j)
      BY <1>5, <1>15, <3>1, <3>2 DEF HasRaw, PanelTypeOK
    <3>4. j \in read
      BY <1>7, <2>1, <3>1, <3>3
    <3>5. Shows(view, calls[j].body)
      BY <1>12, <3>4
    <3>6. PICK s \in Seq(Messages) : s = calls[i].body
      BY <1>5, <3>2, CallFacts
    <3>7. PICK t \in Seq(Messages) : t = calls[j].body
      BY <1>5, <3>2, CallFacts
    <3>8. Shows(Words(view), Words(s))
      <4>1. /\ Words(view) \in Seq(Nat) /\ Words(s) \in Seq(Nat) /\ Words(t) \in Seq(Nat)
        BY <1>12, WordsOf
      <4>2. Shows(Words(view), Words(t))
        BY <1>12, <3>5, <3>7, WordsAreShown
      <4>3. QED BY <3>1, <3>6, <3>7, <4>1, <4>2, BeginningIsShown
    <3>9. CASE IsPrefix(s, t)
      <4>1. Shows(view, s)
        BY <1>12, <3>5, <3>7, <3>9, BeginningIsShown
      <4>2. QED BY <3>6, <3>8, <4>1
    <3>10. CASE ~IsPrefix(s, t)
      <4>1. j # i
        <5>1. SUFFICES ASSUME s = t PROVE FALSE
          BY <3>6, <3>7
        <5>2. IsPrefix(s, s)
          BY DEF IsPrefix
        <5>3. QED BY <3>10, <5>1, <5>2
      <4>2. j > i /\ j \in DOMAIN calls
        BY <1>5, <3>1, <3>2, <4>1 DEF PanelTypeOK
      <4>3. LookAlikeAfter(i)
        BY <3>1, <3>6, <3>7, <3>10, <4>2 DEF LookAlikeAfter
      <4>4. QED BY <3>6, <3>8, <4>3
    <3>11. QED BY <3>9, <3>10
  <2>3. QED BY <1>6, <1>15, <2>2
<1>16. CapturedIsShown'
  <2>1. SUFFICES ASSUME NEW i \in 1..viewer.upTo, HasRaw(i)
                 PROVE  \/ Cardinality(S \ read) > 0
                        \/ RewrittenAfter(i)
                        \/ /\ Shows(Words(view), Words(calls[i].body))
                           /\ Shows(view, calls[i].body) \/ LookAlikeAfter(i)
    BY <1>4, <1>14 DEF CapturedIsShown, HasRaw, RewrittenAfter, LookAlikeAfter
  <2>2. Cardinality(S \ read) \in Nat
    BY <1>10, FS_CardinalityType
  <2>3. QED BY <1>15, <2>1, <2>2
<1>17. ReadingOK'
  BY <1>14 DEF ReadingOK
<1>18. QED BY <1>14, <1>16, <1>17 DEF PanelInv

(* A captured body is shown by the panel word for word, and whole unless a
   later request repeats its words around another image, document or thinking
   block; or the panel says that it left bodies out, or its history was
   rewritten behind a longer request: for any agents, any number and length of requests, whichever of them are stamped,
   whatever retention takes and whenever the panel reads (messagecover.go,
   sessionmessages.go). *)
THEOREM CapturedBodiesAreShown == PanelSpec => []CapturedIsShown
<1>1. PanelInit => PanelInv
  BY PanelInvInit
<1>2. PanelInv /\ [PanelNext]_panelVars => PanelInv'
  <2>1. SUFFICES ASSUME PanelInv, [PanelNext]_panelVars
                 PROVE  PanelInv'
    OBVIOUS
  <2>2. CASE Ask
    BY <2>1, <2>2, PanelAsk
  <2>3. CASE Prune
    BY <2>1, <2>3, PanelPrune
  <2>4. CASE OpenPanel
    BY <2>1, <2>4, PanelOpens
  <2>5. CASE ShowPanel
    BY <2>1, <2>5, PanelShows
  <2>6. CASE ClosePanel
    <3>1. /\ viewer' = Shut
          /\ UNCHANGED <<context, said, calls, goneCalls, goneBodies>>
      BY <2>6 DEF ClosePanel
    <3>2. viewer' \in [at : {"shut", "reading", "shown"}, upTo : Nat, ids : SUBSET Nat,
                       shown : Seq(Messages), omitted : Nat]
      BY <3>1, EmptySeq DEF Shut
    <3>3. PanelTypeOK' /\ viewer'.at = "shut"
      BY <2>1, <3>1, <3>2 DEF PanelInv, PanelTypeOK, Shut
    <3>4. QED BY <3>3 DEF PanelInv, ReadingOK, CapturedIsShown
  <2>7. CASE \E i \in DOMAIN calls : Stamp(i)
    BY <2>1, <2>7, PanelStamp
  <2>8. CASE UNCHANGED panelVars
    <3>1. /\ context' = context /\ said' = said /\ calls' = calls /\ viewer' = viewer
          /\ goneCalls' = goneCalls /\ goneBodies' = goneBodies
      BY <2>8 DEF panelVars
    <3>2. PanelTypeOK'
      BY <2>1, <3>1 DEF PanelInv, PanelTypeOK
    <3>3. SameBodies /\ RetentionGoesOn
      BY <2>1, <3>1 DEF PanelInv, PanelTypeOK, SameBodies, RetentionGoesOn
    <3>4. QED BY <2>1, <3>1, <3>2, <3>3, PanelStays
  <2>9. QED BY <2>1, <2>2, <2>3, <2>4, <2>5, <2>6, <2>7, <2>8 DEF PanelNext
<1>3. PanelInv => CapturedIsShown
  BY DEF PanelInv
<1>4. QED BY <1>1, <1>2, <1>3, PTL DEF PanelSpec
=============================================================================
