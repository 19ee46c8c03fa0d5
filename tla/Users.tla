------------------------------- MODULE Users -------------------------------
(***************************************************************************)
(* Consumer keys (store/users.go) under the admin API's user handlers      *)
(* (api/handlers.go): every statement is one database write, but an        *)
(* idempotent create looks a user up first and adopts the row it saw, in   *)
(* between any write of another admin.  Ids and keys are minted together   *)
(* and never reused; the admin's row mirrors the key of the environment.   *)
(***************************************************************************)
EXTENDS Integers, Functions

CONSTANTS
    Names, Budgets,
    Operators,          \* clients of the admin API
    AdminUserID,        \* no minted id
    EnvKeys,            \* admin keys the environment may hold
    Unset,              \* an absent budget; a field an update leaves out
    MaxUsers, MaxRestarts       \* bounds

(* What the environment and the schema bring is not what the gateway mints. *)
ASSUME KeysDisjoint ==
    /\ MaxUsers \in Nat
    /\ AdminUserID \notin 1..MaxUsers
    /\ EnvKeys # {} /\ EnvKeys \cap 1..MaxUsers = {}
    /\ Unset \notin EnvKeys /\ Unset \notin BOOLEAN

VARIABLES
    users,              \* id -> row
    minted,             \* ids and keys given out so far: 1..minted
    second,             \* created_at of the next row
    request,            \* per operator: an idempotent create after its lookup
    boots,
    dead                \* history: keys revoked, deleted or replaced

usersVars == <<users, minted, second, request, boots, dead>>

Idle == [at |-> "idle"]

(* UpdateUser: the fields that are given, in the row that is there. *)
Amend(row, upd) ==
    [f \in DOMAIN row |-> IF f \in DOMAIN upd /\ upd[f] # Unset THEN upd[f] ELSE row[f]]
UpdateUser(rows, id, upd) ==
    [i \in DOMAIN rows |-> IF i = id THEN Amend(rows[i], upd) ELSE rows[i]]

InsertUser(rows, id, row) ==
    [i \in DOMAIN rows \cup {id} |-> IF i = id THEN row ELSE rows[i]]

(* EnsureAdminUser on a fresh database and on a later start: only the name and
   the key are realigned, and a revocation is undone. *)
EnsureAdminUser(rows, key) ==
    IF AdminUserID \in DOMAIN rows
    THEN UpdateUser(rows, AdminUserID, [name |-> "admin", key |-> key, revoked |-> FALSE])
    ELSE InsertUser(rows, AdminUserID, [name |-> "admin", key |-> key, budget |-> Unset,
                                        created |-> 0, revoked |-> FALSE])

UsersInit ==
    /\ users = EnsureAdminUser(<<>>, CHOOSE k \in EnvKeys : TRUE)
    /\ minted = 0 /\ second = 1 /\ boots = 0 /\ dead = {}
    /\ request = [o \in Operators |-> Idle]

Active(rows) == {id \in DOMAIN rows : ~rows[id].revoked}
GetUserByKey(key) == {id \in Active(users) : users[id].key = key}

(* The most recent active user of the name; two of one second in any order. *)
GetUserByName(name) ==
    {id \in Active(users) :
        /\ users[id].name = name
        /\ \A other \in Active(users) :
             users[other].name = name => users[other].created <= users[id].created}

CreateUser(name, budget) ==
    /\ minted < MaxUsers
    /\ minted' = minted + 1
    /\ second' \in {second, second + 1}
    /\ users' = InsertUser(users, minted + 1, [name |-> name, key |-> minted + 1,
                           budget |-> budget, created |-> second, revoked |-> FALSE])

(* createUserData: a plain create, or the lookup of an idempotent one. *)
CreateUserData(o, name, budget) ==
    /\ request[o] = Idle
    /\ CreateUser(name, budget)
    /\ UNCHANGED <<request, boots, dead>>

LookUp(o, name, budget) ==
    /\ request[o] = Idle
    /\ LET found == GetUserByName(name)
           req == [name |-> name, budget |-> budget]
       IN  IF found = {}
           THEN request' = [request EXCEPT ![o] = [at |-> "creating", req |-> req]]
           ELSE \E id \in found :
                    request' = [request EXCEPT ![o] =
                        [at |-> "adopting", req |-> req, id |-> id, user |-> users[id]]]
    /\ UNCHANGED <<users, minted, second, boots, dead>>

CreateMissing(o) ==
    /\ request[o].at = "creating"
    /\ CreateUser(request[o].req.name, request[o].req.budget)
    /\ request' = [request EXCEPT ![o] = Idle]
    /\ UNCHANGED <<boots, dead>>

(* adoptExistingUser: the budget, if the row read at the lookup differs. *)
AdoptExistingUser_WritesTheRowBack(rows, id, user, req) ==
    InsertUser(rows, id, [user EXCEPT !.budget = req.budget])
AdoptExistingUser(rows, id, user, req) ==
    IF user.budget = req.budget THEN rows
    ELSE UpdateUser(rows, id, [budget |-> req.budget])

Adopt(o) ==
    /\ request[o].at = "adopting"
    /\ users' = AdoptExistingUser(users, request[o].id, request[o].user, request[o].req)
    /\ request' = [request EXCEPT ![o] = Idle]
    /\ UNCHANGED <<minted, second, boots, dead>>

UpdateUserData(id, upd) ==
    /\ users' = UpdateUser(users, id, upd)
    /\ UNCHANGED <<minted, second, request, boots, dead>>

RevokeUser(id) ==
    /\ users' = UpdateUser(users, id, [revoked |-> TRUE])
    /\ dead' = dead \cup {users[id].key}
    /\ UNCHANGED <<minted, second, request, boots>>

(* deleteUserData, without the spend that goes with it (module Spend) *)
DeleteUser(id) ==
    /\ id # AdminUserID
    /\ users' = Restrict(users, DOMAIN users \ {id})
    /\ dead' = dead \cup {users[id].key}
    /\ UNCHANGED <<minted, second, request, boots>>

(* The process starts again, with another admin key if the operator wants. *)
Reboot(key) ==
    /\ boots < MaxRestarts
    /\ boots' = boots + 1
    /\ users' = EnsureAdminUser(users, key)
    /\ dead' = (dead \cup {users[AdminUserID].key}) \ {key}
    /\ request' = [o \in Operators |-> Idle]
    /\ UNCHANGED <<minted, second>>

UsersNext ==
    \/ \E o \in Operators :
        \/ \E n \in Names, b \in Budgets \cup {Unset} : CreateUserData(o, n, b) \/ LookUp(o, n, b)
        \/ CreateMissing(o) \/ Adopt(o)
    \/ \E id \in DOMAIN users :
        \/ \E n \in Names \cup {Unset}, b \in Budgets \cup {Unset} :
               UpdateUserData(id, [name |-> n, budget |-> b])
        \/ RevokeUser(id) \/ DeleteUser(id)
    \/ \E k \in EnvKeys : Reboot(k)

-----------------------------------------------------------------------------
(* A key that was revoked, deleted or replaced admits nobody again, however an
   adoption that had read its row, a patch or a restart comes after it; and
   every key that was given out and not taken back still admits its user
   (GetUserByKey in proxy.go and the admin API).  Only a restart revives the
   admin's own key. *)
RevocationIsFinal ==
    \A key \in 1..minted \cup EnvKeys :
        IF key \in dead THEN GetUserByKey(key) = {}
        ELSE key \in 1..minted => \E id \in DOMAIN users : GetUserByKey(key) = {id}
=============================================================================
