------------------------------- MODULE Spend -------------------------------
(***************************************************************************)
(* internal/spend: a running total per user, charged in memory by request  *)
(* goroutines, read by budget checks, and written to user_spend by one     *)
(* flusher.  Every action is one critical section of Tracker.mu or one     *)
(* database call, so a load, a flush, a deletion and a crash fall between  *)
(* each other's steps.  Run's flush has returned before proxy.Close makes  *)
(* the last one (main.go:290-296), so only one flush runs at a time.       *)
(* Money is counted in whole units.                                        *)
(***************************************************************************)
EXTENDS Integers

CONSTANTS
    Users,
    Readers,        \* budget checks running at once
    NoUser,
    MaxCharge,      \* bound: units charged to one user
    MaxCrashes,     \* bound: crashes
    MaxDeletes      \* bound: users deleted

ASSUME NoUserIsNoUser == NoUser \notin Users

VARIABLES
    row,            \* user_spend; 0 where there is no row (LoadSpend)
    loaded,         \* the users with an entry in t.total
    total,          \* t.total
    pending,        \* t.pending
    fat, ftodo, fid, fbase, fdelta,     \* where Flush is, and its locals
    reads,          \* the cold reads in progress in Get
    deleting,       \* users whose row is deleted and whose cache is not yet
    charged,        \* history: what each user has been charged and not lost
    tainted,        \* history: users deleted while a flush or read held them
    crashes, deletes

memory == <<loaded, total, pending>>
flush == <<fat, ftodo, fid, fbase, fdelta>>
bounds == <<crashes, deletes>>
vars == <<row, memory, flush, reads, deleting, charged, tainted, bounds>>

NoRead == [at |-> "idle", user |-> NoUser, stored |-> 0]

Init ==
    /\ row = [u \in Users |-> 0]
    /\ loaded = {}
    /\ total = [u \in Users |-> 0]
    /\ pending = [u \in Users |-> 0]
    /\ fat = "idle" /\ ftodo = {} /\ fid = NoUser /\ fbase = 0 /\ fdelta = 0
    /\ reads = [r \in Readers |-> NoRead]
    /\ deleting = {}
    /\ charged = [u \in Users |-> 0]
    /\ tainted = {}
    /\ crashes = 0 /\ deletes = 0

(* What Get answers for a user it finds, or would find after a load. *)
Balance(u) == (IF u \in loaded THEN total[u] ELSE row[u]) + pending[u]

(* Add *)
Add(u) ==
    /\ charged[u] < MaxCharge
    /\ pending' = [pending EXCEPT ![u] = @ + 1]
    /\ charged' = [charged EXCEPT ![u] = @ + 1]
    /\ UNCHANGED <<row, loaded, total, flush, reads, deleting, tainted, bounds>>

-----------------------------------------------------------------------------
(* Get, when the user is not loaded yet: a database read outside the lock. *)

GetMiss(r, u) ==
    /\ reads[r].at = "idle"
    /\ u \notin loaded
    /\ reads' = [reads EXCEPT ![r] = [at |-> "miss", user |-> u, stored |-> 0]]
    /\ UNCHANGED <<row, memory, flush, deleting, charged, tainted, bounds>>

(* load: a user without a row has spent nothing. *)
Load(u) == row[u]

GetLoad(r) ==
    /\ reads[r].at = "miss"
    /\ reads' = [reads EXCEPT ![r].at = "loaded", ![r].stored = Load(reads[r].user)]
    /\ UNCHANGED <<row, memory, flush, deleting, charged, tainted, bounds>>

(* The read failed: Get returns the error and leaves no trace. *)
GetFails(r) ==
    /\ reads[r].at = "miss"
    /\ reads' = [reads EXCEPT ![r] = NoRead]
    /\ UNCHANGED <<row, memory, flush, deleting, charged, tainted, bounds>>

(* Whoever loaded the user meanwhile wins. *)
Install_Always(u, stored) == [total EXCEPT ![u] = stored]
Install(u, stored) == IF u \in loaded THEN total ELSE [total EXCEPT ![u] = stored]

GetInstall(r) ==
    /\ reads[r].at = "loaded"
    /\ total' = Install(reads[r].user, reads[r].stored)
    /\ loaded' = loaded \cup {reads[r].user}
    /\ reads' = [reads EXCEPT ![r] = NoRead]
    /\ UNCHANGED <<row, pending, flush, deleting, charged, tainted, bounds>>

-----------------------------------------------------------------------------
(* Flush *)

FlushStart ==
    /\ fat = "idle"
    /\ \E u \in Users : pending[u] # 0
    /\ ftodo' = {u \in Users : pending[u] # 0}
    /\ fat' = "next"
    /\ UNCHANGED <<row, memory, fid, fbase, fdelta, reads, deleting, charged, tainted, bounds>>

FlushUser(u) ==
    /\ fat = "next" /\ u \in ftodo
    /\ fid' = u
    /\ fbase' = total[u]
    /\ fat' = IF u \in loaded THEN "delta" ELSE "load"
    /\ UNCHANGED <<row, memory, ftodo, fdelta, reads, deleting, charged, tainted, bounds>>

FlushLoad ==
    /\ fat = "load"
    /\ fbase' = Load(fid)
    /\ fat' = "install"
    /\ UNCHANGED <<row, memory, ftodo, fid, fdelta, reads, deleting, charged, tainted, bounds>>

FlushInstall ==
    /\ fat = "install"
    /\ total' = Install(fid, fbase)
    /\ loaded' = loaded \cup {fid}
    /\ fbase' = total'[fid]
    /\ fat' = "delta"
    /\ UNCHANGED <<row, pending, ftodo, fid, fdelta, reads, deleting, charged, tainted, bounds>>

FlushDelta ==
    /\ fat = "delta"
    /\ fdelta' = pending[fid]
    /\ fat' = "save"
    /\ UNCHANGED <<row, memory, ftodo, fid, fbase, reads, deleting, charged, tainted, bounds>>

FlushSave ==
    /\ fat = "save"
    /\ row' = [row EXCEPT ![fid] = fbase + fdelta]
    /\ fat' = "fold"
    /\ UNCHANGED <<memory, ftodo, fid, fbase, fdelta, reads, deleting, charged, tainted, bounds>>

(* The next user, or the end of this flush. *)
NextUser ==
    /\ ftodo' = ftodo \ {fid}
    /\ fat' = IF ftodo \subseteq {fid} THEN "idle" ELSE "next"
    /\ fid' = NoUser
    /\ fbase' = 0
    /\ fdelta' = 0

(* A failed load or write leaves the charge pending for the next flush. *)
FlushFails ==
    /\ fat \in {"load", "save"}
    /\ NextUser
    /\ UNCHANGED <<row, memory, reads, deleting, charged, tainted, bounds>>

(* Subtract what was written; what Add brought meanwhile stays. *)
Remaining_Zeroed(u, delta) == 0
Remaining_Kept(u, delta) == pending[u]
Remaining(u, delta) == pending[u] - delta

FlushFold ==
    /\ fat = "fold"
    /\ total' = [total EXCEPT ![fid] = fbase + fdelta]
    /\ loaded' = loaded \cup {fid}
    /\ pending' = [pending EXCEPT ![fid] = Remaining(fid, fdelta)]
    /\ NextUser
    /\ UNCHANGED <<row, reads, deleting, charged, tainted, bounds>>

-----------------------------------------------------------------------------
(* Deletion (api.deleteUserData): the row first, then the cache. *)

DeleteSpend(u) ==
    /\ u \notin deleting
    /\ deletes < MaxDeletes
    /\ row' \in {[row EXCEPT ![u] = 0], row}        \* an error is only logged
    /\ deleting' = deleting \cup {u}
    /\ deletes' = deletes + 1
    /\ UNCHANGED <<memory, flush, reads, charged, tainted, crashes>>

Held(u) ==
    \/ fid = u
    \/ \E r \in Readers : reads[r].user = u
    \/ row[u] # 0

Forget(u) ==
    /\ u \in deleting
    /\ loaded' = loaded \ {u}
    /\ total' = [total EXCEPT ![u] = 0]
    /\ pending' = [pending EXCEPT ![u] = 0]
    /\ charged' = [charged EXCEPT ![u] = 0]
    /\ tainted' = IF Held(u) THEN tainted \cup {u} ELSE tainted
    /\ deleting' = deleting \ {u}
    /\ UNCHANGED <<row, flush, reads, bounds>>

(* The process dies and starts again: only the rows are left. *)
Crash ==
    /\ crashes < MaxCrashes
    /\ loaded' = {}
    /\ total' = [u \in Users |-> 0]
    /\ pending' = [u \in Users |-> 0]
    /\ fat' = "idle" /\ ftodo' = {} /\ fid' = NoUser /\ fbase' = 0 /\ fdelta' = 0
    /\ reads' = [r \in Readers |-> NoRead]
    /\ deleting' = {}
    /\ charged' = row
    /\ crashes' = crashes + 1
    /\ UNCHANGED <<row, tainted, deletes>>

Next ==
    \/ \E u \in Users : Add(u) \/ FlushUser(u) \/ DeleteSpend(u) \/ Forget(u)
    \/ \E r \in Readers :
          \/ \E u \in Users : GetMiss(r, u)
          \/ GetLoad(r) \/ GetFails(r) \/ GetInstall(r)
    \/ FlushStart \/ FlushLoad \/ FlushInstall \/ FlushDelta
    \/ FlushSave \/ FlushFold \/ FlushFails
    \/ Crash

Spec == Init /\ [][Next]_vars

(* The ticker flushes again and again (Run); the database may fail any     *)
(* number of times, only not always.  A deletion goes on to its Forget.    *)
Flushing ==
    \/ FlushStart \/ FlushLoad \/ FlushInstall \/ FlushDelta \/ FlushFold
    \/ \E u \in Users : FlushUser(u)
FairSpec ==
    /\ Spec
    /\ WF_vars(Flushing) /\ SF_vars(FlushLoad) /\ SF_vars(FlushSave)
    /\ \A u \in Users : WF_vars(Forget(u))

-----------------------------------------------------------------------------

FlushPoints == {"idle", "next", "load", "install", "delta", "save", "fold"}

TypeOK ==
    /\ row \in [Users -> Int]
    /\ loaded \subseteq Users
    /\ total \in [Users -> Int]
    /\ pending \in [Users -> Int]
    /\ fat \in FlushPoints
    /\ ftodo \subseteq Users
    /\ fid \in Users \cup {NoUser}
    /\ fbase \in Int
    /\ fdelta \in Int
    /\ reads \in [Readers -> [at : {"idle", "miss", "loaded"},
                              user : Users \cup {NoUser}, stored : Int]]
    /\ deleting \subseteq Users
    /\ charged \in [Users -> Int]
    /\ tainted \subseteq Users
    /\ crashes \in Nat
    /\ deletes \in Nat

Settled(u) == u \notin tainted /\ u \notin deleting

(* Every budget check reads what was charged, no more and no less, at any  *)
(* point between the sections of a flush, a cold load and other charges:   *)
(* visible at once, counted once (spend.go:82-131, 153-211).               *)
BalanceIsExact == \A u \in Users : Settled(u) => Balance(u) = charged[u]

(* A crash loses at most what was charged since the last flush of that     *)
(* user: the row is behind by what is pending, or by what came after the   *)
(* increment just written (spend.go:31-38, 192-209).                       *)
RowLagsByPending ==
    \A u \in Users : Settled(u) =>
        charged[u] - row[u] =
            IF fat = "fold" /\ fid = u THEN pending[u] - fdelta ELSE pending[u]

(* No charge stays in memory for ever: while the database answers again    *)
(* and again, what was charged reaches the row or is lost to a crash or a  *)
(* deletion (spend.go:213-241), or to the race NothingInherited is about.  *)
ChargesReachTheRow ==
    \A u \in Users : \A n \in 1..MaxCharge :
        (charged[u] = n) ~> (row[u] >= n \/ charged[u] < n \/ u \in tainted)

(* What deleteUserData says of its last two calls (handlers.go:2110-2112): *)
(* a recreated user id does not inherit the old user's spend.              *)
NothingInherited ==
    \A u \in Users : (u \notin deleting /\ charged[u] = 0) => Balance(u) = 0
=============================================================================
