---------------------------- MODULE BillingProofs ---------------------------
(***************************************************************************)
(* What a call is billed, what a user has spent and what the dashboard     *)
(* says of it, for any users, charges and crashes, any streams, prices and *)
(* wires, any log, and any database of an earlier release.  The parts      *)
(* share no variable and each has its own specification.                   *)
(*                                                                         *)
(*   Spend       the running total is exact, and its row lags by what is   *)
(*               pending                                                   *)
(*   Metering    a call is billed for the usage its answer reported        *)
(*   Statistics  the panels that stand side by side agree                  *)
(*   Migration   an upgrade loses nothing of what the store says           *)
(***************************************************************************)
EXTENDS Spend, Metering, Statistics, Migration, SumTheorems, TLAPS

-----------------------------------------------------------------------------
(* Spend.  Exactness is not inductive by itself: a flush carries a base and a
   delta it read earlier, and a cold read carries a row it read earlier.
   UserInv says when each of these is still current: the base while the user
   stays loaded, the row while nobody has loaded the user. *)

ReadOf(r, u) == reads[r].at = "loaded" /\ reads[r].user = u

UserInv(u) ==
    /\ Balance(u) = charged[u]
    /\ (u \in loaded /\ ~(fat = "fold" /\ fid = u)) => total[u] = row[u]
    /\ (fat = "fold" /\ fid = u) =>
          u \in loaded /\ total[u] = fbase /\ row[u] = fbase + fdelta
    /\ (fat = "install" /\ fid = u /\ u \notin loaded) => fbase = row[u]
    /\ (fat \in {"delta", "save"} /\ fid = u) => u \in loaded /\ fbase = total[u]
    /\ \A r \in Readers : (ReadOf(r, u) /\ u \notin loaded) => reads[r].stored = row[u]

BusyPoints == {"load", "install", "delta", "save", "fold"}

Located ==
    /\ fat \in BusyPoints => fid \in Users
    /\ \A r \in Readers : reads[r].at # "idle" => reads[r].user \in Users

SpendInv ==
    /\ TypeOK
    /\ Located
    /\ \A u \in Users : Settled(u) => UserInv(u)

LEMMA InitEstablishes == Init => SpendInv
BY NoUserIsNoUser DEF Init, SpendInv, TypeOK, Located, UserInv, Settled, Balance,
    ReadOf, NoRead, FlushPoints, BusyPoints

LEMMA TypeStep == TypeOK /\ Located /\ [Next]_vars => TypeOK' /\ Located'
<1> SUFFICES ASSUME TypeOK, Located, [Next]_vars PROVE TypeOK' /\ Located'
    OBVIOUS
<1> USE DEF TypeOK, Located, FlushPoints, BusyPoints
<1>1. ASSUME NEW u \in Users, Add(u) PROVE TypeOK' /\ Located'
    BY <1>1 DEF Add, flush, bounds
<1>2. ASSUME NEW r \in Readers, NEW u \in Users, GetMiss(r, u) PROVE TypeOK' /\ Located'
    BY <1>2 DEF GetMiss, flush, bounds, memory
<1>3. ASSUME NEW r \in Readers, GetLoad(r) PROVE TypeOK' /\ Located'
    BY <1>3 DEF GetLoad, Load, flush, bounds, memory
<1>4. ASSUME NEW r \in Readers, GetFails(r) PROVE TypeOK' /\ Located'
    BY <1>4 DEF GetFails, NoRead, flush, bounds, memory
<1>5. ASSUME NEW r \in Readers, GetInstall(r) PROVE TypeOK' /\ Located'
    BY <1>5 DEF GetInstall, Install, NoRead, flush, bounds
<1>6. ASSUME FlushStart PROVE TypeOK' /\ Located'
    BY <1>6 DEF FlushStart, memory, bounds
<1>7. ASSUME NEW u \in Users, FlushUser(u) PROVE TypeOK' /\ Located'
    BY <1>7 DEF FlushUser, memory, bounds
<1>8. ASSUME FlushLoad PROVE TypeOK' /\ Located'
    BY <1>8 DEF FlushLoad, Load, memory, bounds
<1>9. ASSUME FlushInstall PROVE TypeOK' /\ Located'
    BY <1>9 DEF FlushInstall, Install, bounds
<1>10. ASSUME FlushDelta PROVE TypeOK' /\ Located'
    BY <1>10 DEF FlushDelta, memory, bounds
<1>11. ASSUME FlushSave PROVE TypeOK' /\ Located'
    BY <1>11 DEF FlushSave, memory, bounds
<1>12. ASSUME FlushFold PROVE TypeOK' /\ Located'
    BY <1>12 DEF FlushFold, NextUser, Remaining, bounds
<1>13. ASSUME FlushFails PROVE TypeOK' /\ Located'
    BY <1>13 DEF FlushFails, NextUser, memory, bounds
<1>14. ASSUME NEW u \in Users, DeleteSpend(u) PROVE TypeOK' /\ Located'
    BY <1>14 DEF DeleteSpend, flush, memory
<1>15. ASSUME NEW u \in Users, Forget(u) PROVE TypeOK' /\ Located'
    BY <1>15 DEF Forget, flush, bounds
<1>16. CASE Crash
    BY <1>16 DEF Crash, NoRead
<1>17. CASE UNCHANGED vars
    BY <1>17 DEF vars, memory, flush, bounds
<1>18. QED
    BY <1>1, <1>2, <1>3, <1>4, <1>5, <1>6, <1>7, <1>8, <1>9, <1>10, <1>11, <1>12,
       <1>13, <1>14, <1>15, <1>16, <1>17 DEF Next

(* One step keeps the accounts of one settled user. *)
LEMMA UserStep ==
    ASSUME SpendInv, [Next]_vars, NEW w \in Users, Settled(w)'
    PROVE UserInv(w)'
<1> USE DEF SpendInv, TypeOK, Located, FlushPoints, BusyPoints, Settled, UserInv,
        Balance, ReadOf
<1>1. ASSUME NEW u \in Users, Add(u) PROVE UserInv(w)'
    <2>1. UserInv(w)
        BY <1>1 DEF Add
    <2>2. \/ charged'[w] = charged[w] /\ pending'[w] = pending[w]
          \/ charged'[w] = charged[w] + 1 /\ pending'[w] = pending[w] + 1
        <3>1. charged' = [charged EXCEPT ![u] = charged[u] + 1]
            BY <1>1 DEF Add
        <3>2. pending' = [pending EXCEPT ![u] = pending[u] + 1]
            BY <1>1 DEF Add
        <3>3. QED
            BY <3>1, <3>2
    <2>3. UNCHANGED <<row, loaded, total, fat, ftodo, fid, fbase, fdelta, reads>>
        BY <1>1 DEF Add, flush
    <2>4. QED
        BY <2>1, <2>2, <2>3
<1>2. ASSUME NEW r \in Readers, NEW u \in Users, GetMiss(r, u) PROVE UserInv(w)'
    BY <1>2 DEF GetMiss, flush, bounds, memory
<1>3. ASSUME NEW r \in Readers, GetLoad(r) PROVE UserInv(w)'
    BY <1>3 DEF GetLoad, Load, flush, bounds, memory
<1>4. ASSUME NEW r \in Readers, GetFails(r) PROVE UserInv(w)'
    BY <1>4 DEF GetFails, NoRead, flush, bounds, memory
<1>5. ASSUME NEW r \in Readers, GetInstall(r) PROVE UserInv(w)'
    BY <1>5 DEF GetInstall, Install, NoRead, flush, bounds
<1>6. ASSUME FlushStart PROVE UserInv(w)'
    BY <1>6 DEF FlushStart, memory, bounds
<1>7. ASSUME NEW u \in Users, FlushUser(u) PROVE UserInv(w)'
    BY <1>7 DEF FlushUser, memory, bounds
<1>8. ASSUME FlushLoad PROVE UserInv(w)'
    BY <1>8 DEF FlushLoad, Load, memory, bounds
<1>9. ASSUME FlushInstall PROVE UserInv(w)'
    BY <1>9 DEF FlushInstall, Install, bounds
<1>10. ASSUME FlushDelta PROVE UserInv(w)'
    BY <1>10 DEF FlushDelta, memory, bounds
<1>11. ASSUME FlushSave PROVE UserInv(w)'
    BY <1>11 DEF FlushSave, memory, bounds
<1>12. ASSUME FlushFold PROVE UserInv(w)'
    BY <1>12, NoUserIsNoUser DEF FlushFold, NextUser, Remaining, bounds
<1>13. ASSUME FlushFails PROVE UserInv(w)'
    BY <1>13, NoUserIsNoUser DEF FlushFails, NextUser, memory, bounds
<1>14. ASSUME NEW u \in Users, DeleteSpend(u) PROVE UserInv(w)'
    BY <1>14 DEF DeleteSpend, flush, memory
<1>15. ASSUME NEW u \in Users, Forget(u) PROVE UserInv(w)'
    BY <1>15 DEF Forget, Held, flush, bounds
<1>16. CASE Crash
    BY <1>16, NoUserIsNoUser DEF Crash, NoRead
<1>17. CASE UNCHANGED vars
    BY <1>17 DEF vars, memory, flush, bounds
<1>18. QED
    BY <1>1, <1>2, <1>3, <1>4, <1>5, <1>6, <1>7, <1>8, <1>9, <1>10, <1>11, <1>12,
       <1>13, <1>14, <1>15, <1>16, <1>17 DEF Next

LEMMA SpendInvariant == Spec => []SpendInv
<1>1. SpendInv /\ [Next]_vars => SpendInv'
    BY TypeStep, UserStep DEF SpendInv
<1>2. QED
    BY InitEstablishes, <1>1, PTL DEF Spec

(* Every variable of the tracker keeps its type (spend.go:59-66). *)
THEOREM SpendTypeCorrect == Spec => []TypeOK
<1>1. SpendInv => TypeOK
    BY DEF SpendInv
<1>2. QED
    BY SpendInvariant, <1>1, PTL

(* A budget check reads exactly what was charged, whatever flushes, cold   *)
(* loads, crashes and deletions of other users it falls between.           *)
THEOREM BalanceExact == Spec => []BalanceIsExact
<1>1. SpendInv => BalanceIsExact
    BY DEF SpendInv, BalanceIsExact, UserInv
<1>2. QED
    BY SpendInvariant, <1>1, PTL

(* What a crash can lose is what is pending, or what came after the        *)
(* increment just written.                                                 *)
THEOREM CrashLosesOnlyPending == Spec => []RowLagsByPending
<1>1. SpendInv => RowLagsByPending
    BY DEF SpendInv, RowLagsByPending, UserInv, Balance, TypeOK, Settled
<1>2. QED
    BY SpendInvariant, <1>1, PTL

-----------------------------------------------------------------------------
(* Metering.  What the meter keeps after n lines is a function of the lines
   alone, so the invariant relates the scanner to the stream and not to how it
   was cut: the bytes held are the bytes of this line that have come, unless
   the line, or the end of the one before it, went over the cap.  The bill
   needs the week as well: a minute lies in a window of the vendor's zone
   exactly if it is one of the minutes the window covers in UTC. *)

LEMMA MaxIs ==
    ASSUME NEW S, S \subseteq Int, NEW m \in S, \A x \in S : x <= m
    PROVE  Max(S) = m
<1>1. \E z \in S : \A x \in S : z >= x
  OBVIOUS
<1>2. Max(S) \in S /\ \A x \in S : Max(S) >= x
  BY <1>1, Zenon DEF Max
<1>3. Max(S) >= m /\ Max(S) <= m
  BY <1>2
<1>4. Max(S) \in Int /\ m \in Int
  BY <1>2
<1>5. QED BY <1>3, <1>4

LEMMA MinIs ==
    ASSUME NEW S, S \subseteq Int, NEW m \in S, \A x \in S : x >= m
    PROVE  Min(S) = m
<1>1. \E z \in S : \A x \in S : z =< x
  OBVIOUS
<1>2. Min(S) \in S /\ \A x \in S : Min(S) =< x
  BY <1>1, Zenon DEF Min
<1>3. Min(S) >= m /\ Min(S) <= m
  BY <1>2
<1>4. Min(S) \in Int /\ m \in Int
  BY <1>2
<1>5. QED BY <1>3, <1>4

LEMMA ResolveNamesAWire ==
    ASSUME NEW enabled, NEW path, Len(path) \in Nat, Resolve(enabled, path) # "none"
    PROVE  Resolve(enabled, path) \in DOMAIN Registry
<1> DEFINE served == enabled \cap DOMAIN Registry
           fits == {f \in served \X UNION {Registry[w].suffixes : w \in served} :
                       f[2] \in Registry[f[1]].suffixes /\ EndsWith(path, f[2])}
           best == {f \in fits : \A g \in fits :
                       \/ Len(g[2]) < Len(f[2])
                       \/ Len(g[2]) = Len(f[2]) /\ NameRank[f[1]] <= NameRank[g[1]]}
<1>1. fits # {} /\ Resolve(enabled, path) = (CHOOSE f \in best : TRUE)[1]
  BY DEF Resolve
<1>2. \A f \in fits : /\ f[1] \in DOMAIN Registry /\ NameRank[f[1]] \in Nat
                      /\ Len(f[2]) \in Nat /\ Len(f[2]) <= Len(path)
  BY MeteringAssumption DEF MeteringAssumption, EndsWith
<1> HIDE DEF fits
<1> DEFINE Short == {n \in Nat : \E f \in fits : n = Len(path) - Len(f[2])}
<1>3. PICK n \in Short : \A m \in Short : n <= m
  <2>1. PICK f \in fits : TRUE
    BY <1>1
  <2>2. Len(path) - Len(f[2]) \in Short
    BY <2>1, <1>2
  <2>3. Short \subseteq Nat /\ Short # {}
    BY <2>2
  <2> HIDE DEF Short
  <2>4. QED BY <2>3, LeastNatural
<1>4. PICK f \in fits : n = Len(path) - Len(f[2])
  BY <1>3
<1>5. \A g \in fits : Len(g[2]) <= Len(f[2])
  <2>1. TAKE g \in fits
  <2>2. Len(path) - Len(g[2]) \in Short
    BY <1>2
  <2>3. n <= Len(path) - Len(g[2])
    BY <2>2, <1>3
  <2>4. QED BY <2>3, <1>4, <1>2
<1> DEFINE First == {k \in Nat : \E g \in fits : Len(g[2]) = Len(f[2]) /\ k = NameRank[g[1]]}
<1>6. PICK k \in First : \A j \in First : k <= j
  <2>1. NameRank[f[1]] \in First
    BY <1>2, <1>4
  <2>2. First \subseteq Nat /\ First # {}
    BY <2>1
  <2> HIDE DEF First
  <2>3. QED BY <2>2, LeastNatural
<1>7. PICK h \in fits : Len(h[2]) = Len(f[2]) /\ k = NameRank[h[1]]
  BY <1>6
<1>8. \A g \in fits : \/ Len(g[2]) < Len(h[2])
                      \/ Len(g[2]) = Len(h[2]) /\ NameRank[h[1]] <= NameRank[g[1]]
  <2>1. TAKE g \in fits
  <2>2. CASE Len(g[2]) = Len(f[2])
    <3>1. NameRank[g[1]] \in First
      BY <2>2, <1>2
    <3>2. QED BY <3>1, <1>6, <1>7, <2>2
  <2>3. CASE Len(g[2]) # Len(f[2])
    BY <2>3, <1>5, <1>2, <1>7
  <2>4. QED BY <2>2, <2>3
<1>9. h \in best
  BY <1>7, <1>8
<1>10. (CHOOSE b \in best : TRUE) \in best
  BY <1>9
<1>11. QED BY <1>1, <1>2, <1>10

(* A usage object and the merge of one into another. *)
LEMMA MergeIsUsage ==
    ASSUME NEW old, IsUsage(old), NEW new, IsUsage(new)
    PROVE  /\ IsUsage(MergeUsage(old, new))
           /\ MergeUsage(old, new) = [f \in DOMAIN MergeUsage(old, new) |-> MergeUsage(old, new)[f]]
           /\ \A f : /\ f \in DOMAIN MergeUsage(old, new) <=> f \in DOMAIN old \/ Stated(new, f)
                     /\ Stated(new, f) => MergeUsage(old, new)[f] = new[f]
                     /\ f \in DOMAIN old /\ ~ Stated(new, f) => MergeUsage(old, new)[f] = old[f]
BY DEF MergeUsage, IsUsage, Stated

LEMMA UnreportedIsUsage == IsUsage(Unreported) /\ DOMAIN Unreported = {}
BY DEF IsUsage, Unreported

LEMMA KeepsIsUsage ==
    ASSUME NEW shape, NEW u, IsUsage(u), NEW e, IsUsage(e.inner), IsUsage(e.outer)
    PROVE  IsUsage(Keeps(shape, u, e))
BY MergeIsUsage DEF Keeps

LEMMA MergeTwice ==
    ASSUME NEW u, IsUsage(u), NEW e, IsUsage(e.inner), IsUsage(e.outer),
           NEW v, v = MergeUsage(MergeUsage(u, e.inner), e.outer)
    PROVE  /\ v = [f \in DOMAIN v |-> v[f]]
           /\ \A f : /\ f \in DOMAIN v <=> f \in DOMAIN u \/ Stated(e.inner, f) \/ Stated(e.outer, f)
                     /\ Stated(e.inner, f) \/ Stated(e.outer, f) => v[f] = FieldOf(e, f)
                     /\ (f \in DOMAIN u /\ ~ Stated(e.inner, f) /\ ~ Stated(e.outer, f)) => v[f] = u[f]
<1> DEFINE w == MergeUsage(u, e.inner)
<1>1. /\ IsUsage(w)
      /\ \A f : /\ f \in DOMAIN w <=> f \in DOMAIN u \/ Stated(e.inner, f)
                /\ Stated(e.inner, f) => w[f] = e.inner[f]
                /\ f \in DOMAIN u /\ ~ Stated(e.inner, f) => w[f] = u[f]
  BY MergeIsUsage
<1> HIDE DEF w
<1>2. /\ v = [f \in DOMAIN v |-> v[f]]
      /\ \A f : /\ f \in DOMAIN v <=> f \in DOMAIN w \/ Stated(e.outer, f)
                /\ Stated(e.outer, f) => v[f] = e.outer[f]
                /\ f \in DOMAIN w /\ ~ Stated(e.outer, f) => v[f] = w[f]
  <2>1. v = MergeUsage(w, e.outer)
    BY DEF w
  <2>2. QED BY <2>1, <1>1, MergeIsUsage
<1>3. QED BY <1>1, <1>2 DEF FieldOf

(* One more complete line: what a reader of all of them finds is what the *)
(* wire keeps of that line's event, of what was found in those before it. *)
LEMMA OneMoreLine ==
    ASSUME NEW shape, NEW lines, IsStream(lines), NEW k \in 1..Len(lines),
           NEW D, D \subseteq 1..(k - 1), NEW e, e = lines[k].event,
           IsUsage(Reported(shape, lines, D))
    PROVE  Reported(shape, lines, D \cup {k}) =
             IF e.kind = "comment" THEN Reported(shape, lines, D)
             ELSE Keeps(shape, Reported(shape, lines, D), e)
<1> DEFINE E == D \cup {k}
<1>0. /\ IsUsage(e.inner) /\ IsUsage(e.outer) /\ k \in Int /\ E \subseteq Int
      /\ \A i \in E : i <= k
      /\ k \notin D
  <2>1. IsUsage(e.inner) /\ IsUsage(e.outer)
    BY DEF IsStream
  <2>2. k \in Int /\ E \subseteq Int /\ (\A i \in E : i <= k) /\ k \notin D
    BY DEF IsStream
  <2>3. QED BY <2>1, <2>2
<1>1. CASE e.kind = "comment"
  <2>1. Stating(lines, E) = Stating(lines, D)
    BY <1>1 DEF Stating
  <2>2. /\ Reporting(shape, lines, E) = Reporting(shape, lines, D)
        /\ \A f : Saying(lines, E, f) = Saying(lines, D, f)
    BY <2>1 DEF Reporting, Saying
  <2>3. CASE shape = "anthropic"
    <3>1. {g \in Axes : Saying(lines, E, g) # {}} = {g \in Axes : Saying(lines, D, g) # {}}
      BY <2>2
    <3>2. \A f : FieldOf(lines[Max(Saying(lines, E, f))].event, f) = FieldOf(lines[Max(Saying(lines, D, f))].event, f)
      BY <2>2
    <3>3. QED BY <3>1, <3>2, <2>3, <1>1 DEF Reported
  <2>4. CASE shape # "anthropic"
    BY <2>2, <2>4, <1>1 DEF Reported
  <2>5. QED BY <2>3, <2>4
<1>2. CASE e.kind # "comment" /\ shape = "anthropic"
  <2> DEFINE r == Reported(shape, lines, D)
             s == Reported(shape, lines, E)
             v == Keeps(shape, r, e)
  <2>1. /\ r = [f \in {g \in Axes : Saying(lines, D, g) # {}} |->
                  FieldOf(lines[Max(Saying(lines, D, f))].event, f)]
        /\ s = [f \in {g \in Axes : Saying(lines, E, g) # {}} |->
                  FieldOf(lines[Max(Saying(lines, E, f))].event, f)]
    BY <1>2 DEF Reported
  <2>2. /\ v = [f \in DOMAIN v |-> v[f]]
        /\ \A f : /\ f \in DOMAIN v <=> f \in DOMAIN r \/ Stated(e.inner, f) \/ Stated(e.outer, f)
                  /\ Stated(e.inner, f) \/ Stated(e.outer, f) => v[f] = FieldOf(e, f)
                  /\ (f \in DOMAIN r /\ ~ Stated(e.inner, f) /\ ~ Stated(e.outer, f)) => v[f] = r[f]
    <3>1. v = MergeUsage(MergeUsage(r, e.inner), e.outer)
      BY <1>2 DEF Keeps
    <3> HIDE DEF r, v
    <3>2. IsUsage(r)
      BY DEF r
    <3>3. QED BY <3>1, <3>2, <1>0, MergeTwice
  <2>3. ASSUME NEW f
        PROVE  Saying(lines, E, f) = IF Stated(e.inner, f) \/ Stated(e.outer, f)
                                     THEN Saying(lines, D, f) \cup {k} ELSE Saying(lines, D, f)
    BY <1>2 DEF Saying, Stating
  <2>4. ASSUME NEW f, Stated(e.inner, f) \/ Stated(e.outer, f)
        PROVE  f \in Axes /\ Max(Saying(lines, E, f)) = k
    <3>1. f \in Axes
      BY <2>4, <1>0 DEF Stated, IsUsage
    <3>2. k \in Saying(lines, E, f) /\ Saying(lines, E, f) \subseteq E
      BY <2>3, <2>4 DEF Saying, Stating
    <3>3. QED BY <3>1, <3>2, <1>0, MaxIs
  <2> HIDE DEF r, s, v
  <2>5. DOMAIN s = DOMAIN v
    <3>1. \A f : f \in DOMAIN s <=> f \in Axes /\ Saying(lines, E, f) # {}
      BY <2>1
    <3>2. \A f : f \in DOMAIN r <=> f \in Axes /\ Saying(lines, D, f) # {}
      BY <2>1
    <3>3. ASSUME NEW f PROVE f \in DOMAIN s <=> f \in DOMAIN v
      BY <3>1, <3>2, <2>2, <2>3, <2>4
    <3>4. QED BY <3>3
  <2>6. ASSUME NEW f \in DOMAIN s PROVE s[f] = v[f]
    <3>1. f \in Axes /\ s[f] = FieldOf(lines[Max(Saying(lines, E, f))].event, f)
      BY <2>1
    <3>2. CASE Stated(e.inner, f) \/ Stated(e.outer, f)
      BY <3>1, <3>2, <2>2, <2>4
    <3>3. CASE ~ (Stated(e.inner, f) \/ Stated(e.outer, f))
      <4>1. f \in DOMAIN r /\ v[f] = r[f]
        BY <3>3, <2>2, <2>5
      <4>2. r[f] = FieldOf(lines[Max(Saying(lines, D, f))].event, f)
        BY <4>1, <2>1
      <4>3. Saying(lines, E, f) = Saying(lines, D, f)
        BY <3>3, <2>3
      <4>4. QED BY <3>1, <4>1, <4>2, <4>3
    <3>4. QED BY <3>2, <3>3
  <2>7. s = [f \in DOMAIN s |-> s[f]]
    BY <2>1
  <2>8. s = v
    BY <2>2, <2>5, <2>6, <2>7
  <2>9. QED BY <2>8, <1>2 DEF s, v, r
<1>3. CASE e.kind # "comment" /\ shape # "anthropic"
  <2>1. Reporting(shape, lines, E) =
          IF Nested(shape, e) \/ e.outer # Unreported
          THEN Reporting(shape, lines, D) \cup {k} ELSE Reporting(shape, lines, D)
    BY <1>3 DEF Reporting, Stating
  <2>2. CASE Nested(shape, e) \/ e.outer # Unreported
    <3>1. k \in Reporting(shape, lines, E) /\ Reporting(shape, lines, E) \subseteq E
      BY <2>1, <2>2 DEF Reporting, Stating
    <3>2. Max(Reporting(shape, lines, E)) = k
      BY <3>1, <1>0, MaxIs
    <3>3. Reported(shape, lines, E) = IF Nested(shape, e) THEN e.inner ELSE e.outer
      BY <3>1, <3>2, <1>3 DEF Reported
    <3>4. QED BY <3>3, <1>3, <2>2 DEF Keeps, Nested
  <2>3. CASE ~ (Nested(shape, e) \/ e.outer # Unreported)
    <3>1. Reported(shape, lines, E) = Reported(shape, lines, D)
      BY <2>1, <2>3, <1>3 DEF Reported
    <3>2. QED BY <3>1, <1>3, <2>3 DEF Keeps, Nested
  <2>4. QED BY <2>2, <2>3
<1>4. QED BY <1>1, <1>2, <1>3

ScannerOK(s) ==
    /\ s = [held |-> s.held, overflow |-> s.overflow, usage |-> s.usage, firstToken |-> s.firstToken,
            completed |-> s.completed, failed |-> s.failed]
    /\ s.held \in Nat /\ s.overflow \in BOOLEAN /\ IsUsage(s.usage)

Long(lines, i) == i > 0 /\ lines[i].size > MaxLineBytes

(* KeepsWhatIsReported, of given values. *)
Kept(shape, lines, n, usage) ==
    \E lost \in SUBSET {i \in 1..n : Long(lines, i) \/ Long(lines, i - 1)} :
        usage = Reported(shape, lines, (1..n) \ lost)

CallOK(m) ==
    /\ m.wire \in DOMAIN Registry /\ IsStream(m.lines)
    /\ m.table \in PriceTables /\ m.minute \in Instants

(* The scanner holds what has come of the line, until that is too much; it   *)
(* drops bytes only in an over-long line or in the line after one.           *)
MeterInv(m, p, s) ==
    m # NoCall =>
        /\ CallOK(m) /\ ScannerOK(s)
        /\ p.line \in 1..(Len(m.lines) + 1) /\ p.byte \in Nat
        /\ p = [line |-> p.line, byte |-> p.byte]
        /\ p.line <= Len(m.lines) => p.byte <= m.lines[p.line].size
        /\ p.line = Len(m.lines) + 1 => p.byte = 0
        /\ IF s.overflow THEN s.held = 0 /\ (Long(m.lines, p.line - 1) \/ p.byte > MaxLineBytes)
           ELSE s.held = p.byte
        /\ Kept(Registry[m.wire].shape, m.lines, p.line - 1, s.usage)

LEMMA AppendPartialFacts ==
    ASSUME NEW s, ScannerOK(s), NEW n \in Nat, NEW t, t = AppendPartial(s, n)
    PROVE  /\ ScannerOK(t) /\ t.usage = s.usage
           /\ s.overflow => t = s
           /\ (~ s.overflow /\ s.held + n > MaxLineBytes) => t.overflow /\ t.held = 0
           /\ (~ s.overflow /\ ~ (s.held + n > MaxLineBytes)) => ~ t.overflow /\ t.held = s.held + n
<1> USE MeteringAssumption DEF MeteringAssumption
<1>1. CASE s.overflow
  BY <1>1 DEF AppendPartial
<1>2. CASE ~ s.overflow /\ s.held + n > MaxLineBytes
  <2>1. PICK z \in Nat : z = 0
    OBVIOUS
  <2>2. t = [s EXCEPT !.overflow = TRUE, !.held = z]
    BY <1>2, <2>1 DEF AppendPartial
  <2>3. t = [held |-> z, overflow |-> TRUE, usage |-> s.usage, firstToken |-> s.firstToken,
             completed |-> s.completed, failed |-> s.failed]
    BY <2>2 DEF ScannerOK
  <2>4. QED BY <1>2, <2>1, <2>3 DEF ScannerOK
<1>3. CASE ~ s.overflow /\ ~ (s.held + n > MaxLineBytes)
  <2>1. PICK z \in Nat : z = s.held + n
    BY DEF ScannerOK
  <2>2. t = [s EXCEPT !.held = z]
    BY <1>3, <2>1 DEF AppendPartial
  <2>3. t = [held |-> z, overflow |-> s.overflow, usage |-> s.usage, firstToken |-> s.firstToken,
             completed |-> s.completed, failed |-> s.failed]
    BY <2>2 DEF ScannerOK
  <2>4. QED BY <1>3, <2>1, <2>3 DEF ScannerOK
<1>4. QED BY <1>1, <1>2, <1>3

LEMMA DiscardedFacts ==
    ASSUME NEW s, ScannerOK(s), NEW t, t = Discarded(s)
    PROVE  ScannerOK(t) /\ t.usage = s.usage /\ ~ t.overflow /\ t.held = 0
<1>1. PICK z \in Nat : z = 0
  OBVIOUS
<1>2. t = [held |-> z, overflow |-> FALSE, usage |-> s.usage, firstToken |-> s.firstToken,
           completed |-> s.completed, failed |-> s.failed]
  BY <1>1 DEF ScannerOK, Discarded
<1>3. QED BY <1>1, <1>2 DEF ScannerOK

LEMMA ProcessedFacts ==
    ASSUME NEW s, ScannerOK(s), NEW e, IsUsage(e.inner), IsUsage(e.outer),
           NEW t, t = Emptied(ProcessLine(s, e))
    PROVE  /\ ScannerOK(t) /\ t.held = 0 /\ t.overflow = s.overflow
           /\ t.usage = IF e.kind = "comment" THEN s.usage
                        ELSE Keeps(Registry[metered.wire].shape, s.usage, e)
<1>1. PICK z \in Nat : z = 0
  OBVIOUS
<1>2. CASE e.kind = "comment"
  <2>1. t = [held |-> z, overflow |-> s.overflow, usage |-> s.usage, firstToken |-> s.firstToken,
             completed |-> s.completed, failed |-> s.failed]
    BY <1>1, <1>2 DEF ScannerOK, ProcessLine, Emptied
  <2>2. t.held = 0 /\ t.overflow = s.overflow /\ t.usage = s.usage
    BY <1>1, <2>1
  <2>3. ScannerOK(t)
    BY <1>1, <2>1, <2>2 DEF ScannerOK
  <2>4. QED BY <1>2, <2>2, <2>3
<1>3. CASE e.kind # "comment"
  <2>1. PICK a, b, c : ProcessLine(s, e) = [s EXCEPT !.usage = Keeps(Registry[metered.wire].shape, s.usage, e),
                                     !.firstToken = a, !.completed = b, !.failed = c]
    <3> DEFINE shape == Registry[metered.wire].shape
               a == s.firstToken \/ e.kind = "delta"
               b == s.completed \/ (e.kind = "stop" /\ shape \in {"anthropic", "responses"})
               c == s.failed \/ (e.kind = "error" /\ shape = "anthropic")
    <3>1. ProcessLine(s, e) = [s EXCEPT !.usage = Keeps(Registry[metered.wire].shape, s.usage, e),
                                     !.firstToken = a, !.completed = b, !.failed = c]
      BY <1>3, Zenon DEF ProcessLine
    <3> HIDE DEF a, b, c
    <3>2. QED BY <3>1
  <2>2. t = [held |-> z, overflow |-> s.overflow, usage |-> Keeps(Registry[metered.wire].shape, s.usage, e),
             firstToken |-> a, completed |-> b, failed |-> c]
    BY <1>1, <2>1 DEF ScannerOK, Emptied
  <2>3. IsUsage(Keeps(Registry[metered.wire].shape, s.usage, e))
    BY KeepsIsUsage DEF ScannerOK
  <2>4. t.held = 0 /\ t.overflow = s.overflow /\ t.usage = Keeps(Registry[metered.wire].shape, s.usage, e)
    BY <1>1, <2>2
  <2>5. ScannerOK(t)
    BY <1>1, <2>2, <2>3, <2>4 DEF ScannerOK
  <2>6. QED BY <1>3, <2>4, <2>5
<1>4. QED BY <1>2, <1>3

(* A complete line is lost, or kept. *)
LEMMA LineLost ==
    ASSUME NEW shape, NEW lines, NEW k \in Nat \ {0}, NEW u, Kept(shape, lines, k - 1, u),
           Long(lines, k) \/ Long(lines, k - 1)
    PROVE  Kept(shape, lines, k, u)
<1>1. PICK lost \in SUBSET {i \in 1..(k - 1) : Long(lines, i) \/ Long(lines, i - 1)} :
           u = Reported(shape, lines, (1..(k - 1)) \ lost)
  BY DEF Kept
<1>2. (1..k) \ (lost \cup {k}) = (1..(k - 1)) \ lost
  OBVIOUS
<1>3. lost \cup {k} \in SUBSET {i \in 1..k : Long(lines, i) \/ Long(lines, i - 1)}
  OBVIOUS
<1>4. QED BY <1>1, <1>2, <1>3 DEF Kept

LEMMA LineKept ==
    ASSUME NEW shape, NEW lines, IsStream(lines), NEW k \in 1..Len(lines),
           NEW u, IsUsage(u), Kept(shape, lines, k - 1, u), NEW e, e = lines[k].event
    PROVE  Kept(shape, lines, k, IF e.kind = "comment" THEN u ELSE Keeps(shape, u, e))
<1>1. PICK lost \in SUBSET {i \in 1..(k - 1) : Long(lines, i) \/ Long(lines, i - 1)} :
           u = Reported(shape, lines, (1..(k - 1)) \ lost)
  BY DEF Kept
<1> DEFINE D == (1..(k - 1)) \ lost
<1>2. k \in Nat \ {0} /\ D \subseteq 1..(k - 1) /\ (1..k) \ lost = D \cup {k}
  BY <1>1 DEF IsStream
<1>3. lost \in SUBSET {i \in 1..k : Long(lines, i) \/ Long(lines, i - 1)}
  BY <1>1, <1>2
<1> HIDE DEF D
<1>4. u = Reported(shape, lines, D)
  BY <1>1 DEF D
<1>5. Reported(shape, lines, D \cup {k}) = IF e.kind = "comment" THEN u ELSE Keeps(shape, u, e)
  BY <1>2, <1>4, OneMoreLine
<1>6. QED BY <1>2, <1>3, <1>5 DEF Kept

LEMMA NothingReported ==
    ASSUME NEW shape, NEW lines PROVE Kept(shape, lines, 0, Unreported)
<1>1. /\ Reporting(shape, lines, {}) = {} /\ \A f : Saying(lines, {}, f) = {}
  BY DEF Reporting, Saying, Stating
<1>2. CASE shape # "anthropic"
  <2>1. Reported(shape, lines, {}) = Unreported
    BY <1>1, <1>2 DEF Reported
  <2>2. (1..0) \ {} = {}
    OBVIOUS
  <2>3. QED BY <2>1, <2>2 DEF Kept
<1>3. CASE shape = "anthropic"
  <2> DEFINE r == Reported(shape, lines, {})
  <2>1. r = [f \in {g \in Axes : Saying(lines, {}, g) # {}} |->
                FieldOf(lines[Max(Saying(lines, {}, f))].event, f)]
    BY <1>3 DEF Reported
  <2>2. {g \in Axes : Saying(lines, {}, g) # {}} = {}
    BY <1>1
  <2> HIDE DEF r
  <2>3. r = [f \in DOMAIN r |-> r[f]] /\ DOMAIN r = {}
    BY <2>1, <2>2
  <2>4. r = Unreported
    BY <2>3 DEF Unreported
  <2>5. (1..0) \ {} = {}
    OBVIOUS
  <2>6. QED BY <2>4, <2>5 DEF Kept, r
<1>4. QED BY <1>2, <1>3

(* Before a call nothing has come. *)
Fresh(m, p, s) == m = NoCall => p = [line |-> 1, byte |-> 0] /\ s = NewScanner

MeteringInv(m, p, s) == Fresh(m, p, s) /\ MeterInv(m, p, s)

LEMMA FreshScanner ==
    ASSUME NEW s, s = NewScanner
    PROVE  ScannerOK(s) /\ s.held = 0 /\ ~ s.overflow /\ s.usage = Unreported
BY UnreportedIsUsage DEF ScannerOK, NewScanner

LEMMA BeginKeeps ==
    ASSUME NEW a \in Answers, NEW t \in PriceTables, NEW m \in Instants, Begin(a, t, m),
           MeteringInv(metered, position, scanner)
    PROVE  MeteringInv(metered', position', scanner')
<1> DEFINE wire == Resolve(a.enabled, a.path)
<1>1. /\ wire # "none" /\ position' = position /\ scanner' = scanner
      /\ metered' = [wire |-> wire, lines |-> a.lines, table |-> t, minute |-> m]
      /\ position = [line |-> 1, byte |-> 0] /\ scanner = NewScanner
  BY DEF Begin, MeteringInv, Fresh
<1>2. wire \in DOMAIN Registry /\ IsStream(a.lines)
  BY <1>1, ResolveNamesAWire, MeteringAssumption DEF MeteringAssumption
<1> HIDE DEF wire
<1>3. CallOK(metered') /\ metered'.lines = a.lines /\ Len(a.lines) \in Nat
  BY <1>1, <1>2 DEF CallOK, IsStream
<1>4. /\ ScannerOK(scanner') /\ scanner'.held = 0 /\ ~ scanner'.overflow /\ scanner'.usage = Unreported
  BY <1>1, FreshScanner
<1>5. /\ position'.line = 1 /\ position'.byte = 0
      /\ position' = [line |-> position'.line, byte |-> position'.byte]
  BY <1>1
<1>6. \A i \in 1..Len(a.lines) : a.lines[i].size \in Nat
  BY <1>2 DEF IsStream
<1>7. position'.line <= Len(a.lines) => position'.byte <= a.lines[position'.line].size
  BY <1>3, <1>5, <1>6
<1>8. Kept(Registry[metered'.wire].shape, metered'.lines, position'.line - 1, scanner'.usage)
  BY <1>4, <1>5, NothingReported
<1>9. MeterInv(metered', position', scanner')
  BY <1>3, <1>4, <1>5, <1>7, <1>8 DEF MeterInv
<1>10. metered' # NoCall
  <2>1. "lines" \in DOMAIN metered' /\ "lines" \notin DOMAIN NoCall
    BY <1>1 DEF NoCall
  <2>2. QED BY <2>1
<1>11. QED BY <1>9, <1>10 DEF MeteringInv, Fresh

LEMMA StreamingFacts ==
    ASSUME Streaming, MeteringInv(metered, position, scanner)
    PROVE  /\ CallOK(metered) /\ ScannerOK(scanner)
           /\ position.line \in 1..Len(metered.lines) /\ position.byte \in Nat /\ Len(metered.lines) \in Nat
           /\ metered.lines[position.line].size \in Nat
           /\ IsUsage(metered.lines[position.line].event.inner)
           /\ IsUsage(metered.lines[position.line].event.outer)
           /\ Left = metered.lines[position.line].size - position.byte /\ Left \in Nat
           /\ IF scanner.overflow
              THEN scanner.held = 0 /\ (Long(metered.lines, position.line - 1) \/ position.byte > MaxLineBytes)
              ELSE scanner.held = position.byte
           /\ Kept(Registry[metered.wire].shape, metered.lines, position.line - 1, scanner.usage)
<1>1. MeterInv(metered, position, scanner) /\ metered # NoCall /\ position.line <= Len(metered.lines)
  BY DEF Streaming, MeteringInv
<1>2. IsStream(metered.lines)
  BY <1>1 DEF MeterInv, CallOK
<1>3. position.line \in 1..Len(metered.lines) /\ Len(metered.lines) \in Nat
  BY <1>1, <1>2 DEF MeterInv, IsStream
<1>4. /\ metered.lines[position.line].size \in Nat
      /\ IsUsage(metered.lines[position.line].event.inner)
      /\ IsUsage(metered.lines[position.line].event.outer)
  BY <1>2, <1>3 DEF IsStream
<1>5. Left = metered.lines[position.line].size - position.byte /\ Left \in Nat
  BY <1>1, <1>4 DEF Left, MeterInv
<1>6. QED BY <1>1, <1>3, <1>4, <1>5 DEF MeterInv

LEMMA WritePartialKeeps ==
    ASSUME NEW n \in 1..Left, WritePartial(n), MeteringInv(metered, position, scanner)
    PROVE  MeteringInv(metered', position', scanner')
<1>1. /\ Streaming /\ metered' = metered /\ scanner' = AppendPartial(scanner, n)
      /\ position' = [position EXCEPT !.byte = @ + n]
  BY DEF WritePartial
<1>2. /\ CallOK(metered) /\ ScannerOK(scanner)
      /\ position.line \in 1..Len(metered.lines) /\ position.byte \in Nat /\ Len(metered.lines) \in Nat
      /\ metered.lines[position.line].size \in Nat
      /\ Left = metered.lines[position.line].size - position.byte /\ Left \in Nat
      /\ IF scanner.overflow
         THEN scanner.held = 0 /\ (Long(metered.lines, position.line - 1) \/ position.byte > MaxLineBytes)
         ELSE scanner.held = position.byte
      /\ Kept(Registry[metered.wire].shape, metered.lines, position.line - 1, scanner.usage)
  BY <1>1, StreamingFacts
<1>3. metered # NoCall /\ position = [line |-> position.line, byte |-> position.byte]
  BY <1>1 DEF Streaming, MeteringInv, MeterInv
<1>4. PICK b \in Nat : b = position.byte + n
  BY <1>2
<1>5. position' = [line |-> position.line, byte |-> b]
  BY <1>1, <1>3, <1>4
<1>6. /\ position'.line = position.line /\ position'.byte = b
      /\ position' = [line |-> position'.line, byte |-> position'.byte]
  BY <1>5
<1>7. b <= metered.lines[position.line].size
  BY <1>2, <1>4
<1>8. /\ ScannerOK(scanner') /\ scanner'.usage = scanner.usage
      /\ scanner.overflow => scanner' = scanner
      /\ (~ scanner.overflow /\ scanner.held + n > MaxLineBytes) => scanner'.overflow /\ scanner'.held = 0
      /\ (~ scanner.overflow /\ ~ (scanner.held + n > MaxLineBytes))
            => ~ scanner'.overflow /\ scanner'.held = scanner.held + n
  <2>1. n \in Nat
    BY <1>2
  <2>2. ScannerOK(scanner) /\ scanner' = AppendPartial(scanner, n)
    BY <1>1, <1>2
  <2>3. ScannerOK(scanner') /\ scanner'.usage = scanner.usage
    BY <2>1, <2>2, AppendPartialFacts
  <2>4. scanner.overflow => scanner' = scanner
    BY <2>1, <2>2, AppendPartialFacts
  <2>5. (~ scanner.overflow /\ scanner.held + n > MaxLineBytes) => scanner'.overflow /\ scanner'.held = 0
    BY <2>1, <2>2, AppendPartialFacts
  <2>6. (~ scanner.overflow /\ ~ (scanner.held + n > MaxLineBytes))
            => ~ scanner'.overflow /\ scanner'.held = scanner.held + n
    BY <2>1, <2>2, AppendPartialFacts
  <2>7. QED BY <2>3, <2>4, <2>5, <2>6
<1>9. IF scanner'.overflow
      THEN scanner'.held = 0 /\ (Long(metered.lines, position.line - 1) \/ b > MaxLineBytes)
      ELSE scanner'.held = b
  <2>1. n \in Nat /\ MaxLineBytes \in Nat
    BY <1>2, MeteringAssumption DEF MeteringAssumption
  <2>2. CASE scanner.overflow
    BY <1>2, <1>4, <1>8, <2>1, <2>2
  <2>3. CASE ~ scanner.overflow
    BY <1>2, <1>4, <1>8, <2>1, <2>3
  <2>4. QED BY <2>2, <2>3
<1>10. MeterInv(metered', position', scanner')
  BY <1>1, <1>2, <1>6, <1>7, <1>8, <1>9 DEF MeterInv
<1>11. QED BY <1>1, <1>3, <1>10 DEF MeteringInv, Fresh

LEMMA WriteLineKeeps ==
    ASSUME WriteLine, MeteringInv(metered, position, scanner)
    PROVE  MeteringInv(metered', position', scanner')
<1> DEFINE k == position.line
           e == metered.lines[k].event
           shape == Registry[metered.wire].shape
           joined == IF scanner.held > 0 THEN AppendPartial(scanner, Left) ELSE scanner
<1>1. /\ Streaming /\ metered' = metered /\ position' = [line |-> k + 1, byte |-> 0]
      /\ scanner' = IF scanner.overflow THEN Discarded(scanner)
                    ELSE IF joined.overflow THEN joined
                    ELSE Emptied(ProcessLine(joined, e))
  BY DEF WriteLine
<1>2. /\ CallOK(metered) /\ ScannerOK(scanner)
      /\ k \in 1..Len(metered.lines) /\ position.byte \in Nat /\ Len(metered.lines) \in Nat
      /\ metered.lines[k].size \in Nat /\ IsUsage(e.inner) /\ IsUsage(e.outer)
      /\ Left = metered.lines[k].size - position.byte /\ Left \in Nat
      /\ IF scanner.overflow
         THEN scanner.held = 0 /\ (Long(metered.lines, k - 1) \/ position.byte > MaxLineBytes)
         ELSE scanner.held = position.byte
      /\ Kept(shape, metered.lines, k - 1, scanner.usage)
  BY <1>1, StreamingFacts
<1>3. metered # NoCall /\ MaxLineBytes \in Nat
  BY <1>1, MeteringAssumption DEF Streaming, MeteringAssumption
<1>4. /\ ScannerOK(joined) /\ joined.usage = scanner.usage
      /\ ~ scanner.overflow /\ joined.overflow => joined.held = 0 /\ metered.lines[k].size > MaxLineBytes
  <2>1. CASE scanner.held > 0
    <3>1. joined = AppendPartial(scanner, Left)
      BY <2>1
    <3> HIDE DEF joined
    <3>2. /\ ScannerOK(joined) /\ joined.usage = scanner.usage
          /\ (~ scanner.overflow /\ scanner.held + Left > MaxLineBytes) => joined.held = 0
          /\ (~ scanner.overflow /\ ~ (scanner.held + Left > MaxLineBytes)) => ~ joined.overflow
      <4>1. ScannerOK(scanner) /\ Left \in Nat
        BY <1>2
      <4>2. ScannerOK(joined) /\ joined.usage = scanner.usage
        BY <3>1, <4>1, AppendPartialFacts
      <4>3. (~ scanner.overflow /\ scanner.held + Left > MaxLineBytes) => joined.held = 0
        BY <3>1, <4>1, AppendPartialFacts
      <4>4. (~ scanner.overflow /\ ~ (scanner.held + Left > MaxLineBytes)) => ~ joined.overflow
        BY <3>1, <4>1, AppendPartialFacts
      <4>5. QED BY <4>2, <4>3, <4>4
    <3>3. ~ scanner.overflow => scanner.held + Left = metered.lines[k].size
      BY <1>2
    <3>4. QED BY <3>2, <3>3
  <2>2. CASE ~ (scanner.held > 0)
    BY <2>2, <1>2
  <2>3. QED BY <2>1, <2>2
<1> HIDE DEF joined
<1>5. CallOK(metered') /\ k + 1 \in 1..(Len(metered.lines) + 1)
  BY <1>1, <1>2
<1>6. PICK z \in Nat : z = 0
  OBVIOUS
<1>7. /\ position'.line = k + 1 /\ position'.byte = z
      /\ position' = [line |-> position'.line, byte |-> position'.byte]
  BY <1>1, <1>6
<1>8. k + 1 <= Len(metered.lines) => metered.lines[k + 1].size \in Nat
  BY <1>2 DEF CallOK, IsStream
<1>9. /\ ScannerOK(scanner') /\ scanner'.held = 0 /\ Kept(shape, metered.lines, k, scanner'.usage)
      /\ scanner'.overflow => Long(metered.lines, k)
  <2>1. CASE scanner.overflow
    <3>1. ScannerOK(scanner') /\ scanner'.usage = scanner.usage /\ ~ scanner'.overflow /\ scanner'.held = 0
      BY <1>1, <1>2, <2>1, DiscardedFacts
    <3>2. Long(metered.lines, k) \/ Long(metered.lines, k - 1)
      BY <1>2, <1>3, <2>1 DEF Long
    <3>3. k \in Nat \ {0}
      BY <1>2
    <3>4. Kept(shape, metered.lines, k, scanner.usage)
      BY <1>2, <3>2, <3>3, LineLost
    <3>5. QED BY <3>1, <3>4
  <2>2. CASE ~ scanner.overflow /\ joined.overflow
    <3>1. Long(metered.lines, k) /\ k \in Nat \ {0}
      BY <1>2, <1>4, <2>2 DEF Long
    <3>2. Kept(shape, metered.lines, k, scanner.usage)
      BY <1>2, <3>1, LineLost
    <3>3. scanner' = joined
      BY <1>1, <2>2
    <3>4. QED BY <1>4, <2>2, <3>1, <3>2, <3>3
  <2>3. CASE ~ scanner.overflow /\ ~ joined.overflow
    <3>1. scanner' = Emptied(ProcessLine(joined, e))
      BY <1>1, <2>3
    <3>2. /\ ScannerOK(scanner') /\ scanner'.held = 0 /\ scanner'.overflow = joined.overflow
          /\ scanner'.usage = IF e.kind = "comment" THEN joined.usage ELSE Keeps(shape, joined.usage, e)
      <4>1. ScannerOK(joined) /\ IsUsage(e.inner) /\ IsUsage(e.outer)
        BY <1>2, <1>4
      <4>2. ScannerOK(scanner')
        BY <3>1, <4>1, ProcessedFacts
      <4>3. scanner'.held = 0 /\ scanner'.overflow = joined.overflow
        BY <3>1, <4>1, ProcessedFacts
      <4>4. scanner'.usage = IF e.kind = "comment" THEN joined.usage ELSE Keeps(shape, joined.usage, e)
        BY <3>1, <4>1, ProcessedFacts
      <4>5. QED BY <4>2, <4>3, <4>4
    <3>3. IsStream(metered.lines) /\ IsUsage(scanner.usage)
      BY <1>2 DEF CallOK, ScannerOK
    <3>4. Kept(shape, metered.lines, k,
               IF e.kind = "comment" THEN scanner.usage ELSE Keeps(shape, scanner.usage, e))
      BY <1>2, <3>3, LineKept
    <3>5. QED BY <1>4, <2>3, <3>2, <3>4
  <2>4. QED BY <2>1, <2>2, <2>3
<1>10. position'.line - 1 = k
  BY <1>2, <1>7
<1>11. MeterInv(metered', position', scanner')
  <2>1. /\ CallOK(metered') /\ ScannerOK(scanner')
        /\ position'.line \in 1..(Len(metered'.lines) + 1) /\ position'.byte \in Nat
        /\ position' = [line |-> position'.line, byte |-> position'.byte]
    BY <1>1, <1>5, <1>6, <1>7, <1>9
  <2>2. position'.line <= Len(metered'.lines) => position'.byte <= metered'.lines[position'.line].size
    BY <1>1, <1>6, <1>7, <1>8
  <2>3. position'.line = Len(metered'.lines) + 1 => position'.byte = 0
    BY <1>6, <1>7
  <2>4. IF scanner'.overflow
        THEN scanner'.held = 0 /\ (Long(metered'.lines, position'.line - 1) \/ position'.byte > MaxLineBytes)
        ELSE scanner'.held = position'.byte
    BY <1>1, <1>6, <1>7, <1>9, <1>10
  <2>5. Kept(Registry[metered'.wire].shape, metered'.lines, position'.line - 1, scanner'.usage)
    <3>1. Registry[metered'.wire].shape = shape /\ metered'.lines = metered.lines
      BY <1>1
    <3>2. QED BY <3>1, <1>9, <1>10
  <2>6. QED BY <2>1, <2>2, <2>3, <2>4, <2>5 DEF MeterInv
<1>12. QED BY <1>1, <1>3, <1>11 DEF MeteringInv, Fresh

LEMMA MeteringStarts == MeteringInit => MeteringInv(metered, position, scanner)
BY DEF MeteringInit, MeteringInv, Fresh, MeterInv

LEMMA MeteringKeeps ==
    MeteringInv(metered, position, scanner) /\ [MeteringNext]_meteringVars
        => MeteringInv(metered', position', scanner')
<1> SUFFICES ASSUME MeteringInv(metered, position, scanner), [MeteringNext]_meteringVars
             PROVE  MeteringInv(metered', position', scanner')
  OBVIOUS
<1>1. CASE \E a \in Answers, t \in PriceTables, m \in Instants : Begin(a, t, m)
  BY <1>1, BeginKeeps
<1>2. CASE Streaming /\ \E n \in 1..Left : WritePartial(n)
  BY <1>2, WritePartialKeeps
<1>3. CASE WriteLine
  BY <1>3, WriteLineKeeps
<1>4. CASE UNCHANGED meteringVars
  BY <1>4 DEF meteringVars
<1>5. QED BY <1>1, <1>2, <1>3, <1>4 DEF MeteringNext

LEMMA Divides ==
    ASSUME NEW a \in Int, NEW K \in Nat \ {0}
    PROVE  /\ a \div K \in Int /\ a % K \in 0..(K - 1)
           /\ a = K * (a \div K) + (a % K)
OBVIOUS

LEMMA Division ==
    ASSUME NEW a \in Int, NEW K \in Nat \ {0}
    PROVE  \E q \in Int, r \in 0..(K - 1) : a = K * q + r /\ q = a \div K /\ r = a % K
BY Divides

LEMMA Multiples ==
    ASSUME NEW K \in Nat \ {0}, NEW p \in Int, NEW q \in Int, p < q
    PROVE  K * p + K <= K * q
OBVIOUS

LEMMA Quotient ==
    ASSUME NEW K \in Nat \ {0}, NEW q \in Int, NEW r \in 0..(K - 1), NEW a \in Int, a = K * q + r
    PROVE  a \div K = q /\ a % K = r
<1>1. PICK p \in Int, s \in 0..(K - 1) : a = K * p + s /\ p = a \div K /\ s = a % K
  BY Divides
<1>2. CASE p < q
  <2>1. PICK u, v \in Int : u = K * p /\ v = K * q
    OBVIOUS
  <2>2. u + K <= v
    BY <1>1, <1>2, <2>1, Multiples
  <2>3. QED BY <1>1, <2>1, <2>2
<1>3. CASE q < p
  <2>1. PICK u, v \in Int : u = K * p /\ v = K * q
    OBVIOUS
  <2>2. v + K <= u
    BY <1>1, <1>3, <2>1, Multiples
  <2>3. QED BY <1>1, <2>1, <2>2
<1>4. CASE p = q
  BY <1>1, <1>4
<1>5. QED BY <1>1, <1>2, <1>3, <1>4

LEMMA WeekFacts ==
    /\ MinutesPerDay \in Nat \ {0} /\ DaysPerWeek \in Nat \ {0} /\ Week \in Nat \ {0}
    /\ Week = MinutesPerDay * DaysPerWeek
<1>1. MinutesPerDay \in Nat \ {0} /\ DaysPerWeek \in Nat \ {0}
  BY MeteringAssumption DEF MeteringAssumption
<1>2. MinutesPerDay * DaysPerWeek \in Nat /\ MinutesPerDay * DaysPerWeek # 0
  BY <1>1
<1>3. QED BY <1>1, <1>2 DEF Week

(* From a minute of the week to the day and minute of another zone's week,   *)
(* and back.                                                                 *)
LEMMA ThereAndBack ==
    ASSUME NEW off \in Int, NEW minute \in 0..(Week - 1), NEW local, local = LocalMinute(off, minute)
    PROVE  UtcMinute(off, local \div MinutesPerDay, local % MinutesPerDay) = minute
<1>0. PICK K \in Nat \ {0}, W \in Nat \ {0} : K = MinutesPerDay /\ W = Week
  BY WeekFacts
<1>1. PICK x \in Int : x = minute + off
  BY <1>0
<1>2. PICK q \in Int, l \in 0..(W - 1) : x = W * q + l /\ l = x % W
  BY Division
<1>3. l = local /\ l \in Int
  <2>1. l = local
    BY <1>0, <1>1, <1>2, Zenon DEF LocalMinute
  <2>2. QED BY <2>1
<1>4. PICK d \in Int, m \in 0..(K - 1) : l = K * d + m /\ d = l \div K /\ m = l % K
  BY <1>3, Division
<1>5. PICK e \in Int : e = d * K /\ e = K * d
  OBVIOUS
<1>6. PICK z \in Int : z = W * q /\ W * (-q) = -z
  OBVIOUS
<1>7. PICK p \in Int : p = -q
  OBVIOUS
<1>8. PICK y \in Int : y = e + m - off
  OBVIOUS
<1>9. l = e + m /\ x = z + l
  BY <1>2, <1>4, <1>5, <1>6
<1>10. W * p = -z
  BY <1>6, <1>7
<1>11. y = -z + minute
  BY <1>0, <1>1, <1>3, <1>8, <1>9
<1>12. y = W * p + minute
  BY <1>0, <1>10, <1>11
<1>13. y % W = minute
  BY <1>0, <1>12, Quotient
<1>14. y = d * K + m - off
  BY <1>5, <1>8
<1>15. QED BY <1>0, <1>3, <1>4, <1>13, <1>14, Zenon DEF UtcMinute

LEMMA BackAndThere ==
    ASSUME NEW off \in Int, NEW d \in 0..(DaysPerWeek - 1), NEW m \in 0..(MinutesPerDay - 1),
           NEW minute \in 0..(Week - 1), minute = UtcMinute(off, d, m)
    PROVE  LocalMinute(off, minute) \div MinutesPerDay = d /\ LocalMinute(off, minute) % MinutesPerDay = m
<1>0. PICK K \in Nat \ {0}, D \in Nat \ {0}, W \in Nat \ {0} :
           K = MinutesPerDay /\ D = DaysPerWeek /\ W = Week /\ W = K * D
  BY WeekFacts
<1>1. PICK e \in Int : e = d * K /\ e = K * d
  BY <1>0
<1>2. PICK l \in Int : l = e + m
  BY <1>0
<1>3. PICK y \in Int : y = l - off
  OBVIOUS
<1>4. minute = y % W
  <2>1. y = d * K + m - off
    BY <1>0, <1>1, <1>2, <1>3
  <2>2. QED BY <1>0, <2>1, Zenon DEF UtcMinute
<1>5. PICK q \in Int, r \in 0..(W - 1) : y = W * q + r /\ r = y % W
  BY Division
<1>6. PICK x \in Int : x = r + off
  OBVIOUS
<1>7. LocalMinute(off, minute) = x % W
  BY <1>0, <1>4, <1>5, <1>6, Zenon DEF LocalMinute
<1>8. PICK z \in Int : z = W * q /\ W * (-q) = -z
  OBVIOUS
<1>9. PICK p \in Int : p = -q
  OBVIOUS
<1>10. W * p = -z
  BY <1>8, <1>9
<1>11. y = z + r
  BY <1>5, <1>8
<1>12. x = -z + l
  BY <1>3, <1>6, <1>11
<1>13. x = W * p + l
  BY <1>10, <1>12
<1>14. l \in 0..(W - 1)
  <2>1. d < D /\ d \in Int /\ d >= 0 /\ m \in 0..(K - 1)
    BY <1>0
  <2>2. e + K <= W
    BY <2>1, <1>0, <1>1, Multiples
  <2>3. e >= 0
    BY <2>1, <1>1
  <2>4. QED BY <2>1, <2>2, <2>3, <1>2
<1>15. x % W = l
  BY <1>13, <1>14, Quotient
<1>16. LocalMinute(off, minute) = l
  BY <1>7, <1>15, Zenon
<1>17. l = K * d + m /\ d \in Int /\ m \in 0..(K - 1)
  BY <1>0, <1>1, <1>2
<1>18. l \div K = d /\ l % K = m
  <2>1. K \in Nat \ {0} /\ d \in Int /\ m \in 0..(K - 1) /\ l \in Int /\ l = K * d + m
    BY <1>17
  <2>2. \A a \in Int : a = K * d + m => a \div K = d /\ a % K = m
    <3>1. \A n \in Nat \ {0} : \A b \in Int : \A c \in 0..(n - 1) : \A a \in Int :
             a = n * b + c => a \div n = b /\ a % n = c
      BY Quotient
    <3>2. \A b \in Int : \A c \in 0..(K - 1) : \A a \in Int :
             a = K * b + c => a \div K = b /\ a % K = c
      BY <3>1, Zenon
    <3>3. \A c \in 0..(K - 1) : \A a \in Int :
             a = K * d + c => a \div K = d /\ a % K = c
      BY <3>2, <2>1, Zenon
    <3>4. QED BY <2>1, <3>3, Zenon
  <2>3. QED BY <2>1, <2>2, Zenon
<1>19. QED BY <1>0, <1>16, <1>18, Zenon

(* A minute is in a window exactly when it is one of those the window covers. *)
LEMMA InWindowIsCovered ==
    ASSUME NEW w \in WeeklyWindows, NEW minute \in 0..(Week - 1)
    PROVE  InWindow(w, minute) <=> minute \in Covers(w)
<1>1. /\ w.offset \in Int /\ w.days \subseteq 0..(DaysPerWeek - 1)
      /\ \A m \in w.start..(w.end - 1) : m \in 0..(MinutesPerDay - 1)
  BY WeekFacts DEF WeeklyWindows
<1>2. PICK local : local = LocalMinute(w.offset, minute)
  OBVIOUS
<1>3. InWindow(w, minute)
        <=> local \div MinutesPerDay \in w.days /\ local % MinutesPerDay \in w.start..(w.end - 1)
  BY <1>2, Zenon DEF InWindow
<1>4. minute \in Covers(w)
        <=> \E d \in w.days, m \in w.start..(w.end - 1) : minute = UtcMinute(w.offset, d, m)
  BY SMT DEF Covers
<1>5. ASSUME InWindow(w, minute) PROVE minute \in Covers(w)
  <2>1. UtcMinute(w.offset, local \div MinutesPerDay, local % MinutesPerDay) = minute
    BY <1>1, <1>2, ThereAndBack, Zenon
  <2>2. QED BY <1>3, <1>4, <1>5, <2>1, Zenon
<1>6. ASSUME minute \in Covers(w) PROVE InWindow(w, minute)
  <2>1. PICK d \in w.days, m \in w.start..(w.end - 1) : minute = UtcMinute(w.offset, d, m)
    BY <1>4, <1>6, Zenon
  <2>2. d \in 0..(DaysPerWeek - 1) /\ m \in 0..(MinutesPerDay - 1)
    BY <1>1, Zenon
  <2>4. local \div MinutesPerDay = d /\ local % MinutesPerDay = m
    <3>1. w.offset \in Int
      BY <1>1
    <3>2. /\ LocalMinute(w.offset, minute) \div MinutesPerDay = d
          /\ LocalMinute(w.offset, minute) % MinutesPerDay = m
      BY <2>1, <2>2, <3>1, BackAndThere
    <3>3. QED BY <1>2, <3>2, Zenon
  <2>5. QED BY <1>3, <2>4, Zenon
<1>7. QED BY <1>5, <1>6

RateAxes == {"input", "output", "read", "write"}

LEMMA TableFacts ==
    ASSUME NEW t \in PriceTables
    PROVE  /\ t \in [input : Int, output : Int, read : Int, write : Int,
                     tiers : Seq(CostTiers), schedules : Seq(CostSchedules)]
           /\ t.tiers = <<>> \/ t.schedules = <<>>
BY MeteringAssumption DEF MeteringAssumption

LEMMA OverrideFacts ==
    ASSUME NEW t \in PriceTables, NEW r, NEW axis \in RateAxes
    PROVE  Override(t, r)[axis] = IF r[axis] # 0 THEN r[axis] ELSE t[axis]
<1>1. t = [input |-> t.input, output |-> t.output, read |-> t.read, write |-> t.write,
           tiers |-> t.tiers, schedules |-> t.schedules]
  BY TableFacts
<1> DEFINE a == IF r.input # 0 THEN r.input ELSE t.input
           b == IF r.output # 0 THEN r.output ELSE t.output
           c == IF r.read # 0 THEN r.read ELSE t.read
           d == IF r.write # 0 THEN r.write ELSE t.write
<1>2. Override(t, r) = [t EXCEPT !.input = a, !.output = b, !.read = c, !.write = d]
  BY DEF Override
<1> HIDE DEF a, b, c, d
<1>3. Override(t, r) = [input |-> a, output |-> b, read |-> c, write |-> d,
                        tiers |-> t.tiers, schedules |-> t.schedules]
  BY <1>1, <1>2
<1>4. /\ Override(t, r).input = a /\ Override(t, r).output = b
      /\ Override(t, r).read = c /\ Override(t, r).write = d
  BY <1>3
<1>5. QED BY <1>4 DEF a, b, c, d, RateAxes

LEMMA OnSchedule ==
    ASSUME NEW t \in PriceTables, t.schedules # <<>>, NEW prompt \in Int, NEW minute \in Instants,
           NEW axis \in RateAxes
    PROVE  AtSchedule(t, minute)[axis] = Published(t, axis, prompt, minute)
<1> DEFINE hits == {i \in DOMAIN t.schedules : \E w \in t.schedules[i].when : InWindow(w, minute)}
           peak == {i \in DOMAIN t.schedules : minute \in UNION {Covers(w) : w \in t.schedules[i].when}}
           crossed == {i \in DOMAIN t.tiers : t.tiers[i].size < prompt}
           largest == {i \in crossed : \A j \in crossed : t.tiers[j].size <= t.tiers[i].size}
<1>1. hits = peak
  <2>1. minute \in 0..(Week - 1)
    BY MeteringAssumption DEF MeteringAssumption
  <2>2. ASSUME NEW i \in DOMAIN t.schedules, NEW w \in t.schedules[i].when
        PROVE  InWindow(w, minute) <=> minute \in Covers(w)
    <3>1. t.schedules \in Seq(CostSchedules)
      BY TableFacts
    <3>2. t.schedules[i] \in CostSchedules
      BY <3>1
    <3>3. w \in WeeklyWindows
      BY <3>2 DEF CostSchedules
    <3>4. QED BY <2>1, <3>3, InWindowIsCovered
  <2>3. ASSUME NEW i \in DOMAIN t.schedules
        PROVE  (\E w \in t.schedules[i].when : InWindow(w, minute))
                 <=> minute \in UNION {Covers(w) : w \in t.schedules[i].when}
    BY <2>2
  <2>4. QED BY <2>3
<1>2. largest = {}
  <2>1. t.tiers = <<>>
    BY TableFacts
  <2>2. QED BY <2>1
<1>3. AtSchedule(t, minute) = IF hits = {} THEN t ELSE Override(t, t.schedules[Min(hits)])
  BY DEF AtSchedule
<1> DEFINE raised == IF peak # {} THEN t.schedules[Min(peak)][axis]
                     ELSE IF largest # {} THEN t.tiers[Min(largest)][axis] ELSE 0
<1>4. Published(t, axis, prompt, minute) = IF raised = 0 THEN t[axis] ELSE raised
  BY DEF Published
<1> HIDE DEF hits, peak, largest
<1>5. CASE hits = {}
  BY <1>1, <1>2, <1>3, <1>4, <1>5
<1>6. CASE hits # {}
  <2>1. PICK r : r = t.schedules[Min(hits)]
    OBVIOUS
  <2>2. AtSchedule(t, minute) = Override(t, r) /\ raised = r[axis]
    BY <1>1, <1>3, <1>6, <2>1
  <2>3. QED BY <1>4, <2>2, OverrideFacts
<1>7. QED BY <1>5, <1>6

LEMMA OnTier ==
    ASSUME NEW t \in PriceTables, t.schedules = <<>>, NEW prompt \in Int, NEW minute \in Instants,
           NEW axis \in RateAxes
    PROVE  AtTier(t, prompt)[axis] = Published(t, axis, prompt, minute)
<1> DEFINE peak == {i \in DOMAIN t.schedules : minute \in UNION {Covers(w) : w \in t.schedules[i].when}}
           crossed == {i \in DOMAIN t.tiers : t.tiers[i].size < prompt}
           largest == {i \in crossed : \A j \in crossed : t.tiers[j].size <= t.tiers[i].size}
           over == {i \in DOMAIN t.tiers : prompt > t.tiers[i].size}
           best == {i \in over : \A j \in over : t.tiers[j].size < t.tiers[i].size
                                    \/ (t.tiers[j].size = t.tiers[i].size /\ i <= j)}
           raised == IF peak # {} THEN t.schedules[Min(peak)][axis]
                     ELSE IF largest # {} THEN t.tiers[Min(largest)][axis] ELSE 0
<1>1. Published(t, axis, prompt, minute) = IF raised = 0 THEN t[axis] ELSE raised
  BY DEF Published
<1>2. AtTier(t, prompt) = IF over = {} THEN t ELSE Override(t, t.tiers[CHOOSE i \in best : TRUE])
  BY DEF AtTier
<1>3. /\ DOMAIN t.tiers = 1..Len(t.tiers) /\ Len(t.tiers) \in Nat
      /\ \A i \in DOMAIN t.tiers : t.tiers[i].size \in Int
  <2>1. t.tiers \in Seq(CostTiers)
    BY TableFacts
  <2>2. ASSUME NEW i \in DOMAIN t.tiers PROVE t.tiers[i].size \in Int
    <3>1. t.tiers[i] \in CostTiers
      BY <2>1
    <3>2. QED BY <3>1 DEF CostTiers
  <2>3. QED BY <2>1, <2>2
<1>4. over = crossed
  BY <1>3
<1>5. peak = {}
  OBVIOUS
<1>6. CASE crossed = {}
  BY <1>1, <1>2, <1>4, <1>5, <1>6
<1>7. CASE crossed # {}
  <2>1. largest # {}
    <3>1. IsFiniteSet(1..Len(t.tiers))
      BY <1>3, FS_Interval
    <3>2. IsFiniteSet(crossed)
      BY <1>3, <3>1, FS_Subset
    <3>3. PICK f : f = [i \in DOMAIN t.tiers |-> t.tiers[i].size]
      OBVIOUS
    <3>4. \A i \in crossed : f[i] = t.tiers[i].size /\ f[i] \in Int
      BY <1>3, <3>3
    <3> HIDE DEF crossed
    <3>5. PICK x \in crossed : \A y \in crossed : f[y] <= f[x]
      BY <1>7, <3>2, <3>4, HasLargest
    <3>6. QED BY <3>4, <3>5
  <2>2. largest \subseteq Nat
    BY <1>3
  <2>3. PICK k \in largest : \A j \in largest : k <= j
    <3> HIDE DEF largest
    <3>1. QED BY <2>1, <2>2, LeastNatural
  <2>4. Min(largest) = k
    <3>1. largest \subseteq Int /\ \A x \in largest : x >= k
      BY <2>2, <2>3
    <3> HIDE DEF largest
    <3>2. QED BY <3>1, <2>3, MinIs
  <2>5. k \in best
    <3>1. SUFFICES ASSUME NEW j \in over
                   PROVE  \/ t.tiers[j].size < t.tiers[k].size
                          \/ t.tiers[j].size = t.tiers[k].size /\ k <= j
      BY <1>4, <2>3
    <3>2. j \in crossed /\ k \in crossed /\ j \in Nat /\ k \in Nat
          /\ t.tiers[j].size \in Int /\ t.tiers[k].size \in Int /\ t.tiers[j].size <= t.tiers[k].size
      BY <1>3, <1>4, <2>3
    <3>3. CASE t.tiers[j].size = t.tiers[k].size
      <4>1. j \in largest
        BY <2>3, <3>2, <3>3
      <4>2. QED BY <4>1, <2>3, <3>3
    <3>4. CASE t.tiers[j].size # t.tiers[k].size
      BY <3>2, <3>4
    <3>5. QED BY <3>3, <3>4
  <2>6. \A i \in best : i = k
    <3>1. TAKE i \in best
    <3>2. i \in over /\ k \in over /\ i \in Nat /\ k \in Nat
          /\ t.tiers[i].size \in Int /\ t.tiers[k].size \in Int
      BY <1>3, <2>5
    <3>3. \/ t.tiers[k].size < t.tiers[i].size
          \/ t.tiers[k].size = t.tiers[i].size /\ i <= k
      BY <3>2
    <3>4. \/ t.tiers[i].size < t.tiers[k].size
          \/ t.tiers[i].size = t.tiers[k].size /\ k <= i
      BY <2>5, <3>2
    <3>5. QED BY <3>2, <3>3, <3>4
  <2> HIDE DEF best
  <2>7. (CHOOSE i \in best : TRUE) = k
    BY <2>5, <2>6
  <2>8. PICK r : r = t.tiers[k]
    OBVIOUS
  <2>9. AtTier(t, prompt) = Override(t, r)
    BY <1>2, <1>4, <1>7, <2>7, <2>8
  <2>10. raised = r[axis]
    BY <1>5, <2>1, <2>4, <2>8
  <2>11. QED BY <1>1, <2>9, <2>10, OverrideFacts
<1>8. QED BY <1>6, <1>7

MeteringSpec == MeteringInit /\ [][MeteringNext]_meteringVars

LEMMA NormalizeFacts ==
    ASSUME NEW shape, NEW u, IsUsage(u), NEW n, n = Normalize(shape, u)
    PROVE  n.input \in Int /\ n.output \in Int /\ n.cached \in Int /\ n.created \in Int
<1>1. \A f : NumAt(u, f) \in Nat
  BY DEF NumAt, Stated, IsUsage
<1>2. \A a \in Int : Max({0, a}) \in Int
  <2>1. TAKE a \in Int
  <2>2. CASE a >= 0
    <3>1. {0, a} \subseteq Int /\ a \in {0, a} /\ \A x \in {0, a} : x <= a
      BY <2>2
    <3>2. Max({0, a}) = a
      BY <3>1, MaxIs, Zenon
    <3>3. QED BY <3>2
  <2>3. CASE ~ (a >= 0)
    <3>1. {0, a} \subseteq Int /\ 0 \in {0, a} /\ \A x \in {0, a} : x <= 0
      BY <2>3
    <3>2. Max({0, a}) = 0
      BY <3>1, MaxIs, Zenon
    <3>3. QED BY <3>2
  <2>4. QED BY <2>2, <2>3
<1>3. PICK a \in Int : a = NumAt(u, "input") - NumAt(u, "cached")
  BY <1>1
<1>4. /\ n.input = IF shape = "anthropic" THEN NumAt(u, "input") ELSE Max({0, a})
      /\ n.output = NumAt(u, "output") /\ n.cached = NumAt(u, "cached")
      /\ n.created = IF shape = "anthropic" THEN NumAt(u, "created") ELSE 0
  BY <1>3 DEF Normalize
<1>5. QED BY <1>1, <1>2, <1>4

LEMMA MinIsIn ==
    ASSUME NEW S, S \subseteq Nat, S # {}
    PROVE  Min(S) \in S
<1>1. PICK k \in S : \A j \in S : k <= j
  BY LeastNatural
<1>2. S \subseteq Int /\ \A x \in S : x >= k
  BY <1>1
<1>3. Min(S) = k
  BY <1>1, <1>2, MinIs
<1>4. QED BY <1>3

LEMMA PublishedIsARate ==
    ASSUME NEW t \in PriceTables, NEW prompt \in Int, NEW minute \in Instants, NEW axis \in RateAxes
    PROVE  /\ Published(t, axis, prompt, minute) = InForce(t, prompt, minute)[axis]
           /\ Published(t, axis, prompt, minute) \in Int
<1> DEFINE peak == {i \in DOMAIN t.schedules : minute \in UNION {Covers(w) : w \in t.schedules[i].when}}
           crossed == {i \in DOMAIN t.tiers : t.tiers[i].size < prompt}
           largest == {i \in crossed : \A j \in crossed : t.tiers[j].size <= t.tiers[i].size}
           raised == IF peak # {} THEN t.schedules[Min(peak)][axis]
                     ELSE IF largest # {} THEN t.tiers[Min(largest)][axis] ELSE 0
<1>1. Published(t, axis, prompt, minute) = IF raised = 0 THEN t[axis] ELSE raised
  BY DEF Published
<1>2. t.schedules \in Seq(CostSchedules) /\ t.tiers \in Seq(CostTiers) /\ t[axis] \in Int
  BY TableFacts DEF RateAxes
<1>3. /\ \A i \in DOMAIN t.schedules : t.schedules[i][axis] \in Int
      /\ \A i \in DOMAIN t.tiers : t.tiers[i][axis] \in Int
  <2>1. \A i \in DOMAIN t.schedules : t.schedules[i] \in CostSchedules
    BY <1>2
  <2>2. \A i \in DOMAIN t.tiers : t.tiers[i] \in CostTiers
    BY <1>2
  <2>3. QED BY <2>1, <2>2 DEF CostSchedules, CostTiers, RateAxes
<1>4. peak # {} => Min(peak) \in DOMAIN t.schedules
  <2>1. peak \subseteq Nat /\ peak \subseteq DOMAIN t.schedules
    BY <1>2
  <2> HIDE DEF peak
  <2>2. QED BY <2>1, MinIsIn
<1>5. largest # {} => Min(largest) \in DOMAIN t.tiers
  <2>1. largest \subseteq Nat /\ largest \subseteq DOMAIN t.tiers
    BY <1>2
  <2> HIDE DEF largest
  <2>2. QED BY <2>1, MinIsIn
<1> HIDE DEF peak, largest
<1>6. raised \in Int
  BY <1>3, <1>4, <1>5
<1>7. Published(t, axis, prompt, minute) \in Int
  BY <1>1, <1>2, <1>6
<1>8. QED BY <1>7, OnSchedule, OnTier DEF InForce

LEMMA CostIsPublished ==
    ASSUME NEW t \in PriceTables, NEW minute \in Instants, NEW n,
           n.input \in Int, n.output \in Int, n.cached \in Int, n.created \in Int,
           NEW prompt, prompt = n.input + n.cached + n.created,
           NEW i, i = Published(t, "input", prompt, minute),
           NEW o, o = Published(t, "output", prompt, minute),
           NEW r, r = Published(t, "read", prompt, minute),
           NEW w, w = Published(t, "write", prompt, minute)
    PROVE  Cost(t, n, minute) = n.input * i + n.output * o
                                + n.cached * (IF r <= 0 THEN i ELSE r) + n.created * (IF w <= 0 THEN i ELSE w)
<1>1. prompt \in Int
  OBVIOUS
<1>2. /\ i = InForce(t, prompt, minute).input /\ i \in Int
      /\ o = InForce(t, prompt, minute).output /\ o \in Int
      /\ r = InForce(t, prompt, minute).read /\ r \in Int
      /\ w = InForce(t, prompt, minute).write /\ w \in Int
  BY <1>1, PublishedIsARate DEF RateAxes
<1>3. Cost(t, n, minute) = n.input * i + n.created * (IF w <= 0 THEN i ELSE w)
                           + n.cached * (IF r <= 0 THEN i ELSE r) + n.output * o
  BY <1>2, Zenon DEF Cost
<1>4. PICK a, b, c, d \in Int :
         /\ a = n.input * i /\ b = n.output * o
         /\ c = n.cached * (IF r <= 0 THEN i ELSE r) /\ d = n.created * (IF w <= 0 THEN i ELSE w)
  BY <1>2
<1>5. a + d + c + b = a + b + c + d
  OBVIOUS
<1>6. QED BY <1>3, <1>4, <1>5, Zenon

LEMMA MeteringInvBills ==
    MeteringInv(metered, position, scanner) => BilledAsReported
<1> SUFFICES ASSUME MeteringInv(metered, position, scanner), metered # NoCall
             PROVE  KeepsWhatIsReported /\ BillsAsPublished
  BY DEF BilledAsReported
<1> DEFINE shape == Registry[metered.wire].shape
           n == Normalize(shape, scanner.usage)
<1>1. /\ Kept(shape, metered.lines, position.line - 1, scanner.usage)
      /\ metered.table \in PriceTables /\ metered.minute \in Instants /\ IsUsage(scanner.usage)
  BY DEF MeteringInv, MeterInv, CallOK, ScannerOK
<1>2. KeepsWhatIsReported
  BY <1>1 DEF Kept, Long, KeepsWhatIsReported
<1>3. n.input \in Int /\ n.output \in Int /\ n.cached \in Int /\ n.created \in Int
  BY <1>1, NormalizeFacts
<1> HIDE DEF n
<1> DEFINE prompt == n.input + n.cached + n.created
           rate(axis) == Published(metered.table, axis, prompt, metered.minute)
<1>4. Cost(metered.table, n, metered.minute)
        = n.input * rate("input") + n.output * rate("output")
          + n.cached * (IF rate("read") <= 0 THEN rate("input") ELSE rate("read"))
          + n.created * (IF rate("write") <= 0 THEN rate("input") ELSE rate("write"))
  BY <1>1, <1>3, CostIsPublished
<1>5. BillsAsPublished
  BY <1>4, Zenon DEF BillsAsPublished, Bill, n
<1>6. QED BY <1>2, <1>5

(* However the relay cuts a streamed answer and wherever it breaks off, the   *)
(* usage the meter keeps is what the complete lines report, less those over   *)
(* the cap and the ones right after them; and it is billed at the published   *)
(* rates, by the size of the whole prompt or by the minute the call began,    *)
(* what was written to a cache and read from it at the cache's rates or,      *)
(* where none is published, at the input rate (wire/scanner.go, catalog.go    *)
(* atTier and atSchedule, pricing.go tokenCost).                              *)
THEOREM BilledForWhatWasReported == MeteringSpec => []BilledAsReported
<1>1. MeteringInit => MeteringInv(metered, position, scanner)
  BY MeteringStarts
<1>2. MeteringInv(metered, position, scanner) /\ [MeteringNext]_meteringVars
        => MeteringInv(metered, position, scanner)'
  BY MeteringKeeps
<1>3. QED BY <1>1, <1>2, MeteringInvBills, PTL DEF MeteringSpec

-----------------------------------------------------------------------------
(* Statistics.  The panels agree on every log there can be, so the invariant
   is only that it is one: the rows are calls, finitely many.  Each panel is
   brought to a common form, the number of its calls in a set or the sum of
   their amounts; then a partition of the calls by a key loses none of them
   and counts none twice (SumOfParts, CountOfParts). *)

LEMMA SumFunctionIs == ASSUME NEW f PROVE SumFunction(f) = SumOver(f, DOMAIN f)
BY DEF SumFunction, SumFunctionOnSet, SumOver

(* What the panels add up, as functions on the log and sets of its calls. *)
Costs == [c \in DOMAIN log |-> CostOf(log[c])]
TokenCounts == [c \in DOMAIN log |-> Tokens(log[c])]
Inputs == [c \in DOMAIN log |-> Input(log[c])]
Verdicts == {c \in DOMAIN log : HasVerdict(log[c])}
RatedCalls == {c \in DOMAIN log : Rated(log[c])}
RefusedCalls == {c \in DOMAIN log : Refused(log[c])}
RatedFailures == {c \in DOMAIN log : RatedFailure(log[c])}
ProviderFailures == {c \in DOMAIN log : ProviderFailed(log[c])}
Unserved == {c \in DOMAIN log : NotServed(log[c])}

LEMMA SubsetsAreFinite ==
    ASSUME IsLog(log), NEW R, R \subseteq DOMAIN log
    PROVE  IsFiniteSet(R)
BY FS_Subset DEF IsLog

LEMMA SumsAre ==
    ASSUME IsLog(log), NEW R, R \subseteq DOMAIN log
    PROVE  /\ Sum(R, CostOf) = SumOver(Costs, R)
           /\ Sum(R, Tokens) = SumOver(TokenCounts, R)
           /\ Sum(R, Input) = SumOver(Inputs, R)
<1>1. IsFiniteSet(R)
  BY SubsetsAreFinite
<1>2. Sum(R, CostOf) = SumOver(Costs, R)
  <2> DEFINE f == [c \in R |-> CostOf(log[c])]
  <2>1. \A c \in R : f[c] = Costs[c]
    BY DEF Costs
  <2>2. SumOver(f, R) = SumOver(Costs, R)
    <3> HIDE DEF f
    <3>1. QED BY <1>1, <2>1, SumOverSame
  <2>3. QED BY <2>2, SumFunctionIs DEF Sum
<1>3. Sum(R, Tokens) = SumOver(TokenCounts, R)
  <2> DEFINE f == [c \in R |-> Tokens(log[c])]
  <2>1. \A c \in R : f[c] = TokenCounts[c]
    BY DEF TokenCounts
  <2>2. SumOver(f, R) = SumOver(TokenCounts, R)
    <3> HIDE DEF f
    <3>1. QED BY <1>1, <2>1, SumOverSame
  <2>3. QED BY <2>2, SumFunctionIs DEF Sum
<1>4. Sum(R, Input) = SumOver(Inputs, R)
  <2> DEFINE f == [c \in R |-> Input(log[c])]
  <2>1. \A c \in R : f[c] = Inputs[c]
    BY DEF Inputs
  <2>2. SumOver(f, R) = SumOver(Inputs, R)
    <3> HIDE DEF f
    <3>1. QED BY <1>1, <2>1, SumOverSame
  <2>3. QED BY <2>2, SumFunctionIs DEF Sum
<1>5. QED BY <1>2, <1>3, <1>4

LEMMA AmountsAreNat ==
    ASSUME IsLog(log), NEW c \in DOMAIN log
    PROVE  Costs[c] \in Nat /\ TokenCounts[c] \in Nat /\ Inputs[c] \in Nat
<1>1. log[c].cost \in Nat /\ log[c].input \in Nat /\ log[c].cached \in Nat /\ log[c].output \in Nat
  BY DEF IsLog, IsCall
<1>2. QED BY <1>1 DEF Costs, TokenCounts, Inputs, CostOf, Tokens, Input

LEMMA CountsAre ==
    ASSUME NEW R, R \subseteq DOMAIN log
    PROVE  /\ CountOf(R, HasVerdict) = Cardinality(R \cap Verdicts)
           /\ CountOf(R, Rated) = Cardinality(R \cap RatedCalls)
           /\ CountOf(R, Refused) = Cardinality(R \cap RefusedCalls)
           /\ CountOf(R, RatedFailure) = Cardinality(R \cap RatedFailures)
           /\ CountOf(R, ProviderFailed) = Cardinality(R \cap ProviderFailures)
           /\ CountOf(R, NotServed) = Cardinality(R \cap Unserved)
<1>1. R \cap Verdicts = {c \in R : HasVerdict(log[c])}
  BY DEF Verdicts
<1>2. R \cap RatedCalls = {c \in R : Rated(log[c])}
  BY DEF RatedCalls
<1>3. R \cap RefusedCalls = {c \in R : Refused(log[c])}
  BY DEF RefusedCalls
<1>4. R \cap RatedFailures = {c \in R : RatedFailure(log[c])}
  BY DEF RatedFailures
<1>5. R \cap ProviderFailures = {c \in R : ProviderFailed(log[c])}
  BY DEF ProviderFailures
<1>6. R \cap Unserved = {c \in R : NotServed(log[c])}
  BY DEF Unserved
<1>7. QED BY <1>1, <1>2, <1>3, <1>4, <1>5, <1>6, Zenon DEF CountOf

(* A panel of rows, each of them a count or a sum over the calls of its key. *)
RowsCount(rows, field, R, key, Q) ==
    \A k \in DOMAIN rows : rows[k][field] = Cardinality(PartOf(R, key, k) \cap Q)
RowsSum(rows, field, R, key, w) ==
    \A k \in DOMAIN rows : rows[k][field] = SumOver(w, PartOf(R, key, k))
LEMMA TotalCount ==
    ASSUME NEW R, IsFiniteSet(R), NEW Q, NEW rows, IsFiniteSet(DOMAIN rows),
           NEW key, Keyed(R, key, DOMAIN rows), NEW field, RowsCount(rows, field, R, key, Q)
    PROVE  Total(rows, field) = Cardinality(R \cap Q)
<1> DEFINE v == [k \in DOMAIN rows |-> rows[k][field]]
<1>1. CountsOfParts(v, DOMAIN rows, R, key, Q)
  BY DEF RowsCount, CountsOfParts
<1>2. DOMAIN v = DOMAIN rows
  OBVIOUS
<1>3. Total(rows, field) = SumOver(v, DOMAIN rows)
  BY <1>2, SumFunctionIs DEF Total
<1> HIDE DEF v
<1>4. SumOver(v, DOMAIN rows) = Cardinality(R \cap Q)
  BY <1>1, CountOfParts
<1>5. QED BY <1>3, <1>4

LEMMA TotalSum ==
    ASSUME NEW R, IsFiniteSet(R), NEW w, Weighed(R, w), NEW rows, IsFiniteSet(DOMAIN rows),
           NEW key, Keyed(R, key, DOMAIN rows), NEW field, RowsSum(rows, field, R, key, w)
    PROVE  Total(rows, field) = SumOver(w, R)
<1> DEFINE v == [k \in DOMAIN rows |-> rows[k][field]]
<1>1. SumsOfParts(v, DOMAIN rows, R, key, w)
  BY DEF RowsSum, SumsOfParts
<1>2. DOMAIN v = DOMAIN rows
  OBVIOUS
<1>3. Total(rows, field) = SumOver(v, DOMAIN rows)
  BY <1>2, SumFunctionIs DEF Total
<1> HIDE DEF v
<1>4. SumOver(v, DOMAIN rows) = SumOver(w, R)
  BY <1>1, SumOfParts
<1>5. QED BY <1>3, <1>4

(* A series of such panels, one a bucket. *)
Buckets(series, K) == \A b \in DOMAIN series : DOMAIN series[b] = K
LEMMA SeriesCount ==
    ASSUME NEW R, IsFiniteSet(R), NEW Q, NEW series, IsFiniteSet(DOMAIN series),
           NEW bucket, Keyed(R, bucket, DOMAIN series),
           NEW K, IsFiniteSet(K), NEW key, Keyed(R, key, K), Buckets(series, K), NEW field,
           \A b \in DOMAIN series : RowsCount(series[b], field, PartOf(R, bucket, b), key, Q)
    PROVE  TotalOfSeries(series, field) = Cardinality(R \cap Q)
<1> DEFINE v == [b \in DOMAIN series |-> Total(series[b], field)]
<1>1. CountsOfParts(v, DOMAIN series, R, bucket, Q)
  <2>1. SUFFICES ASSUME NEW b \in DOMAIN series
                 PROVE  Total(series[b], field) = Cardinality(PartOf(R, bucket, b) \cap Q)
    BY DEF CountsOfParts
  <2>2. PICK part : part = PartOf(R, bucket, b)
    OBVIOUS
  <2>3. PICK rows : rows = series[b]
    OBVIOUS
  <2>4. DOMAIN rows = K
    BY <2>3 DEF Buckets
  <2>5. IsFiniteSet(part) /\ part \subseteq R
    BY <2>2, FS_Subset DEF PartOf
  <2>6. Keyed(part, key, DOMAIN rows)
    BY <2>4, <2>5 DEF Keyed
  <2>7. RowsCount(rows, field, part, key, Q)
    BY <2>2, <2>3
  <2>8. Total(rows, field) = Cardinality(part \cap Q)
    BY <2>4, <2>5, <2>6, <2>7, TotalCount
  <2>9. QED BY <2>2, <2>3, <2>8
<1>2. DOMAIN v = DOMAIN series
  OBVIOUS
<1>3. TotalOfSeries(series, field) = SumOver(v, DOMAIN series)
  BY <1>2, SumFunctionIs DEF TotalOfSeries
<1> HIDE DEF v
<1>4. SumOver(v, DOMAIN series) = Cardinality(R \cap Q)
  BY <1>1, CountOfParts
<1>5. QED BY <1>3, <1>4

LEMMA SeriesSum ==
    ASSUME NEW R, IsFiniteSet(R), NEW w, Weighed(R, w), NEW series, IsFiniteSet(DOMAIN series),
           NEW bucket, Keyed(R, bucket, DOMAIN series),
           NEW K, IsFiniteSet(K), NEW key, Keyed(R, key, K), Buckets(series, K), NEW field,
           \A b \in DOMAIN series : RowsSum(series[b], field, PartOf(R, bucket, b), key, w)
    PROVE  TotalOfSeries(series, field) = SumOver(w, R)
<1> DEFINE v == [b \in DOMAIN series |-> Total(series[b], field)]
<1>1. SumsOfParts(v, DOMAIN series, R, bucket, w)
  <2>1. SUFFICES ASSUME NEW b \in DOMAIN series
                 PROVE  Total(series[b], field) = SumOver(w, PartOf(R, bucket, b))
    BY DEF SumsOfParts
  <2>2. PICK part : part = PartOf(R, bucket, b)
    OBVIOUS
  <2>3. PICK rows : rows = series[b]
    OBVIOUS
  <2>4. DOMAIN rows = K
    BY <2>3 DEF Buckets
  <2>5. IsFiniteSet(part) /\ part \subseteq R
    BY <2>2, FS_Subset DEF PartOf
  <2>6. Keyed(part, key, DOMAIN rows) /\ Weighed(part, w)
    BY <2>4, <2>5 DEF Keyed, Weighed
  <2>7. RowsSum(rows, field, part, key, w)
    BY <2>2, <2>3
  <2>8. Total(rows, field) = SumOver(w, part)
    BY <2>4, <2>5, <2>6, <2>7, TotalSum
  <2>9. QED BY <2>2, <2>3, <2>8
<1>2. DOMAIN v = DOMAIN series
  OBVIOUS
<1>3. TotalOfSeries(series, field) = SumOver(v, DOMAIN series)
  BY <1>2, SumFunctionIs DEF TotalOfSeries
<1> HIDE DEF v
<1>4. SumOver(v, DOMAIN series) = SumOver(w, R)
  BY <1>1, SumOfParts
<1>5. QED BY <1>3, <1>4

TalliesOfParts(rows, R, key) == \A k \in DOMAIN rows : rows[k] = Tally(PartOf(R, key, k))
UsagesOfParts(rows, R, key) == \A k \in DOMAIN rows : rows[k] = Usage(PartOf(R, key, k))

LEMMA TallyIs ==
    ASSUME NEW R, R \subseteq DOMAIN log
    PROVE  /\ Tally(R).requests = Cardinality(R \cap Verdicts)
           /\ Tally(R).rated = Cardinality(R \cap RatedCalls)
           /\ Tally(R).denied = Cardinality(R \cap RefusedCalls)
           /\ Tally(R).errors = Cardinality(R \cap RatedFailures)
           /\ DOMAIN Tally(R) = {"requests", "rated", "denied", "errors"}
BY CountsAre DEF Tally

LEMMA UsageIs ==
    ASSUME IsLog(log), NEW R, R \subseteq DOMAIN log
    PROVE  /\ Usage(R).requests = Cardinality(R \cap Verdicts)
           /\ Usage(R).rated = Cardinality(R \cap RatedCalls)
           /\ Usage(R).denied = Cardinality(R \cap RefusedCalls)
           /\ Usage(R).errors = Cardinality(R \cap RatedFailures)
           /\ Usage(R).cost = SumOver(Costs, R)
           /\ Usage(R).tokens = SumOver(TokenCounts, R)
           /\ DOMAIN Usage(R) = {"requests", "rated", "denied", "errors", "cost", "tokens"}
BY CountsAre, SumsAre DEF Usage

LEMMA PartsAreCalls ==
    ASSUME NEW R, R \subseteq DOMAIN log, NEW key, NEW k
    PROVE  PartOf(R, key, k) \subseteq R /\ PartOf(R, key, k) \subseteq DOMAIN log
BY DEF PartOf

LEMMA LogIsWeighed ==
    ASSUME IsLog(log), NEW R, R \subseteq DOMAIN log
    PROVE  Weighed(R, Costs) /\ Weighed(R, TokenCounts) /\ Weighed(R, Inputs)
BY AmountsAreNat DEF Weighed

LEMMA RowsOfTallies ==
    ASSUME NEW R, R \subseteq DOMAIN log, NEW rows, NEW key, TalliesOfParts(rows, R, key)
    PROVE  /\ RowsCount(rows, "requests", R, key, Verdicts)
           /\ RowsCount(rows, "rated", R, key, RatedCalls)
           /\ RowsCount(rows, "denied", R, key, RefusedCalls)
           /\ RowsCount(rows, "errors", R, key, RatedFailures)
<1>1. \A k \in DOMAIN rows :
         /\ rows[k].requests = Cardinality(PartOf(R, key, k) \cap Verdicts)
         /\ rows[k].rated = Cardinality(PartOf(R, key, k) \cap RatedCalls)
         /\ rows[k].denied = Cardinality(PartOf(R, key, k) \cap RefusedCalls)
         /\ rows[k].errors = Cardinality(PartOf(R, key, k) \cap RatedFailures)
  <2>1. TAKE k \in DOMAIN rows
  <2>2. rows[k] = Tally(PartOf(R, key, k)) /\ PartOf(R, key, k) \subseteq DOMAIN log
    BY PartsAreCalls DEF TalliesOfParts
  <2>3. QED BY <2>2, TallyIs
<1>2. QED BY <1>1 DEF RowsCount

LEMMA RowsOfUsages ==
    ASSUME IsLog(log), NEW R, R \subseteq DOMAIN log, NEW rows, NEW key, UsagesOfParts(rows, R, key)
    PROVE  /\ RowsCount(rows, "requests", R, key, Verdicts)
           /\ RowsCount(rows, "rated", R, key, RatedCalls)
           /\ RowsCount(rows, "denied", R, key, RefusedCalls)
           /\ RowsCount(rows, "errors", R, key, RatedFailures)
           /\ RowsSum(rows, "cost", R, key, Costs)
           /\ RowsSum(rows, "tokens", R, key, TokenCounts)
<1>1. \A k \in DOMAIN rows :
         /\ rows[k].requests = Cardinality(PartOf(R, key, k) \cap Verdicts)
         /\ rows[k].rated = Cardinality(PartOf(R, key, k) \cap RatedCalls)
         /\ rows[k].denied = Cardinality(PartOf(R, key, k) \cap RefusedCalls)
         /\ rows[k].errors = Cardinality(PartOf(R, key, k) \cap RatedFailures)
         /\ rows[k].cost = SumOver(Costs, PartOf(R, key, k))
         /\ rows[k].tokens = SumOver(TokenCounts, PartOf(R, key, k))
  <2>1. TAKE k \in DOMAIN rows
  <2>2. rows[k] = Usage(PartOf(R, key, k)) /\ PartOf(R, key, k) \subseteq DOMAIN log
    BY PartsAreCalls DEF UsagesOfParts
  <2>3. QED BY <2>2, UsageIs
<1>2. QED BY <1>1 DEF RowsCount, RowsSum

LEMMA TalliesAddUp ==
    ASSUME IsLog(log), NEW R, R \subseteq DOMAIN log, NEW rows, IsFiniteSet(DOMAIN rows),
           NEW key, Keyed(R, key, DOMAIN rows), TalliesOfParts(rows, R, key)
    PROVE  AddUp(rows, Tally(R))
<1>1. IsFiniteSet(R)
  BY SubsetsAreFinite
<1>2. /\ RowsCount(rows, "requests", R, key, Verdicts)
      /\ RowsCount(rows, "rated", R, key, RatedCalls)
      /\ RowsCount(rows, "denied", R, key, RefusedCalls)
      /\ RowsCount(rows, "errors", R, key, RatedFailures)
  BY RowsOfTallies
<1>3. /\ Total(rows, "requests") = Cardinality(R \cap Verdicts)
      /\ Total(rows, "rated") = Cardinality(R \cap RatedCalls)
      /\ Total(rows, "denied") = Cardinality(R \cap RefusedCalls)
      /\ Total(rows, "errors") = Cardinality(R \cap RatedFailures)
  BY <1>1, <1>2, TotalCount
<1>4. QED BY <1>3, TallyIs DEF AddUp

LEMMA UsagesAddUp ==
    ASSUME IsLog(log), NEW R, R \subseteq DOMAIN log, NEW rows, IsFiniteSet(DOMAIN rows),
           NEW key, Keyed(R, key, DOMAIN rows), UsagesOfParts(rows, R, key)
    PROVE  AddUp(rows, Usage(R))
<1>1. IsFiniteSet(R) /\ Weighed(R, Costs) /\ Weighed(R, TokenCounts)
  BY SubsetsAreFinite, LogIsWeighed
<1>2. /\ RowsCount(rows, "requests", R, key, Verdicts)
      /\ RowsCount(rows, "rated", R, key, RatedCalls)
      /\ RowsCount(rows, "denied", R, key, RefusedCalls)
      /\ RowsCount(rows, "errors", R, key, RatedFailures)
      /\ RowsSum(rows, "cost", R, key, Costs)
      /\ RowsSum(rows, "tokens", R, key, TokenCounts)
  BY RowsOfUsages
<1>3. /\ Total(rows, "requests") = Cardinality(R \cap Verdicts)
      /\ Total(rows, "rated") = Cardinality(R \cap RatedCalls)
      /\ Total(rows, "denied") = Cardinality(R \cap RefusedCalls)
      /\ Total(rows, "errors") = Cardinality(R \cap RatedFailures)
  BY <1>1, <1>2, TotalCount
<1>4. Total(rows, "cost") = SumOver(Costs, R) /\ Total(rows, "tokens") = SumOver(TokenCounts, R)
  BY <1>1, <1>2, TotalSum
<1>5. QED BY <1>3, <1>4, UsageIs DEF AddUp

(* The panels that group by a column. *)
ByColumn(R, d) == [c \in R |-> Key(c, d)]
LEMMA Columned ==
    ASSUME IsLog(log), NEW R, R \subseteq DOMAIN log, NEW d
    PROVE  /\ IsFiniteSet(KeysOf(R, d)) /\ Keyed(R, ByColumn(R, d), KeysOf(R, d))
           /\ \A k : {c \in R : Key(c, d) = k} = PartOf(R, ByColumn(R, d), k)
<1> DEFINE f == ByColumn(R, d)
<1>1. IsFiniteSet(R) /\ KeysOf(R, d) = {f[c] : c \in R}
  BY SubsetsAreFinite DEF KeysOf, ByColumn
<1>2. IsFiniteSet({f[c] : c \in R})
  <2> HIDE DEF f
  <2>1. QED BY <1>1, KeysAreFinite
<1>3. Keyed(R, f, KeysOf(R, d))
  BY DEF Keyed, KeysOf, ByColumn
<1>4. \A k : {c \in R : Key(c, d) = k} = PartOf(R, f, k)
  BY DEF PartOf, ByColumn
<1>5. QED BY <1>1, <1>2, <1>3, <1>4

LEMMA BreakdownAddsUp ==
    ASSUME IsLog(log), NEW R, R \subseteq DOMAIN log, NEW d
    PROVE  AddUp(Breakdown(R, d), Usage(R))
<1>1. PICK rows : rows = Breakdown(R, d)
  OBVIOUS
<1>2. DOMAIN rows = KeysOf(R, d) /\ \A k \in DOMAIN rows : rows[k] = Usage({c \in R : Key(c, d) = k})
  BY <1>1 DEF Breakdown
<1>3. UsagesOfParts(rows, R, ByColumn(R, d))
  BY <1>2, Columned DEF UsagesOfParts
<1>4. AddUp(rows, Usage(R))
  BY <1>2, <1>3, Columned, UsagesAddUp
<1>5. QED BY <1>1, <1>4

LEMMA ModelStatsAddUp ==
    ASSUME IsLog(log), NEW R, R \subseteq DOMAIN log, NEW d
    PROVE  AddUp(ModelStats(R, d), Tally(R))
<1>1. PICK rows : rows = ModelStats(R, d)
  OBVIOUS
<1>2. DOMAIN rows = KeysOf(R, d) /\ \A k \in DOMAIN rows : rows[k] = Tally({c \in R : Key(c, d) = k})
  BY <1>1 DEF ModelStats
<1>3. TalliesOfParts(rows, R, ByColumn(R, d))
  BY <1>2, Columned DEF TalliesOfParts
<1>4. AddUp(rows, Tally(R))
  BY <1>2, <1>3, Columned, TalliesAddUp
<1>5. QED BY <1>1, <1>4

(* What the Go side makes of a row is what the predicates of the SQL say. *)
LEMMA OutcomeIs ==
    ASSUME NEW r, r.status \in Nat \cup {StatusPending}
    PROVE  /\ r.status = StatusPending => OutcomeOf(r) = "in_flight"
           /\ r.status # StatusPending /\ r.err = "" /\ r.status = 0 => OutcomeOf(r) = "transport_error"
           /\ r.status # StatusPending /\ r.err = "" /\ r.status >= 400 => OutcomeOf(r) = "vendor_error"
           /\ r.status # StatusPending /\ r.err = "" /\ r.status # 0 /\ ~(r.status >= 400)
                => OutcomeOf(r) = "ok"
           /\ r.status # StatusPending /\ r.err = "client_gone" => OutcomeOf(r) = "client_gone"
           /\ r.status # StatusPending /\ r.err = "budget_exceeded" => OutcomeOf(r) = "denied_budget"
           /\ r.status # StatusPending /\ r.err = "rate_limited" => OutcomeOf(r) = "denied_rate"
           /\ r.status # StatusPending /\ r.err \notin {"", "client_gone", "budget_exceeded", "rate_limited"}
                => OutcomeOf(r) \in {"transport_error", "truncated", "denied_scope", "no_route", "unknown"}
<1>1. ASSUME r.status = StatusPending PROVE OutcomeOf(r) = "in_flight"
  BY <1>1 DEF OutcomeOf
<1>2. ASSUME r.status # StatusPending, r.err = "" 
      PROVE  OutcomeOf(r) = CASE r.status = 0 -> "transport_error"
                              [] r.status >= 400 -> "vendor_error"
                              [] OTHER -> "ok"
  BY <1>2 DEF OutcomeOf
<1>3. ASSUME r.status # StatusPending, r.err # "" 
      PROVE  OutcomeOf(r) = CASE r.err = "transport_error" -> "transport_error"
                              [] r.err = "stream_error" -> "truncated"
                              [] r.err = "client_gone" -> "client_gone"
                              [] r.err = "budget_exceeded" -> "denied_budget"
                              [] r.err = "rate_limited" -> "denied_rate"
                              [] r.err = "model_not_allowed" -> "denied_scope"
                              [] r.err = "no_upstream" -> "no_route"
                              [] OTHER -> "unknown"
  BY <1>3 DEF OutcomeOf
<1>4. ASSUME r.status # StatusPending, r.err \notin {"", "client_gone", "budget_exceeded", "rate_limited"}
      PROVE  OutcomeOf(r) \in {"transport_error", "truncated", "denied_scope", "no_route", "unknown"}
  BY <1>3, <1>4
<1>5. ASSUME r.status # StatusPending, r.err = "" 
      PROVE  /\ r.status = 0 => OutcomeOf(r) = "transport_error"
             /\ r.status >= 400 => OutcomeOf(r) = "vendor_error"
             /\ r.status # 0 /\ ~(r.status >= 400) => OutcomeOf(r) = "ok"
  <2>1. PICK s \in Nat : s = r.status
    BY <1>5
  <2>2. OutcomeOf(r) = CASE s = 0 -> "transport_error" [] s >= 400 -> "vendor_error" [] OTHER -> "ok"
    BY <1>2, <1>5, <2>1
  <2>3. QED BY <2>1, <2>2
<1>6. ASSUME r.status # StatusPending, r.err # "" 
      PROVE  /\ r.err = "client_gone" => OutcomeOf(r) = "client_gone"
             /\ r.err = "budget_exceeded" => OutcomeOf(r) = "denied_budget"
             /\ r.err = "rate_limited" => OutcomeOf(r) = "denied_rate"
  BY <1>3, <1>6
<1>7. r.status = StatusPending => OutcomeOf(r) = "in_flight"
  BY <1>1
<1>8. r.status # StatusPending /\ r.err = "" /\ r.status = 0 => OutcomeOf(r) = "transport_error"
  BY <1>5
<1>9. r.status # StatusPending /\ r.err = "" /\ r.status >= 400 => OutcomeOf(r) = "vendor_error"
  BY <1>5
<1>10. r.status # StatusPending /\ r.err = "" /\ r.status # 0 /\ ~(r.status >= 400) => OutcomeOf(r) = "ok"
  BY <1>5
<1>11. r.status # StatusPending /\ r.err = "client_gone" => OutcomeOf(r) = "client_gone"
  BY <1>6
<1>12. r.status # StatusPending /\ r.err = "budget_exceeded" => OutcomeOf(r) = "denied_budget"
  BY <1>6
<1>13. r.status # StatusPending /\ r.err = "rate_limited" => OutcomeOf(r) = "denied_rate"
  BY <1>6
<1>14. r.status # StatusPending /\ r.err \notin {"", "client_gone", "budget_exceeded", "rate_limited"}
         => OutcomeOf(r) \in {"transport_error", "truncated", "denied_scope", "no_route", "unknown"}
  BY <1>4
<1>15. QED BY <1>7, <1>8, <1>9, <1>10, <1>11, <1>12, <1>13, <1>14, Zenon

LEMMA GradesAgree ==
    ASSUME NEW r, r.status \in Nat \cup {StatusPending}
    PROVE  /\ HasVerdict(r) /\ IsRated(r) <=> Rated(r)
           /\ HasVerdict(r) /\ ~(HasVerdict(r) /\ IsRated(r)) /\ IsPolicyDenial(r) <=> Refused(r)
           /\ IsErrorStatus(r) <=> NotServed(r)
           /\ Rated(r) /\ IsErrorStatus(r) <=> RatedFailure(r)
<1>1. CASE r.status = StatusPending
  BY <1>1, OutcomeIs
     DEF HasVerdict, IsRated, Rated, IsPolicyDenial, Refused, IsErrorStatus, NotServed, RatedFailure
<1>2. CASE r.status # StatusPending /\ r.err = ""
  BY <1>2, OutcomeIs
     DEF HasVerdict, IsRated, Rated, IsPolicyDenial, Refused, IsErrorStatus, NotServed, RatedFailure,
         NotCallerAbort, PolicyDenied, Failed, StatusPending
<1>3. CASE r.status # StatusPending /\ r.err # ""
  <2>1. CASE r.err \in {"client_gone", "budget_exceeded", "rate_limited"}
    BY <1>3, <2>1, OutcomeIs
     DEF HasVerdict, IsRated, Rated, IsPolicyDenial, Refused, IsErrorStatus, NotServed, RatedFailure,
         NotCallerAbort, PolicyDenied, Failed
  <2>2. CASE r.err \notin {"client_gone", "budget_exceeded", "rate_limited"}
    <3>1. OutcomeOf(r) \in {"transport_error", "truncated", "denied_scope", "no_route", "unknown"}
      BY <1>3, <2>2, OutcomeIs
    <3>2. QED BY <1>3, <2>2, <3>1
     DEF HasVerdict, IsRated, Rated, IsPolicyDenial, Refused, IsErrorStatus, NotServed, RatedFailure,
         NotCallerAbort, PolicyDenied, Failed
  <2>3. QED BY <2>1, <2>2
<1>4. QED BY <1>1, <1>2, <1>3

LEMMA StatusesAre ==
    ASSUME IsLog(log), NEW c \in DOMAIN log
    PROVE  log[c].status \in Nat \cup {StatusPending}
BY DEF IsLog, IsCall

LEMMA OverviewIsTheTally ==
    ASSUME IsLog(log), NEW R, R \subseteq DOMAIN log
    PROVE  \A field \in DOMAIN Tally(R) : OverviewStats(R)[field] = Tally(R)[field]
<1> DEFINE counted == {c \in R : HasVerdict(log[c])}
           rated == {c \in counted : IsRated(log[c])}
<1>1. \A c \in R : log[c].status \in Nat \cup {StatusPending}
  BY StatusesAre
<1>2. counted = R \cap Verdicts
  BY DEF Verdicts
<1>3. rated = R \cap RatedCalls
  BY <1>1, GradesAgree DEF RatedCalls
<1>4. {c \in counted \ rated : IsPolicyDenial(log[c])} = R \cap RefusedCalls
  BY <1>1, GradesAgree DEF RefusedCalls
<1>5. {c \in rated : IsErrorStatus(log[c])} = R \cap RatedFailures
  BY <1>1, GradesAgree DEF RatedFailures
<1>6. /\ OverviewStats(R).requests = Cardinality(counted)
      /\ OverviewStats(R).rated = Cardinality(rated)
      /\ OverviewStats(R).denied = Cardinality({c \in counted \ rated : IsPolicyDenial(log[c])})
      /\ OverviewStats(R).errors = Cardinality({c \in rated : IsErrorStatus(log[c])})
  BY DEF OverviewStats, CountOf
<1>7. QED BY <1>2, <1>3, <1>4, <1>5, <1>6, TallyIs

(* The calls not served are the graded failures and the refusals. *)
LEMMA NotServedAre ==
    ASSUME IsLog(log), NEW R, R \subseteq DOMAIN log
    PROVE  Cardinality(R \cap Unserved) = Tally(R).errors + Tally(R).denied
<1>1. R \cap Unserved = (R \cap RatedFailures) \cup (R \cap RefusedCalls)
  BY DEF Unserved, RatedFailures, RefusedCalls, NotServed, RatedFailure, Rated, Refused,
         PolicyDenied, NotCallerAbort, Failed
<1>2. (R \cap RatedFailures) \cap (R \cap RefusedCalls) = {}
  BY DEF RatedFailures, RefusedCalls, RatedFailure, Rated, Refused
<1>3. IsFiniteSet(R \cap RatedFailures) /\ IsFiniteSet(R \cap RefusedCalls)
  BY SubsetsAreFinite
<1>4. Cardinality((R \cap RatedFailures) \cup (R \cap RefusedCalls))
        = Cardinality(R \cap RatedFailures) + Cardinality(R \cap RefusedCalls)
  BY <1>2, <1>3, CountDisjoint
<1>5. QED BY <1>1, <1>4, TallyIs

(* Each of them is in one class. *)
Class(r) ==
    IF RateLimited(r) THEN "rateLimited" ELSE IF ClientError(r) THEN "clientError"
    ELSE IF ServerError(r) THEN "serverError" ELSE IF TransportError(r) THEN "transport"
    ELSE "gateway"

LEMMA ClassesArePartition ==
    ASSUME NEW r, r.status \in Nat \cup {StatusPending}
    PROVE  /\ RateLimited(r) <=> NotServed(r) /\ Class(r) = "rateLimited"
           /\ ClientError(r) <=> NotServed(r) /\ Class(r) = "clientError"
           /\ ServerError(r) <=> NotServed(r) /\ Class(r) = "serverError"
           /\ TransportError(r) <=> NotServed(r) /\ Class(r) = "transport"
           /\ GatewayError(r) <=> NotServed(r) /\ Class(r) = "gateway"
           /\ ProviderFailed(r) <=> NotServed(r) /\ ~GatewayError(r)
<1>1. CASE r.err = ""
  <2>1. CASE r.status = StatusPending
    BY <2>1 DEF RateLimited, ClientError, ServerError, TransportError, GatewayError, Forwarded,
       NotServed, ProviderFailed, HasVerdict
  <2>2. CASE r.status # StatusPending
    <3>1. PICK s \in Nat : s = r.status
      BY <2>2
    <3>2. HasVerdict(r)
      BY <2>2 DEF HasVerdict
    <3>3. RateLimited(r) <=> s = 429
      BY <1>1, <3>1, <3>2 DEF RateLimited, Forwarded
    <3>4. ServerError(r) <=> s >= 500
      BY <1>1, <3>1, <3>2 DEF ServerError, Forwarded
    <3>5. TransportError(r) <=> s = 0
      BY <1>1, <3>1, <3>2 DEF TransportError
    <3>6. NotServed(r) <=> (s = 0 \/ s >= 400)
      BY <1>1, <3>1, <3>2 DEF NotServed, NotCallerAbort, Failed
    <3>7. ProviderFailed(r) <=> (s = 0 \/ s >= 400)
      BY <1>1, <3>1, <3>2 DEF ProviderFailed, NotCallerAbort
    <3>8. ClientError(r) <=> (s >= 400 /\ s <= 499 /\ s # 429)
      <4>1. ClientError(r) <=> r.status \in 400..499 \ {429}
        BY <1>1, <3>2, Zenon DEF ClientError, Forwarded
      <4>2. s \in 400..499 \ {429} <=> (s >= 400 /\ s <= 499 /\ s # 429)
        OBVIOUS
      <4>3. QED BY <3>1, <4>1, <4>2, Zenon
    <3>9. ~GatewayError(r)
      BY <3>6, <3>7 DEF GatewayError
    <3>10. QED BY <3>3, <3>4, <3>5, <3>6, <3>7, <3>8, <3>9 DEF Class
  <2>3. QED BY <2>1, <2>2
<1>2. CASE r.err # ""
  BY <1>2 DEF Class, RateLimited, ClientError, ServerError, TransportError, GatewayError, Forwarded,
     NotServed, ProviderFailed, HasVerdict, NotCallerAbort, Failed
<1>3. QED BY <1>1, <1>2

LEMMA ClassesAddUp ==
    ASSUME IsLog(log), NEW R, R \subseteq DOMAIN log
    PROVE  /\ SumFunction(ErrorClasses(R)) = Cardinality(R \cap Unserved)
           /\ SumFunction(ErrorClasses(R)) - ErrorClasses(R).gateway = Cardinality(R \cap ProviderFailures)
<1>1. PICK S : S = R \cap Unserved
  OBVIOUS
<1>2. PICK key : key = [c \in R |-> Class(log[c])]
  OBVIOUS
<1>3. PICK classes : classes = ErrorClasses(R)
  OBVIOUS
<1>4. PICK K : K = {"rateLimited", "clientError", "serverError", "transport", "gateway"}
  OBVIOUS
<1>5. DOMAIN classes = K
  BY <1>3, <1>4 DEF ErrorClasses
<1>6. \A c \in R : log[c].status \in Nat \cup {StatusPending}
  BY StatusesAre
<1>7. S \subseteq R /\ IsFiniteSet(S) /\ S \subseteq DOMAIN log
  BY <1>1, SubsetsAreFinite
<1>8. IsFiniteSet(K)
  <2>1. K = {"rateLimited"} \cup {"clientError"} \cup {"serverError"} \cup {"transport"} \cup {"gateway"}
    BY <1>4
  <2>2. QED BY <2>1, FS_Singleton, FS_Union
<1>9. Keyed(S, key, K)
  BY <1>2, <1>4, <1>7 DEF Keyed, Class
<1>10. CountsOfParts(classes, K, S, key, S)
  <2>1. {c \in R : RateLimited(log[c])} = PartOf(S, key, "rateLimited") \cap S
    BY <1>1, <1>2, <1>6, <1>7, ClassesArePartition DEF PartOf, Unserved
  <2>2. {c \in R : ClientError(log[c])} = PartOf(S, key, "clientError") \cap S
    BY <1>1, <1>2, <1>6, <1>7, ClassesArePartition DEF PartOf, Unserved
  <2>3. {c \in R : ServerError(log[c])} = PartOf(S, key, "serverError") \cap S
    BY <1>1, <1>2, <1>6, <1>7, ClassesArePartition DEF PartOf, Unserved
  <2>4. {c \in R : TransportError(log[c])} = PartOf(S, key, "transport") \cap S
    BY <1>1, <1>2, <1>6, <1>7, ClassesArePartition DEF PartOf, Unserved
  <2>5. {c \in R : GatewayError(log[c])} = PartOf(S, key, "gateway") \cap S
    BY <1>1, <1>2, <1>6, <1>7, ClassesArePartition DEF PartOf, Unserved
  <2>6. /\ classes["rateLimited"] = Cardinality({c \in R : RateLimited(log[c])})
        /\ classes["clientError"] = Cardinality({c \in R : ClientError(log[c])})
        /\ classes["serverError"] = Cardinality({c \in R : ServerError(log[c])})
        /\ classes["transport"] = Cardinality({c \in R : TransportError(log[c])})
        /\ classes["gateway"] = Cardinality({c \in R : GatewayError(log[c])})
    BY <1>3 DEF ErrorClasses, CountOf
  <2>7. SUFFICES ASSUME NEW k \in K PROVE classes[k] = Cardinality(PartOf(S, key, k) \cap S)
    BY DEF CountsOfParts
  <2>8. QED BY <1>4, <2>1, <2>2, <2>3, <2>4, <2>5, <2>6
<1>11. SumOver(classes, K) = Cardinality(S)
  <2>1. SumOver(classes, K) = Cardinality(S \cap S)
    BY <1>7, <1>8, <1>9, <1>10, CountOfParts
  <2>2. S \cap S = S
    OBVIOUS
  <2>3. QED BY <2>1, <2>2
<1>12. SumFunction(ErrorClasses(R)) = Cardinality(R \cap Unserved)
  BY <1>1, <1>3, <1>5, <1>11, SumFunctionIs
<1>13. PICK gateway : gateway = {c \in R : GatewayError(log[c])}
  OBVIOUS
<1>14. ErrorClasses(R).gateway = Cardinality(gateway)
  BY <1>13 DEF ErrorClasses, CountOf
<1>15. /\ R \cap Unserved = (R \cap ProviderFailures) \cup gateway
       /\ (R \cap ProviderFailures) \cap gateway = {}
  BY <1>6, <1>13, ClassesArePartition DEF Unserved, ProviderFailures
<1>16. IsFiniteSet(R \cap ProviderFailures) /\ IsFiniteSet(gateway)
  BY <1>13, SubsetsAreFinite
<1>17. Cardinality((R \cap ProviderFailures) \cup gateway)
         = Cardinality(R \cap ProviderFailures) + Cardinality(gateway)
  BY <1>15, <1>16, CountDisjoint
<1>18. Cardinality(R \cap ProviderFailures) \in Nat /\ Cardinality(gateway) \in Nat
  BY <1>16, FS_CardinalityType
<1>19. PICK a \in Nat, b \in Nat : a = Cardinality(R \cap ProviderFailures) /\ b = Cardinality(gateway)
  BY <1>18
<1>20. SumFunction(ErrorClasses(R)) = a + b /\ ErrorClasses(R).gateway = b
  BY <1>12, <1>14, <1>15, <1>17, <1>19
<1>21. SumFunction(ErrorClasses(R)) - ErrorClasses(R).gateway = a
  BY <1>20
<1>22. QED BY <1>12, <1>19, <1>21

LEMMA VendorStatsAddUp ==
    ASSUME IsLog(log), NEW R, R \subseteq DOMAIN log, NEW d
    PROVE  AddUp(VendorStats(R, d),
                 [Tally(R) EXCEPT !.errors = SumFunction(ErrorClasses(R)) - ErrorClasses(R).gateway])
<1>1. PICK rows : rows = VendorStats(R, d)
  OBVIOUS
<1>2. PICK key : key = ByColumn(R, d)
  OBVIOUS
<1>3. DOMAIN rows = KeysOf(R, d)
  BY <1>1 DEF VendorStats
<1>4. \A k \in DOMAIN rows :
         rows[k] = [Tally(PartOf(R, key, k)) EXCEPT !.errors = CountOf(PartOf(R, key, k), ProviderFailed)]
  <2>1. TAKE k \in DOMAIN rows
  <2>2. PartOf(R, key, k) = {c \in R : Key(c, d) = k}
    BY <1>2, Columned
  <2>3. QED BY <1>1, <1>3, <2>2 DEF VendorStats
<1>5. \A k \in DOMAIN rows :
         /\ rows[k].requests = Cardinality(PartOf(R, key, k) \cap Verdicts)
         /\ rows[k].rated = Cardinality(PartOf(R, key, k) \cap RatedCalls)
         /\ rows[k].denied = Cardinality(PartOf(R, key, k) \cap RefusedCalls)
         /\ rows[k].errors = Cardinality(PartOf(R, key, k) \cap ProviderFailures)
  <2>1. TAKE k \in DOMAIN rows
  <2>2. PICK part : part = PartOf(R, key, k)
    OBVIOUS
  <2>3. part \subseteq DOMAIN log
    BY <2>2, PartsAreCalls
  <2>4. rows[k] = [Tally(part) EXCEPT !.errors = CountOf(part, ProviderFailed)]
    BY <1>4, <2>2
  <2>5. /\ rows[k].requests = Tally(part).requests /\ rows[k].rated = Tally(part).rated
        /\ rows[k].denied = Tally(part).denied /\ rows[k].errors = CountOf(part, ProviderFailed)
    BY <2>4 DEF Tally
  <2>6. QED BY <2>2, <2>3, <2>5, TallyIs, CountsAre
<1>6. /\ RowsCount(rows, "requests", R, key, Verdicts)
      /\ RowsCount(rows, "rated", R, key, RatedCalls)
      /\ RowsCount(rows, "denied", R, key, RefusedCalls)
      /\ RowsCount(rows, "errors", R, key, ProviderFailures)
  BY <1>5 DEF RowsCount
<1>7. IsFiniteSet(R) /\ IsFiniteSet(DOMAIN rows) /\ Keyed(R, key, DOMAIN rows)
  BY <1>2, <1>3, Columned, SubsetsAreFinite
<1>8. /\ Total(rows, "requests") = Cardinality(R \cap Verdicts)
      /\ Total(rows, "rated") = Cardinality(R \cap RatedCalls)
      /\ Total(rows, "denied") = Cardinality(R \cap RefusedCalls)
      /\ Total(rows, "errors") = Cardinality(R \cap ProviderFailures)
  BY <1>6, <1>7, TotalCount
<1>9. PICK e : e = SumFunction(ErrorClasses(R)) - ErrorClasses(R).gateway
  OBVIOUS
<1>10. e = Cardinality(R \cap ProviderFailures)
  BY <1>9, ClassesAddUp
<1>11. PICK tally : tally = [Tally(R) EXCEPT !.errors = e]
  OBVIOUS
<1>12. /\ tally.requests = Tally(R).requests /\ tally.rated = Tally(R).rated
       /\ tally.denied = Tally(R).denied /\ tally.errors = e
       /\ DOMAIN tally = {"requests", "rated", "denied", "errors"}
  BY <1>11 DEF Tally
<1>13. AddUp(rows, tally)
  BY <1>8, <1>10, <1>12, TallyIs DEF AddUp
<1>14. QED BY <1>1, <1>9, <1>11, <1>13

LEMMA SpendAddsUp ==
    ASSUME IsLog(log), NEW R, R \subseteq DOMAIN log, NEW d
    PROVE  SumFunction(SpendBy(R, d)) = Sum(R, CostOf)
<1>1. PICK rows : rows = SpendBy(R, d)
  OBVIOUS
<1>2. PICK key : key = ByColumn(R, d)
  OBVIOUS
<1>3. DOMAIN rows = KeysOf(R, d)
  BY <1>1 DEF SpendBy
<1>4. SumsOfParts(rows, KeysOf(R, d), R, key, Costs)
  <2>1. SUFFICES ASSUME NEW k \in KeysOf(R, d)
                 PROVE  rows[k] = SumOver(Costs, PartOf(R, key, k))
    BY DEF SumsOfParts
  <2>2. PartOf(R, key, k) = {c \in R : Key(c, d) = k}
    BY <1>2, Columned
  <2>3. rows[k] = Sum(PartOf(R, key, k), CostOf)
    BY <1>1, <2>2 DEF SpendBy
  <2>4. PartOf(R, key, k) \subseteq DOMAIN log
    BY PartsAreCalls
  <2>5. QED BY <2>3, <2>4, SumsAre
<1>5. SumOver(rows, KeysOf(R, d)) = SumOver(Costs, R)
  BY <1>2, <1>4, Columned, SubsetsAreFinite, LogIsWeighed, SumOfParts
<1>6. QED BY <1>1, <1>3, <1>5, SumFunctionIs, SumsAre

(* The calls that were not served, by status and outcome. *)
LEMMA CodesAddUp ==
    ASSUME IsLog(log), NEW R, R \subseteq DOMAIN log
    PROVE  SumFunction(ErrorCodes(R)) = Cardinality(R \cap Unserved)
<1>1. PICK S : S = R \cap Unserved
  OBVIOUS
<1>2. S = {c \in R : NotServed(log[c])}
  BY <1>1 DEF Unserved
<1>3. PICK key : key = [c \in S |-> Code(c)]
  OBVIOUS
<1>4. PICK K : K = {key[c] : c \in S}
  OBVIOUS
<1>5. IsFiniteSet(S)
  BY <1>1, SubsetsAreFinite
<1>6. IsFiniteSet(K)
  BY <1>4, <1>5, KeysAreFinite
<1>7. K = {Code(c) : c \in S}
  BY <1>3, <1>4
<1>8. PICK rows : rows = ErrorCodes(R)
  OBVIOUS
<1>9. rows = [k \in K |-> Cardinality({c \in S : Code(c) = k})]
  BY <1>2, <1>7, <1>8 DEF ErrorCodes
<1>10. CountsOfParts(rows, K, S, key, S)
  <2>1. SUFFICES ASSUME NEW k \in K PROVE rows[k] = Cardinality(PartOf(S, key, k) \cap S)
    BY DEF CountsOfParts
  <2>2. {c \in S : Code(c) = k} = PartOf(S, key, k) \cap S
    BY <1>3 DEF PartOf
  <2>3. QED BY <1>9, <2>2
<1>11. Keyed(S, key, K)
  BY <1>4 DEF Keyed
<1>12. SumOver(rows, K) = Cardinality(S \cap S)
  BY <1>5, <1>6, <1>10, <1>11, CountOfParts
<1>13. S \cap S = S /\ DOMAIN rows = K
  BY <1>9
<1>14. QED BY <1>1, <1>8, <1>12, <1>13, SumFunctionIs

(* The buckets of a window hold every call of it. *)
LEMMA DivisionBounds ==
    ASSUME NEW n \in Int, NEW d \in Nat \ {0}
    PROVE  (n \div d) \in Int /\ (n \div d) * d <= n /\ n < (n \div d) * d + d
OBVIOUS

LEMMA DivisionIs ==
    ASSUME NEW n \in Int, NEW d \in Nat \ {0}, NEW q \in Int, q * d <= n
    PROVE  q <= n \div d
<1>1. PICK p \in Int : p = n \div d /\ n < p * d + d
  BY DivisionBounds
<1>2. SUFFICES ASSUME q >= p + 1 PROVE FALSE
  BY <1>1
<1>3. (q - (p + 1)) * d >= 0
  BY <1>1, <1>2
<1>4. q * d - (p * d + d) = (q - (p + 1)) * d
  BY <1>1
<1>5. QED BY <1>1, <1>3, <1>4

LEMMA BucketsCover ==
    ASSUME NEW since \in Int, NEW until \in Int, NEW ts \in Int, since <= ts, ts < until
    PROVE  BucketStart(ts) \in BucketStarts(since, until)
<1>1. PICK B \in Nat \ {0} : B = BucketSize
  BY StatisticsAssumption
<1>2. PICK q \in Int : q = since \div B /\ q * B <= since
  BY DivisionBounds
<1>3. PICK p \in Int : p = ts \div B /\ p * B <= ts
  BY DivisionBounds
<1>4. q <= p
  BY <1>2, <1>3, DivisionIs
<1>5. PICK start \in Int : start = q * B
  OBVIOUS
<1>6. BucketStart(since) = start /\ BucketStart(ts) = p * B /\ start < until
  BY <1>1, <1>2, <1>3, <1>5 DEF BucketStart
<1>7. PICK m \in Int : m = (until - start - 1) \div B
  BY DivisionBounds
<1>8. p - q <= m
  <2>1. (p - q) * B = p * B - q * B
    OBVIOUS
  <2>2. (p - q) * B <= until - start - 1
    BY <1>3, <1>5, <2>1
  <2>3. QED BY <1>7, <2>2, DivisionIs
<1>13. PICK n \in Int : n = m + 1
  OBVIOUS
<1>9. BucketStarts(since, until) = {start + i * B : i \in 0..(n - 1)}
  <2>1. ~(until <= BucketStart(since))
    BY <1>6
  <2>2. n = (until - BucketStart(since) - 1) \div BucketSize + 1
    BY <1>1, <1>6, <1>7, <1>13
  <2>3. BucketStarts(since, until) = {BucketStart(since) + i * BucketSize : i \in 0..(n - 1)}
    BY <2>1, <2>2 DEF BucketStarts
  <2>4. {BucketStart(since) + i * BucketSize : i \in 0..(n - 1)} = {start + i * B : i \in 0..(n - 1)}
    BY <1>1, <1>6
  <2>5. QED BY <2>3, <2>4
<1>10. p - q \in 0..(n - 1)
  BY <1>4, <1>8, <1>13
<1>11. p * B = start + (p - q) * B
  <2>1. (p - q) * B = p * B - q * B
    OBVIOUS
  <2>2. QED BY <1>5, <2>1
<1>12. QED BY <1>6, <1>9, <1>10, <1>11

LEMMA BucketsAreFinite ==
    ASSUME NEW since \in Int, NEW until \in Int
    PROVE  IsFiniteSet(BucketStarts(since, until))
<1>1. CASE until <= BucketStart(since)
  BY <1>1, FS_EmptySet DEF BucketStarts
<1>2. CASE ~(until <= BucketStart(since))
  <2>1. PICK n : n = (until - BucketStart(since) - 1) \div BucketSize + 1
    OBVIOUS
  <2>2. PICK f : f = [i \in 0..(n - 1) |-> BucketStart(since) + i * BucketSize]
    OBVIOUS
  <2>3. BucketStart(since) \in Int /\ BucketSize \in Nat \ {0}
    BY StatisticsAssumption, DivisionBounds DEF BucketStart
  <2>4. n \in Int
    BY <2>1, <2>3, DivisionBounds
  <2>5. IsFiniteSet(0..(n - 1))
    BY <2>4, FS_Interval
  <2>6. BucketStarts(since, until) = {f[i] : i \in 0..(n - 1)}
    BY <1>2, <2>1, <2>2 DEF BucketStarts
  <2>7. PICK D : D = 0..(n - 1)
    OBVIOUS
  <2>8. IsFiniteSet({f[i] : i \in D})
    BY <2>5, <2>7, KeysAreFinite
  <2>9. QED BY <2>6, <2>7, <2>8
<1>3. QED BY <1>1, <1>2

ByBucket(R) == [c \in R |-> BucketStart(log[c].ts)]
LEMMA Bucketed ==
    ASSUME IsLog(log), NEW since \in Int, NEW until \in Int, NEW R, R \subseteq Between(since, until)
    PROVE  /\ R \subseteq DOMAIN log
           /\ Keyed(R, ByBucket(R), BucketStarts(since, until))
<1>1. R \subseteq DOMAIN log /\ \A c \in R : since <= log[c].ts /\ log[c].ts < until
  BY DEF Between
<1>2. \A c \in R : log[c].ts \in Int
  BY <1>1 DEF IsLog, IsCall
<1>3. \A c \in R : BucketStart(log[c].ts) \in BucketStarts(since, until)
  <2>1. TAKE c \in R
  <2>2. PICK t \in Int : t = log[c].ts /\ since <= t /\ t < until
    BY <1>1, <1>2
  <2>3. QED BY <2>2, BucketsCover
<1>4. QED BY <1>1, <1>3 DEF Keyed, ByBucket

LEMMA UsageSeriesAddsUp ==
    ASSUME IsLog(log), NEW since \in Int, NEW until \in Int, NEW R, R \subseteq Between(since, until)
    PROVE  AddUp(UsageSeries(R, since, until), Usage(R))
<1>1. PICK rows : rows = UsageSeries(R, since, until)
  OBVIOUS
<1>2. PICK key : key = ByBucket(R)
  OBVIOUS
<1>3. DOMAIN rows = BucketStarts(since, until)
  BY <1>1 DEF UsageSeries
<1>4. UsagesOfParts(rows, R, key)
  <2>1. SUFFICES ASSUME NEW k \in DOMAIN rows PROVE rows[k] = Usage(PartOf(R, key, k))
    BY DEF UsagesOfParts
  <2>2. {c \in R : BucketStart(log[c].ts) = k} = PartOf(R, key, k)
    BY <1>2 DEF PartOf, ByBucket
  <2>3. QED BY <1>1, <1>3, <2>2 DEF UsageSeries
<1>5. R \subseteq DOMAIN log /\ Keyed(R, key, DOMAIN rows) /\ IsFiniteSet(DOMAIN rows)
  BY <1>2, <1>3, Bucketed, BucketsAreFinite
<1>6. AddUp(rows, Usage(R))
  BY <1>4, <1>5, UsagesAddUp
<1>7. QED BY <1>1, <1>6

(* The feed: every call is in one row, and the rows with a failure hold them all. *)
LEMMA FeedAddsUp ==
    ASSUME IsLog(log), NEW R, R \subseteq DOMAIN log
    PROVE  /\ Total(ActivityFeed(R), "errors") = Cardinality(R \cap Unserved)
           /\ Total(ActivityFeed(R), "cost") = Sum(R, CostOf)
           /\ Total(FailuresFeed(R), "errors") = Cardinality(R \cap Unserved)
<1>1. PICK rows : rows = ActivityFeed(R)
  OBVIOUS
<1>2. PICK key : key = [c \in R |-> Group(c)]
  OBVIOUS
<1>3. DOMAIN rows = {Group(c) : c \in R}
  BY <1>1 DEF ActivityFeed
<1>4. IsFiniteSet(R) /\ Weighed(R, Costs)
  BY SubsetsAreFinite, LogIsWeighed
<1>5. IsFiniteSet(DOMAIN rows) /\ Keyed(R, key, DOMAIN rows)
  <2>1. DOMAIN rows = {key[c] : c \in R}
    BY <1>2, <1>3
  <2>2. QED BY <1>4, <2>1, KeysAreFinite DEF Keyed
<1>6. \A k \in DOMAIN rows :
         /\ rows[k].errors = Cardinality(PartOf(R, key, k) \cap Unserved)
         /\ rows[k].cost = SumOver(Costs, PartOf(R, key, k))
  <2>1. TAKE k \in DOMAIN rows
  <2>2. PICK part : part = PartOf(R, key, k)
    OBVIOUS
  <2>3. part = {c \in R : Group(c) = k} /\ part \subseteq DOMAIN log
    BY <1>2, <2>2 DEF PartOf
  <2>4. rows[k].errors = CountOf(part, NotServed) /\ rows[k].cost = Sum(part, CostOf)
    BY <1>1, <1>3, <2>3 DEF ActivityFeed
  <2>5. QED BY <2>2, <2>3, <2>4, CountsAre, SumsAre
<1>7. RowsCount(rows, "errors", R, key, Unserved) /\ RowsSum(rows, "cost", R, key, Costs)
  BY <1>6 DEF RowsCount, RowsSum
<1>8. Total(rows, "errors") = Cardinality(R \cap Unserved) /\ Total(rows, "cost") = SumOver(Costs, R)
  BY <1>4, <1>5, <1>7, TotalCount, TotalSum
<1>9. PICK bad : bad = {g \in DOMAIN rows : rows[g].errors > 0}
  OBVIOUS
<1>10. PICK some : some = FailuresFeed(R)
  OBVIOUS
<1>11. DOMAIN some = bad /\ (\A k \in bad : some[k] = rows[k]) /\ IsFiniteSet(bad) /\ bad \subseteq DOMAIN rows
  BY <1>1, <1>5, <1>9, <1>10, FS_Subset DEF FailuresFeed, Restrict
<1>12. PICK S : S = {c \in R : key[c] \in bad}
  OBVIOUS
<1>13. Keyed(S, key, DOMAIN some) /\ IsFiniteSet(S) /\ S \subseteq R
  BY <1>4, <1>11, <1>12, FS_Subset DEF Keyed
<1>14. RowsCount(some, "errors", S, key, Unserved)
  <2>1. SUFFICES ASSUME NEW k \in bad
                 PROVE  some[k].errors = Cardinality(PartOf(S, key, k) \cap Unserved)
    BY <1>11 DEF RowsCount
  <2>2. PartOf(S, key, k) = PartOf(R, key, k)
    BY <1>12 DEF PartOf
  <2>3. QED BY <1>6, <1>11, <2>2
<1>15. Total(some, "errors") = Cardinality(S \cap Unserved)
  BY <1>11, <1>13, <1>14, TotalCount
<1>16. R \cap Unserved \subseteq S
  <2>1. SUFFICES ASSUME NEW c \in R \cap Unserved, c \notin S PROVE FALSE
    OBVIOUS
  <2>2. PICK k \in DOMAIN rows : k = key[c]
    BY <1>5 DEF Keyed
  <2>3. PICK part : part = PartOf(R, key, k) \cap Unserved
    OBVIOUS
  <2>4. c \in part /\ IsFiniteSet(part)
    BY <1>4, <2>2, <2>3, FS_Subset DEF PartOf
  <2>5. Cardinality(part) \in Nat /\ Cardinality(part) # 0
    BY <2>4, FS_CardinalityType, FS_EmptySet
  <2>6. rows[k].errors = Cardinality(part)
    BY <1>6, <2>3
  <2>7. rows[k].errors > 0
    BY <2>5, <2>6
  <2>8. QED BY <1>9, <1>12, <2>1, <2>2, <2>7
<1>17. S \cap Unserved = R \cap Unserved
  BY <1>13, <1>16
<1>18. QED BY <1>1, <1>8, <1>10, <1>15, <1>17, SumsAre

LEMMA NamesAreNaturals ==
    ASSUME IsLog(log), NEW d \in Dimensions, NEW c \in DOMAIN log
    PROVE  Name(c, d) \in Nat
<1>1. log[c].by[d] \in Nat
  BY DEF IsLog, IsCall
<1>2. Unnamed \in Nat
  BY StatisticsAssumption
<1>3. QED BY <1>1, <1>2 DEF Name, Key

(* The top-N fold keeps no more than TopN names: the last of them has all the others ahead. *)
LEMMA TopIsSmall ==
    ASSUME IsLog(log), NEW d \in Dimensions, NEW R, R \subseteq DOMAIN log, NEW weight, Weighed(R, weight)
    PROVE  IsFiniteSet(TopKeys(R, d, weight)) /\ Cardinality(TopKeys(R, d, weight)) <= TopN
<1>1. PICK names : names = {Name(c, d) : c \in R}
  OBVIOUS
<1>2. PICK weighs : weighs = [n \in names |-> SumFunctionOnSet(weight, {c \in R : Name(c, d) = n})]
  OBVIOUS
<1> DEFINE ahead(n) == {m \in names : weighs[m] > weighs[n] \/ (weighs[m] = weighs[n] /\ m < n)}
<1>3. PICK top : top = TopKeys(R, d, weight)
  OBVIOUS
<1>4. top = {n \in names : Cardinality(ahead(n)) < TopN}
  BY <1>1, <1>2, <1>3 DEF TopKeys
<1>5. IsFiniteSet(R)
  BY SubsetsAreFinite
<1>6. IsFiniteSet(names) /\ names \subseteq Nat
  <2>1. PICK key : key = [c \in R |-> Name(c, d)]
    OBVIOUS
  <2>2. names = {key[c] : c \in R}
    BY <1>1, <2>1
  <2>3. IsFiniteSet(names)
    BY <1>5, <2>2, KeysAreFinite
  <2>4. QED BY <1>1, <2>3, NamesAreNaturals
<1>7. \A n \in names : weighs[n] \in Nat
  <2>1. TAKE n \in names
  <2>2. PICK part : part = {c \in R : Name(c, d) = n}
    OBVIOUS
  <2>3. IsFiniteSet(part) /\ \A c \in part : weight[c] \in Nat
    BY <1>5, <2>2, FS_Subset DEF Weighed
  <2>4. SumOver(weight, part) \in Nat
    BY <2>3, SumOverType
  <2>5. QED BY <1>2, <2>2, <2>4 DEF SumFunctionOnSet, SumOver
<1>8. IsFiniteSet(top) /\ top \subseteq names
  BY <1>4, <1>6, FS_Subset
<1>9. TopN \in Nat
  BY StatisticsAssumption
<1>10. CASE top = {}
  <2>1. Cardinality(top) = 0
    BY <1>10, FS_EmptySet
  <2>2. QED BY <1>3, <1>8, <1>9, <2>1
<1>11. CASE top # {}
  <2>1. PICK f : f = [n \in top |-> 0 - weighs[n]]
    OBVIOUS
  <2>2. \A n \in top : f[n] \in Int
    BY <1>7, <1>8, <2>1
  <2>3. PICK x \in top : \A y \in top : f[y] <= f[x]
    BY <1>8, <1>11, <2>2, HasLargest
  <2>4. PICK ties : ties = {n \in top : weighs[n] = weighs[x]}
    OBVIOUS
  <2>5. IsFiniteSet(ties) /\ ties # {} /\ ties \subseteq top
    BY <1>8, <2>3, <2>4, FS_Subset
  <2>6. PICK g : g = [n \in ties |-> n]
    OBVIOUS
  <2>7. \A n \in ties : g[n] \in Int
    BY <1>6, <1>8, <2>5, <2>6
  <2>8. PICK z \in ties : \A y \in ties : g[y] <= g[z]
    BY <2>5, <2>7, HasLargest
  <2>9. \A y \in top \ {z} : y \in ahead(z)
    <3>1. TAKE y \in top \ {z}
    <3>2. z \in top /\ weighs[z] = weighs[x] /\ z \in names /\ y \in names
      BY <1>8, <2>4, <2>8
    <3>3. weighs[y] \in Nat /\ weighs[z] \in Nat /\ y \in Nat /\ z \in Nat
      BY <1>6, <1>7, <3>2
    <3>4. weighs[y] >= weighs[z]
      <4>1. f[y] <= f[x] /\ f[y] = 0 - weighs[y] /\ f[x] = 0 - weighs[x]
        BY <2>1, <2>3
      <4>2. QED BY <3>2, <3>3, <4>1
    <3>5. CASE weighs[y] = weighs[z]
      <4>1. y \in ties
        BY <2>4, <3>2, <3>5
      <4>2. y <= z
        BY <2>6, <2>8, <4>1
      <4>3. QED BY <3>2, <3>3, <3>5, <4>2
    <3>6. CASE weighs[y] > weighs[z]
      BY <3>2, <3>6
    <3>7. QED BY <3>3, <3>4, <3>5, <3>6
  <2>10. PICK A : A = ahead(z)
    OBVIOUS
  <2>11. IsFiniteSet(A) /\ top \ {z} \subseteq A /\ z \in top /\ Cardinality(A) < TopN
    BY <1>4, <1>6, <2>5, <2>8, <2>9, <2>10, FS_Subset
  <2>12. Cardinality(top \ {z}) <= Cardinality(A) /\ Cardinality(A) \in Nat
    BY <2>11, FS_Subset, FS_CardinalityType
  <2>13. Cardinality(top \ {z}) = Cardinality(top) - 1 /\ Cardinality(top) \in Nat
    BY <1>8, <2>11, FS_RemoveElement, FS_CardinalityType
  <2>14. QED BY <1>3, <1>8, <1>9, <2>11, <2>12, <2>13
<1>12. QED BY <1>10, <1>11

(* A series has a cell for every bucket and name, and each call is in one of them. *)
BySeries(R, d, top) == [c \in R |-> SeriesKey(c, d, top)]
LEMMA Serial ==
    ASSUME IsLog(log), NEW R, R \subseteq DOMAIN log, NEW d, NEW top
    PROVE  /\ IsFiniteSet(SeriesKeys(R, d, top)) /\ Keyed(R, BySeries(R, d, top), SeriesKeys(R, d, top))
           /\ \A b, k : Cell(R, d, top, b, k) = PartOf(PartOf(R, ByBucket(R), b), BySeries(R, d, top), k)
           /\ \A b, k : Cell(R, d, top, b, k) \subseteq DOMAIN log
<1>1. PICK key : key = BySeries(R, d, top)
  OBVIOUS
<1>2. IsFiniteSet(R) /\ SeriesKeys(R, d, top) = {key[c] : c \in R}
  BY <1>1, SubsetsAreFinite DEF SeriesKeys, BySeries
<1>3. IsFiniteSet(SeriesKeys(R, d, top))
  BY <1>2, KeysAreFinite
<1>4. Keyed(R, key, SeriesKeys(R, d, top))
  BY <1>2 DEF Keyed
<1>5. \A b, k : Cell(R, d, top, b, k) = PartOf(PartOf(R, ByBucket(R), b), key, k)
  BY <1>1 DEF Cell, PartOf, ByBucket, BySeries
<1>6. \A b, k : Cell(R, d, top, b, k) \subseteq DOMAIN log
  BY DEF Cell
<1>7. QED BY <1>1, <1>3, <1>4, <1>5, <1>6

LEMMA SeriesAreSmall ==
    ASSUME IsLog(log), NEW d \in Dimensions, NEW R, R \subseteq DOMAIN log, NEW weight, Weighed(R, weight)
    PROVE  Cardinality(SeriesKeys(R, d, TopKeys(R, d, weight))) <= TopN + 1
<1>1. PICK top : top = TopKeys(R, d, weight)
  OBVIOUS
<1>2. IsFiniteSet(top) /\ Cardinality(top) <= TopN
  BY <1>1, TopIsSmall
<1>3. PICK K : K = SeriesKeys(R, d, top)
  OBVIOUS
<1>4. K \subseteq top \cup {OtherModelKey}
  BY <1>3 DEF SeriesKeys, SeriesKey
<1>5. IsFiniteSet(top \cup {OtherModelKey}) /\ Cardinality(top) \in Nat
  BY <1>2, FS_AddElement, FS_CardinalityType
<1>6. Cardinality(top \cup {OtherModelKey}) <= Cardinality(top) + 1
  BY <1>2, <1>5, FS_AddElement
<1>7. Cardinality(K) <= Cardinality(top \cup {OtherModelKey})
  BY <1>4, <1>5, FS_Subset
<1>8. Cardinality(K) \in Nat /\ Cardinality(top \cup {OtherModelKey}) \in Nat /\ TopN \in Nat
  BY <1>4, <1>5, FS_Subset, FS_CardinalityType, StatisticsAssumption
<1>9. QED BY <1>1, <1>2, <1>3, <1>5, <1>6, <1>7, <1>8

(* What every series has in common. *)
LEMMA SeriesShape ==
    ASSUME IsLog(log), NEW since \in Int, NEW until \in Int, NEW R, R \subseteq Between(since, until),
           NEW d, NEW top
    PROVE  /\ R \subseteq DOMAIN log /\ IsFiniteSet(R)
           /\ IsFiniteSet(BucketStarts(since, until)) /\ IsFiniteSet(SeriesKeys(R, d, top))
           /\ Keyed(R, ByBucket(R), BucketStarts(since, until))
           /\ Keyed(R, BySeries(R, d, top), SeriesKeys(R, d, top))
           /\ Weighed(R, Costs) /\ Weighed(R, TokenCounts) /\ Weighed(R, Inputs)
<1>1. R \subseteq DOMAIN log /\ Keyed(R, ByBucket(R), BucketStarts(since, until))
  BY Bucketed
<1>2. IsFiniteSet(R) /\ IsFiniteSet(BucketStarts(since, until))
  BY <1>1, SubsetsAreFinite, BucketsAreFinite
<1>3. IsFiniteSet(SeriesKeys(R, d, top)) /\ Keyed(R, BySeries(R, d, top), SeriesKeys(R, d, top))
  BY <1>1, Serial
<1>4. QED BY <1>1, <1>2, <1>3, LogIsWeighed

LEMMA SuccessAddsUp ==
    ASSUME IsLog(log), NEW since \in Int, NEW until \in Int, NEW R, R \subseteq Between(since, until),
           NEW d \in Dimensions
    PROVE  /\ \A field \in DOMAIN Tally(R) :
                TotalOfSeries(SuccessByModelSeries(R, d, since, until), field) = Tally(R)[field]
           /\ \A b \in DOMAIN SuccessByModelSeries(R, d, since, until) :
                Cardinality(DOMAIN SuccessByModelSeries(R, d, since, until)[b]) <= TopN + 1
<1>1. PICK weight : weight = [c \in R |-> One(log[c])]
  OBVIOUS
<1>2. PICK top : top = TopKeys(R, d, weight)
  OBVIOUS
<1>3. PICK K : K = SeriesKeys(R, d, top)
  OBVIOUS
<1>4. PICK key : key = BySeries(R, d, top)
  OBVIOUS
<1>5. PICK bucket : bucket = ByBucket(R)
  OBVIOUS
<1>6. PICK series : series = SuccessByModelSeries(R, d, since, until)
  OBVIOUS
<1>7. series = [b \in BucketStarts(since, until) |-> [k \in K |-> Tally(Cell(R, d, top, b, k))]]
  BY <1>1, <1>2, <1>3, <1>6 DEF SuccessByModelSeries
<1>8. R \subseteq DOMAIN log /\ IsFiniteSet(R)
  BY SeriesShape
<1>9. IsFiniteSet(DOMAIN series) /\ Keyed(R, bucket, DOMAIN series)
  BY <1>5, <1>7, SeriesShape
<1>10. IsFiniteSet(K) /\ Keyed(R, key, K)
  BY <1>3, <1>4, SeriesShape
<1>11. Buckets(series, K)
  BY <1>7 DEF Buckets
<1>12. \A b \in DOMAIN series :
          /\ RowsCount(series[b], "requests", PartOf(R, bucket, b), key, Verdicts)
          /\ RowsCount(series[b], "rated", PartOf(R, bucket, b), key, RatedCalls)
          /\ RowsCount(series[b], "denied", PartOf(R, bucket, b), key, RefusedCalls)
          /\ RowsCount(series[b], "errors", PartOf(R, bucket, b), key, RatedFailures)
  <2>1. TAKE b \in DOMAIN series
  <2>2. PICK part : part = PartOf(R, bucket, b)
    OBVIOUS
  <2>3. part \subseteq DOMAIN log
    BY <1>8, <2>2, PartsAreCalls
  <2>4. PICK rows : rows = series[b]
    OBVIOUS
  <2>5. TalliesOfParts(rows, part, key)
    <3>1. SUFFICES ASSUME NEW k \in DOMAIN rows PROVE rows[k] = Tally(PartOf(part, key, k))
      BY DEF TalliesOfParts
    <3>2. Cell(R, d, top, b, k) = PartOf(part, key, k)
      BY <1>4, <1>5, <1>8, <2>2, Serial
    <3>3. QED BY <1>7, <2>4, <3>2
  <2>6. QED BY <2>2, <2>3, <2>4, <2>5, RowsOfTallies
<1>13. /\ TotalOfSeries(series, "requests") = Cardinality(R \cap Verdicts)
       /\ TotalOfSeries(series, "rated") = Cardinality(R \cap RatedCalls)
       /\ TotalOfSeries(series, "denied") = Cardinality(R \cap RefusedCalls)
       /\ TotalOfSeries(series, "errors") = Cardinality(R \cap RatedFailures)
  <2>1. TotalOfSeries(series, "requests") = Cardinality(R \cap Verdicts)
    <3>1. \A b \in DOMAIN series : RowsCount(series[b], "requests", PartOf(R, bucket, b), key, Verdicts)
      BY <1>12
    <3>2. QED BY <1>8, <1>9, <1>10, <1>11, <3>1, SeriesCount
  <2>2. TotalOfSeries(series, "rated") = Cardinality(R \cap RatedCalls)
    <3>1. \A b \in DOMAIN series : RowsCount(series[b], "rated", PartOf(R, bucket, b), key, RatedCalls)
      BY <1>12
    <3>2. QED BY <1>8, <1>9, <1>10, <1>11, <3>1, SeriesCount
  <2>3. TotalOfSeries(series, "denied") = Cardinality(R \cap RefusedCalls)
    <3>1. \A b \in DOMAIN series : RowsCount(series[b], "denied", PartOf(R, bucket, b), key, RefusedCalls)
      BY <1>12
    <3>2. QED BY <1>8, <1>9, <1>10, <1>11, <3>1, SeriesCount
  <2>4. TotalOfSeries(series, "errors") = Cardinality(R \cap RatedFailures)
    <3>1. \A b \in DOMAIN series : RowsCount(series[b], "errors", PartOf(R, bucket, b), key, RatedFailures)
      BY <1>12
    <3>2. QED BY <1>8, <1>9, <1>10, <1>11, <3>1, SeriesCount
  <2>5. QED BY <2>1, <2>2, <2>3, <2>4
<1>14. \A field \in DOMAIN Tally(R) : TotalOfSeries(series, field) = Tally(R)[field]
  BY <1>8, <1>13, TallyIs
<1>15. Weighed(R, weight)
  BY <1>1 DEF Weighed, One
<1>16. Cardinality(K) <= TopN + 1
  BY <1>2, <1>3, <1>8, <1>15, SeriesAreSmall
<1>17. \A b \in DOMAIN series : Cardinality(DOMAIN series[b]) <= TopN + 1
  BY <1>11, <1>16 DEF Buckets
<1>18. QED BY <1>6, <1>14, <1>17

LEMMA TokensAddUp ==
    ASSUME IsLog(log), NEW since \in Int, NEW until \in Int, NEW R, R \subseteq Between(since, until),
           NEW d \in Dimensions
    PROVE  /\ TotalOfSeries(TokensByModelSeries(R, d, since, until), "cost") = Sum(R, CostOf)
           /\ TotalOfSeries(TokensByModelSeries(R, d, since, until), "tokens") = Sum(R, Tokens)
<1>1. PICK weight : weight = [c \in R |-> Tokens(log[c])]
  OBVIOUS
<1>2. PICK top : top = TopKeys(R, d, weight)
  OBVIOUS
<1>3. PICK K : K = SeriesKeys(R, d, top)
  OBVIOUS
<1>4. PICK key : key = BySeries(R, d, top)
  OBVIOUS
<1>5. PICK bucket : bucket = ByBucket(R)
  OBVIOUS
<1>6. PICK series : series = TokensByModelSeries(R, d, since, until)
  OBVIOUS
<1>7. series = [b \in BucketStarts(since, until) |->
                  [k \in K |-> [tokens |-> Sum(Cell(R, d, top, b, k), Tokens),
                                cost |-> Sum(Cell(R, d, top, b, k), CostOf)]]]
  BY <1>1, <1>2, <1>3, <1>6 DEF TokensByModelSeries
<1>8. R \subseteq DOMAIN log /\ IsFiniteSet(R) /\ Weighed(R, Costs) /\ Weighed(R, TokenCounts)
  BY SeriesShape
<1>9. IsFiniteSet(DOMAIN series) /\ Keyed(R, bucket, DOMAIN series)
  BY <1>5, <1>7, SeriesShape
<1>10. IsFiniteSet(K) /\ Keyed(R, key, K)
  BY <1>3, <1>4, SeriesShape
<1>11. Buckets(series, K)
  BY <1>7 DEF Buckets
<1>12. \A b \in DOMAIN series :
          /\ RowsSum(series[b], "cost", PartOf(R, bucket, b), key, Costs)
          /\ RowsSum(series[b], "tokens", PartOf(R, bucket, b), key, TokenCounts)
  <2>1. TAKE b \in DOMAIN series
  <2>2. \A k \in DOMAIN series[b] :
           /\ series[b][k].cost = SumOver(Costs, PartOf(PartOf(R, bucket, b), key, k))
           /\ series[b][k].tokens = SumOver(TokenCounts, PartOf(PartOf(R, bucket, b), key, k))
    <3>1. TAKE k \in DOMAIN series[b]
    <3>2. PICK cell : cell = Cell(R, d, top, b, k)
      OBVIOUS
    <3>3. cell = PartOf(PartOf(R, bucket, b), key, k) /\ cell \subseteq DOMAIN log
      BY <1>4, <1>5, <1>8, <3>2, Serial
    <3>4. series[b][k].cost = Sum(cell, CostOf) /\ series[b][k].tokens = Sum(cell, Tokens)
      BY <1>7, <3>2
    <3>5. QED BY <3>3, <3>4, SumsAre
  <2>3. QED BY <2>2 DEF RowsSum
<1>13. /\ TotalOfSeries(series, "cost") = SumOver(Costs, R)
       /\ TotalOfSeries(series, "tokens") = SumOver(TokenCounts, R)
  BY <1>8, <1>9, <1>10, <1>11, <1>12, SeriesSum
<1>14. QED BY <1>6, <1>8, <1>13, SumsAre

LEMMA CacheAddsUp ==
    ASSUME IsLog(log), NEW since \in Int, NEW until \in Int, NEW R, R \subseteq Between(since, until),
           NEW d \in Dimensions
    PROVE  TotalOfSeries(CacheByModelSeries(R, d, since, until), "input") = Sum(R, Input)
<1>1. PICK weight : weight = [c \in R |-> Input(log[c])]
  OBVIOUS
<1>2. PICK top : top = TopKeys(R, d, weight)
  OBVIOUS
<1>3. PICK K : K = SeriesKeys(R, d, top)
  OBVIOUS
<1>4. PICK key : key = BySeries(R, d, top)
  OBVIOUS
<1>5. PICK bucket : bucket = ByBucket(R)
  OBVIOUS
<1>6. PICK series : series = CacheByModelSeries(R, d, since, until)
  OBVIOUS
<1>7. series = [b \in BucketStarts(since, until) |->
                  [k \in K |-> [read |-> Sum(Cell(R, d, top, b, k), CachedOf),
                                input |-> Sum(Cell(R, d, top, b, k), Input)]]]
  BY <1>1, <1>2, <1>3, <1>6 DEF CacheByModelSeries
<1>8. R \subseteq DOMAIN log /\ IsFiniteSet(R) /\ Weighed(R, Inputs)
  BY SeriesShape
<1>9. IsFiniteSet(DOMAIN series) /\ Keyed(R, bucket, DOMAIN series)
  BY <1>5, <1>7, SeriesShape
<1>10. IsFiniteSet(K) /\ Keyed(R, key, K)
  BY <1>3, <1>4, SeriesShape
<1>11. Buckets(series, K)
  BY <1>7 DEF Buckets
<1>12. \A b \in DOMAIN series : RowsSum(series[b], "input", PartOf(R, bucket, b), key, Inputs)
  <2>1. TAKE b \in DOMAIN series
  <2>2. \A k \in DOMAIN series[b] :
           series[b][k].input = SumOver(Inputs, PartOf(PartOf(R, bucket, b), key, k))
    <3>1. TAKE k \in DOMAIN series[b]
    <3>2. PICK cell : cell = Cell(R, d, top, b, k)
      OBVIOUS
    <3>3. cell = PartOf(PartOf(R, bucket, b), key, k) /\ cell \subseteq DOMAIN log
      BY <1>4, <1>5, <1>8, <3>2, Serial
    <3>4. series[b][k].input = Sum(cell, Input)
      BY <1>7, <3>2
    <3>5. QED BY <3>3, <3>4, SumsAre
  <2>3. QED BY <2>2 DEF RowsSum
<1>13. TotalOfSeries(series, "input") = SumOver(Inputs, R)
  BY <1>8, <1>9, <1>10, <1>11, <1>12, SeriesSum
<1>14. QED BY <1>6, <1>8, <1>13, SumsAre

LEMMA ScopedPanelsAgree ==
    ASSUME IsLog(log), NEW since \in Int, NEW until \in Int, NEW R, R \subseteq Between(since, until)
    PROVE  ScopedPanels(R, since, until)
<1>1. R \subseteq DOMAIN log
  BY DEF Between
<1>2. \A field \in DOMAIN Tally(R) : OverviewStats(R)[field] = Tally(R)[field]
  BY <1>1, OverviewIsTheTally
<1>3. /\ SumFunction(ErrorCodes(R)) = Tally(R).errors + Tally(R).denied
      /\ Total(ActivityFeed(R), "errors") = Tally(R).errors + Tally(R).denied
      /\ Total(FailuresFeed(R), "errors") = Tally(R).errors + Tally(R).denied
      /\ Total(ActivityFeed(R), "cost") = Sum(R, CostOf)
  BY <1>1, CodesAddUp, FeedAddsUp, NotServedAre
<1>4. SUFFICES ASSUME NEW d \in Dimensions
      PROVE  /\ SumFunction(SpendBy(R, d)) = Sum(R, CostOf)
             /\ LET success == SuccessByModelSeries(R, d, since, until)
                IN /\ \A field \in DOMAIN Tally(R) : TotalOfSeries(success, field) = Tally(R)[field]
                   /\ \A b \in DOMAIN success : Cardinality(DOMAIN success[b]) <= TopN + 1
             /\ LET tokens == TokensByModelSeries(R, d, since, until)
                IN /\ TotalOfSeries(tokens, "cost") = Sum(R, CostOf)
                   /\ TotalOfSeries(tokens, "tokens") = Sum(R, Tokens)
             /\ TotalOfSeries(CacheByModelSeries(R, d, since, until), "input") = Sum(R, Input)
  BY <1>2, <1>3, Zenon DEF ScopedPanels
<1>5. SumFunction(SpendBy(R, d)) = Sum(R, CostOf)
  BY <1>1, SpendAddsUp
<1>6. /\ \A field \in DOMAIN Tally(R) :
            TotalOfSeries(SuccessByModelSeries(R, d, since, until), field) = Tally(R)[field]
      /\ \A b \in DOMAIN SuccessByModelSeries(R, d, since, until) :
            Cardinality(DOMAIN SuccessByModelSeries(R, d, since, until)[b]) <= TopN + 1
  BY SuccessAddsUp
<1>7. /\ TotalOfSeries(TokensByModelSeries(R, d, since, until), "cost") = Sum(R, CostOf)
      /\ TotalOfSeries(TokensByModelSeries(R, d, since, until), "tokens") = Sum(R, Tokens)
  BY TokensAddUp
<1>8. TotalOfSeries(CacheByModelSeries(R, d, since, until), "input") = Sum(R, Input)
  BY CacheAddsUp
<1>9. QED BY <1>5, <1>6, <1>7, <1>8, Zenon

LEMMA FleetPanelsAgree ==
    ASSUME IsLog(log), NEW since \in Int, NEW until \in Int
    PROVE  FleetPanels(since, until)
<1>1. PICK R : R = Between(since, until)
  OBVIOUS
<1>2. R \subseteq DOMAIN log
  BY <1>1 DEF Between
<1>3. AddUp(UsageSeries(R, since, until), Usage(R))
  BY <1>1, UsageSeriesAddsUp
<1>4. OverviewStats(R).errors = Tally(R).errors /\ OverviewStats(R).denied = Tally(R).denied
  BY <1>2, OverviewIsTheTally, TallyIs
<1>5. SumFunction(ErrorClasses(R)) = OverviewStats(R).errors + OverviewStats(R).denied
  BY <1>2, <1>4, ClassesAddUp, NotServedAre
<1>6. \A d \in Dimensions :
         /\ AddUp(Breakdown(R, d), Usage(R))
         /\ AddUp(ModelStats(R, d), Tally(R))
         /\ AddUp(VendorStats(R, d),
                  [Tally(R) EXCEPT !.errors = SumFunction(ErrorClasses(R)) - ErrorClasses(R).gateway])
  BY <1>2, BreakdownAddsUp, ModelStatsAddUp, VendorStatsAddUp
<1>7. QED BY <1>1, <1>3, <1>5, <1>6, Zenon DEF FleetPanels

LEMMA FacetsAgree ==
    ASSUME IsLog(log), NEW since \in Int, NEW until \in Int, NEW user
    PROVE  FacetsReconcile(user, since, until)
<1>1. SUFFICES ASSUME NEW d \in Dimensions \ {"user"},
                      NEW k \in DOMAIN Facets(user, since, until, d)
               PROVE  Facets(user, since, until, d)[k]
                        = OverviewStats(Scoped(user, [x \in {d} |-> {k}], since, until)).requests
                          + CountOf(Scoped(user, [x \in {d} |-> {k}], since, until), IsRunning)
  BY Zenon DEF FacetsReconcile
<1>2. PICK R : R = Scoped(user, [any \in {} |-> {}], since, until)
  OBVIOUS
<1>3. PICK chosen : chosen = Scoped(user, [x \in {d} |-> {k}], since, until)
  OBVIOUS
<1>4. Facets(user, since, until, d)[k] = Cardinality({c \in R : Key(c, d) = k})
  BY <1>2 DEF Facets
<1>5. chosen = {c \in R : Key(c, d) = k}
  <2>1. R = {c \in Between(since, until) : user = Blank \/ log[c].by["user"] = user}
    BY <1>2 DEF Scoped, InScope
  <2>2. chosen = {c \in Between(since, until) :
                    (user = Blank \/ log[c].by["user"] = user) /\ log[c].by[d] = k}
    BY <1>3 DEF Scoped, InScope
  <2>3. QED BY <2>1, <2>2 DEF Key
<1>6. chosen \subseteq DOMAIN log
  BY <1>3 DEF Scoped, Between
<1>7. PICK running : running = {c \in chosen : IsRunning(log[c])}
  OBVIOUS
<1>8. IsFiniteSet(chosen \cap Verdicts) /\ IsFiniteSet(running)
  BY <1>6, <1>7, SubsetsAreFinite
<1>9. chosen = (chosen \cap Verdicts) \cup running /\ (chosen \cap Verdicts) \cap running = {}
  BY <1>6, <1>7 DEF Verdicts, IsRunning
<1>10. Cardinality(chosen) = Cardinality(chosen \cap Verdicts) + Cardinality(running)
  BY <1>8, <1>9, CountDisjoint
<1>11. OverviewStats(chosen).requests = Cardinality(chosen \cap Verdicts)
  BY <1>6, OverviewIsTheTally, TallyIs
<1>12. CountOf(chosen, IsRunning) = Cardinality(running)
  BY <1>7 DEF CountOf
<1>13. QED BY <1>3, <1>4, <1>5, <1>10, <1>11, <1>12

(* A session's first call, and its agents: each of them can be reached from a root. *)
LEMMA FirstCallIs ==
    ASSUME IsLog(log), NEW S, S \subseteq DOMAIN log, NEW a \in AgentsOf(S)
    PROVE  FirstCall(S, a) \in S /\ log[FirstCall(S, a)].agent = a
<1>1. PICK own : own = {c \in S : log[c].agent = a}
  OBVIOUS
<1>2. own # {} /\ IsFiniteSet(own) /\ own \subseteq DOMAIN log
  BY <1>1, SubsetsAreFinite DEF AgentsOf
<1>3. \A c \in own : log[c].ts \in Int /\ c \in Nat
  BY <1>2 DEF IsLog, IsCall
<1>4. PICK f : f = [c \in own |-> 0 - log[c].ts]
  OBVIOUS
<1>5. PICK x \in own : \A y \in own : f[y] <= f[x]
  <2>1. \A c \in own : f[c] \in Int
    BY <1>3, <1>4
  <2>2. QED BY <1>2, <2>1, HasLargest
<1>6. PICK ties : ties = {c \in own : log[c].ts = log[x].ts}
  OBVIOUS
<1>7. IsFiniteSet(ties) /\ ties # {} /\ ties \subseteq own
  BY <1>2, <1>5, <1>6, FS_Subset
<1>8. PICK g : g = [c \in ties |-> 0 - c]
  OBVIOUS
<1>9. PICK z \in ties : \A y \in ties : g[y] <= g[z]
  <2>1. \A c \in ties : g[c] \in Int
    BY <1>3, <1>7, <1>8
  <2>2. QED BY <1>7, <2>1, HasLargest
<1>10. \A e \in own : ~Earlier(e, z)
  <2>1. TAKE e \in own
  <2>2. z \in own /\ log[z].ts = log[x].ts
    BY <1>6, <1>9
  <2>3. PICK p \in Int, q \in Int : p = log[e].ts /\ q = log[z].ts
    BY <1>3, <2>2
  <2>4. p >= q
    <3>1. f[e] = 0 - p /\ f[x] = 0 - q /\ f[e] <= f[x]
      BY <1>4, <1>5, <2>2, <2>3
    <3>2. QED BY <3>1
  <2>5. CASE p = q
    <3>1. e \in ties
      BY <1>6, <2>2, <2>3, <2>5
    <3>2. g[e] <= g[z] /\ g[e] = 0 - e /\ g[z] = 0 - z /\ e \in Nat /\ z \in Nat
      BY <1>3, <1>8, <1>9, <2>2, <3>1
    <3>3. ~(e < z)
      BY <3>2
    <3>4. QED BY <2>3, <2>5, <3>3 DEF Earlier
  <2>6. CASE p > q
    BY <2>3, <2>6 DEF Earlier
  <2>7. QED BY <2>4, <2>5, <2>6
<1>11. z \in own
  BY <1>7, <1>9
<1>12. FirstCall(S, a) \in own
  BY <1>1, <1>10, <1>11, Zenon DEF FirstCall
<1>13. QED BY <1>1, <1>12

LEMMA EveryAgentIsShown ==
    ASSUME IsLog(log), NEW S, S \subseteq DOMAIN log
    PROVE  ShownAgents(S) = AgentsOf(S)
<1>1. SUFFICES ASSUME NEW shown \in SUBSET AgentsOf(S),
                      \A b \in AgentsOf(S) : IsShownWith(S, b, shown) => b \in shown
               PROVE  AgentsOf(S) \subseteq shown
  BY Zenon DEF ShownAgents
<1>2. \A a \in AgentsOf(S) : a \in DOMAIN Depth /\ Depth[a] \in Nat
  <2>1. TAKE a \in AgentsOf(S)
  <2>2. a \in DOMAIN Depth
    BY DEF AgentsOf, IsLog, IsCall
  <2>3. Depth \in [DOMAIN Depth -> Nat]
    BY StatisticsAssumption
  <2>4. QED BY <2>2, <2>3
<1>3. PICK missing : missing = {Depth[a] : a \in AgentsOf(S) \ shown}
  OBVIOUS
<1>4. SUFFICES ASSUME missing # {} PROVE FALSE
  BY <1>3
<1>5. missing \subseteq Nat
  BY <1>2, <1>3
<1>6. PICK n \in missing : \A m \in missing : n <= m
  BY <1>4, <1>5, LeastNatural
<1>7. PICK a \in AgentsOf(S) \ shown : Depth[a] = n
  BY <1>3, <1>6
<1>8. PICK p : p = ParentOf(S, a)
  OBVIOUS
<1>9. p # "" => p \in DOMAIN Depth /\ Depth[p] < Depth[a]
  <2>1. PICK c \in DOMAIN log : c = FirstCall(S, a) /\ log[c].agent = a
    BY <1>7, FirstCallIs
  <2>2. p = log[c].parent
    BY <1>8, <2>1 DEF ParentOf
  <2>3. IsCall(log[c])
    BY <2>1 DEF IsLog
  <2>4. log[c].parent # "" => log[c].parent \in DOMAIN Depth /\ Depth[log[c].parent] < Depth[log[c].agent]
    BY <2>3 DEF IsCall
  <2>5. QED BY <2>1, <2>2, <2>4
<1>10. CASE p = "" \/ p \notin AgentsOf(S) \/ p \in shown
  BY <1>1, <1>7, <1>8, <1>10 DEF IsShownWith
<1>11. CASE p # "" /\ p \in AgentsOf(S) /\ p \notin shown
  <2>1. Depth[p] \in missing /\ Depth[p] \in Nat /\ Depth[p] < n
    BY <1>2, <1>3, <1>7, <1>9, <1>11
  <2>2. n <= Depth[p] /\ n \in Nat
    BY <1>5, <1>6, <2>1
  <2>3. QED BY <2>1, <2>2
<1>12. QED BY <1>10, <1>11

(* The newest PageSize calls of a session that has no more are all of them. *)
LEMMA EveryCallFits ==
    ASSUME IsLog(log), NEW S, S \subseteq DOMAIN log, IsFiniteSet(S), Cardinality(S) <= PageSize
    PROVE  {c \in S : Cardinality({e \in S : Earlier(c, e)}) < PageSize} = S
<1>1. SUFFICES ASSUME NEW c \in S
               PROVE  Cardinality({e \in S : Earlier(c, e)}) < PageSize
  OBVIOUS
<1>2. PICK later : later = {e \in S : Earlier(c, e)}
  OBVIOUS
<1>3. ~Earlier(c, c)
  <2>1. PICK t \in Int, n \in Nat : t = log[c].ts /\ n = c
    BY DEF IsLog, IsCall
  <2>2. ~(t < t) /\ ~(n < n)
    OBVIOUS
  <2>3. QED BY <2>1, <2>2 DEF Earlier
<1>4. later \subseteq S \ {c} /\ IsFiniteSet(S \ {c})
  BY <1>2, <1>3, FS_RemoveElement
<1>5. Cardinality(later) <= Cardinality(S \ {c}) /\ Cardinality(later) \in Nat
  BY <1>4, FS_Subset, FS_CardinalityType
<1>6. Cardinality(S \ {c}) = Cardinality(S) - 1 /\ Cardinality(S) \in Nat
  BY FS_RemoveElement, FS_CardinalityType
<1>7. PICK m \in Nat, n \in Nat, size \in Nat :
         m = Cardinality(later) /\ n = Cardinality(S) /\ size = PageSize
  BY <1>5, <1>6, StatisticsAssumption
<1>8. m <= n - 1 /\ n <= size
  BY <1>5, <1>6, <1>7
<1>9. m < size
  BY <1>8
<1>10. QED BY <1>2, <1>7, <1>9

LEMMA SessionAgrees ==
    ASSUME IsLog(log), NEW s, s # "", \E c \in DOMAIN log : log[c].session = s
    PROVE  SessionReconciles(s)
<1>1. PICK S : S = SessionCalls(s)
  OBVIOUS
<1>2. S \subseteq DOMAIN log /\ IsFiniteSet(S)
  BY <1>1, SubsetsAreFinite DEF SessionCalls
<1>3. PICK g : g = <<"session", s>>
  OBVIOUS
<1>4. S = {c \in DOMAIN log : Group(c) = g}
  BY <1>1, <1>3 DEF SessionCalls, Group
<1>5. g \in {Group(c) : c \in DOMAIN log}
  BY <1>3 DEF Group
<1>6. PICK line : line = ActivityFeed(DOMAIN log)[g]
  OBVIOUS
<1>7. line = [calls |-> Cardinality(S), cost |-> Sum(S, CostOf), tokens |-> Sum(S, Tokens),
             errors |-> CountOf(S, NotServed)]
  BY <1>4, <1>5, <1>6 DEF ActivityFeed
<1>8. SUFFICES ASSUME Cardinality(S) <= PageSize
               PROVE  /\ SessionData(SessionPage(s)) = line
                      /\ AgentTree(SessionPage(s)) = [calls |-> line.calls, cost |-> line.cost]
  <2>1. line.calls = Cardinality(S)
    BY <1>7
  <2>2. line = ActivityFeed(DOMAIN log)[<<"session", s>>]
    BY <1>3, <1>6
  <2>3. QED BY <1>8, <2>1, <2>2, Zenon DEF SessionReconciles
<1>9. SessionPage(s) = S
  BY <1>1, <1>2, <1>8, EveryCallFits DEF SessionPage
<1>10. SessionData(S) = line
  <2>1. {c \in S : IsErrorStatus(log[c])} = {c \in S : NotServed(log[c])}
    BY <1>2, StatusesAre, GradesAgree
  <2>2. QED BY <1>7, <2>1 DEF SessionData, CountOf
<1>11. AgentTree(S) = [calls |-> line.calls, cost |-> line.cost]
  <2>1. {c \in S : log[c].agent \in ShownAgents(S)} = S
    BY <1>2, EveryAgentIsShown DEF AgentsOf
  <2>2. QED BY <1>7, <2>1 DEF AgentTree
<1>12. QED BY <1>9, <1>10, <1>11

(* All of it, on any log. *)
LEMMA EveryLogAgrees ==
    ASSUME IsLog(log) PROVE PanelsAgree
<1>1. \A w \in Windows : w[1] \in Int /\ w[2] \in Int
  BY StatisticsAssumption
<1>2. \A w \in Windows : FleetPanels(w[1], w[2])
  BY <1>1, FleetPanelsAgree
<1>3. \A w \in Windows, scope \in Scopes :
         ScopedPanels(Scoped(scope.user, scope.filter, w[1], w[2]), w[1], w[2])
  <2>1. TAKE w \in Windows, scope \in Scopes
  <2>2. PICK R : R = Scoped(scope.user, scope.filter, w[1], w[2])
    OBVIOUS
  <2>3. R \subseteq Between(w[1], w[2])
    BY <2>2 DEF Scoped
  <2>4. QED BY <1>1, <2>2, <2>3, ScopedPanelsAgree
<1>4. \A w \in Windows, scope \in Scopes : FacetsReconcile(scope.user, w[1], w[2])
  BY <1>1, FacetsAgree
<1>5. \A c \in DOMAIN log : log[c].session # "" => SessionReconciles(log[c].session)
  BY SessionAgrees
<1>6. QED BY <1>2, <1>3, <1>4, <1>5, Zenon DEF PanelsAgree

LEMMA LogsToStartWith == StatisticsInit => IsLog(log)
BY StatisticsAssumption DEF StatisticsInit

LEMMA LogStaysALog ==
    ASSUME IsLog(log), [StatisticsNext]_log
    PROVE  IsLog(log)'
<1>1. CASE UNCHANGED log
  BY <1>1 DEF IsLog, IsCall
<1>2. ASSUME NEW c \in CallIds, NEW a \in Arrivals, CreateCall(c, a)
      PROVE  IsLog(log)'
  <2>1. c \in Nat /\ IsCall(Begun(a))
    BY <1>2, StatisticsAssumption
  <2>2. log' = [x \in DOMAIN log \cup {c} |-> IF x = c THEN Begun(a) ELSE log[x]]
    BY <1>2 DEF CreateCall
  <2>3. IsFiniteSet(DOMAIN log \cup {c})
    BY FS_AddElement DEF IsLog
  <2>4. \A x \in DOMAIN log \cup {c} : IsCall(log'[x])
    BY <2>1, <2>2 DEF IsLog
  <2>5. DOMAIN log' = DOMAIN log \cup {c} /\ DOMAIN log \subseteq Nat
    BY <2>2 DEF IsLog
  <2>6. QED BY <2>1, <2>3, <2>4, <2>5 DEF IsLog
<1>3. ASSUME NEW c \in CallIds, NEW end \in Endings, FinalizeCall(c, end)
      PROVE  IsLog(log)'
  <2>1. c \in DOMAIN log /\ log' = [log EXCEPT ![c] = Ended(log[c], end)]
    BY <1>3 DEF FinalizeCall
  <2>2. IsCall(Ended(log[c], end))
    <3>1. IsCall(log[c])
      BY <2>1 DEF IsLog
    <3>2. /\ end.status \in Nat /\ end.cost \in Nat /\ end.input \in Nat
          /\ end.cached \in Nat /\ end.output \in Nat
      BY <1>3, StatisticsAssumption
    <3>3. QED BY <3>1, <3>2 DEF IsCall, Ended, Columns
  <2>3. DOMAIN log' = DOMAIN log /\ \A x \in DOMAIN log : IsCall(log'[x])
    BY <2>1, <2>2 DEF IsLog
  <2>4. QED BY <2>3 DEF IsLog
<1>4. ASSUME NEW cutoff \in 1..Horizon, PruneCalls(cutoff)
      PROVE  IsLog(log)'
  <2>1. PICK kept : kept = {c \in DOMAIN log : log[c].ts >= cutoff}
    OBVIOUS
  <2>2. log' = [c \in kept |-> log[c]] /\ kept \subseteq DOMAIN log
    BY <1>4, <2>1 DEF PruneCalls, Restrict
  <2>3. IsFiniteSet(kept) /\ kept \subseteq Nat /\ \A c \in kept : IsCall(log[c])
    BY <2>2, FS_Subset DEF IsLog
  <2>4. QED BY <2>2, <2>3 DEF IsLog
<1>5. QED BY <1>1, <1>2, <1>3, <1>4 DEF StatisticsNext

StatisticsSpec == StatisticsInit /\ [][StatisticsNext]_log

(* Whatever calls arrive, end and are pruned, for any user, filter and window *)
(* that is asked for, the panels agree: the overview the Go code walks and the *)
(* rows the SQL counts, the breakdowns, series, feeds and lists of failures,   *)
(* the options of a filter, and a session's page and tree beside its row       *)
(* (store/stats.go, feed.go, api/handlers.go).                                 *)
THEOREM PanelsAlwaysReconcile == StatisticsSpec => []PanelsReconcile
<1>1. IsLog(log) => PanelsReconcile
  BY EveryLogAgrees DEF PanelsReconcile
<1>2. IsLog(log) /\ [StatisticsNext]_log => IsLog(log)'
  BY LogStaysALog
<1>3. QED BY <1>1, <1>2, LogsToStartWith, PTL DEF StatisticsSpec

-----------------------------------------------------------------------------
(* Migration.  A step is right because of what the steps before it have done:
   Progress(d, n) says what the schema is by step n, and WellFormed that the
   rows have the columns of their table all along.  Each step then carries
   what the database says, part by part, as long as the tables a part is read
   from keep their rows (Same).  The token counts are owed to the sessions from
   the rename of the column to the reseed (TokensOwed); a stop in between is
   what NothingIsLost leaves out. *)

MigrationSpec == MigrationInit /\ [][MigrationNext]_migrationVars

(* Old rows are in the new table, providers have keys and models costs, no key
   is left in the pool alone, and a backfilled table is empty only without
   calls. *)
Folded(d, old, new) ==
    Has(d, old) => Has(d, new) /\ DOMAIN RowsOf(d, old) \subseteq DOMAIN RowsOf(d, new)
HasKeysAndCosts(d) ==
    /\ HasColumn(d, "providers", "api_key")
    /\ \A k \in DOMAIN RowsOf(d, "provider_models") :
          "cost" \in DOMAIN RowsOf(d, "provider_models")[k]
PoolIsEmpty(d) ==
    \A p \in DOMAIN RowsOf(d, "providers") :
        RowsOf(d, "providers")[p].key = NoKey => PooledKey(d, p) = NoKey
FilledFromCalls(d, t) == DOMAIN RowsOf(d, t) = {} => DOMAIN RowsOf(d, "calls") = {}

(* What migrate has done by the time it is at step n. *)
Progress(d, n) ==
    /\ n >= 2 => ~Has(d, "services")
    /\ n >= 3 => ~Has(d, "service_models")
    /\ n = 4 => Folded(d, "service_wires", "provider_wires")
    /\ n >= 5 => ~Has(d, "service_wires")
    /\ n = 6 => Folded(d, "tokens", "users")
    /\ n >= 7 => ~Has(d, "tokens")
    /\ n = 9 => Folded(d, "payloads", "raw")
    /\ n >= 10 => ~Has(d, "payloads")
    /\ n >= 11 => (Has(d, "calls") => d["calls"].id = "TEXT")
    /\ n >= 12 => BaseTables \subseteq DOMAIN d
    /\ n >= 13 => HasKeysAndCosts(d)
    /\ n >= 15 => ~HasColumn(d, "calls", "cached_tokens")
    /\ n = 19 => PoolIsEmpty(d)
    /\ n >= 20 => ~Has(d, "service_credentials")
    /\ n >= 21 => HasColumn(d, "provider_endpoints", "endpoint")
    /\ n >= 22 => FilledFromCalls(d, "sessions")
    /\ n >= 23 => FilledFromCalls(d, "user_spend")

(* In the window of the token steps: what is still to be written. *)
TokensOwed(d, n, m) ==
    /\ n = 15 => m.input = [c \in DOMAIN RowsOf(d, "calls") |-> FreshInput(RowsOf(d, "calls")[c])]
    /\ n \in {16, 17} => m.input = InputsOf(RowsOf(d, "calls"))
    /\ m.sessions = Sums(m.input, RowsOf(d, "calls"),
                         IF DOMAIN RowsOf(d, "sessions") = {} THEN Sessions(RowsOf(d, "calls"))
                         ELSE DOMAIN RowsOf(d, "sessions"))

(* The parts of the meaning, each from the tables that hold it. *)
UsersIn(d) == DOMAIN BothRows(d, "tokens", "users")
BodiesIn(d) == DOMAIN BothRows(d, "payloads", "raw")

StableSaid(d, m) ==
    /\ m.users = UsersIn(d) /\ m.owners = OwnersIn(d) /\ m.bodies = BodiesIn(d)
    /\ m.keys = KeysIn(d) /\ m.costs = CostsIn(d) /\ m.endpoints = ReachedIn(d)
    /\ m.spend = SpendIn(d)
TokensSaid(d, m) == m.input = TokensIn(d) /\ m.sessions = SessionsIn(d)

(* The invariant: all of this at every step migrate can be at. *)
Parts == {"users", "owners", "bodies", "keys", "costs", "endpoints", "spend", "input", "sessions"}

MigrationInv ==
    /\ at \in 0..Unopened
    /\ WellFormed(db)
    /\ at \in 1..Opened => Progress(db, at)
    /\ at \in 1..19 => (hadCredPool <=> Has(db, "service_credentials"))
    /\ DOMAIN meaning = Parts
    /\ StableSaid(db, meaning)
    /\ ~cut => IF InTokenWindow THEN TokensOwed(db, at, meaning) ELSE TokensSaid(db, meaning)

(* Nothing of table t that a part of the meaning could depend on has changed. *)
Same(d, e, t) ==
    /\ RowsOf(e, t) = RowsOf(d, t)
    /\ Has(e, t) <=> Has(d, t)
    /\ \A c : HasColumn(e, t, c) <=> HasColumn(d, t, c)
    /\ Has(d, t) => e[t].id = d[t].id

LEMMA SameTable ==
    ASSUME NEW d, NEW e, NEW t, Has(e, t) <=> Has(d, t), Has(d, t) => e[t] = d[t]
    PROVE  Same(d, e, t)
BY DEF Same, RowsOf, HasColumn

LEMMA SameItself == ASSUME NEW d, NEW t PROVE Same(d, d, t)
BY DEF Same

LEMMA SetRowsFacts ==
    ASSUME NEW d, NEW t, NEW rows, NEW e, Shaped(d), Has(d, t), e = SetRows(d, t, rows)
    PROVE  /\ Shaped(e)
           /\ \A u : u # t => Same(d, e, u)
           /\ \A u : Has(e, u) <=> Has(d, u)
           /\ RowsOf(e, t) = rows
           /\ \A u, c : HasColumn(e, u, c) <=> HasColumn(d, u, c)
           /\ \A u : Has(d, u) => e[u].id = d[u].id
<1>1. /\ DOMAIN e = DOMAIN d
      /\ \A u \in DOMAIN d : u # t => e[u] = d[u]
      /\ e[t] = [d[t] EXCEPT !.rows = rows]
  BY DEF SetRows, Has
<1>2. {"cols", "id", "rows"} \subseteq DOMAIN d[t]
  BY DEF Shaped, Has
<1>3. /\ DOMAIN e[t] = DOMAIN d[t]
      /\ e[t].rows = rows /\ e[t].cols = d[t].cols /\ e[t].id = d[t].id
  BY <1>1, <1>2
<1>4. Shaped(e)
  BY <1>1, <1>3 DEF Shaped, Has
<1>5. \A u : Has(e, u) <=> Has(d, u)
  BY <1>1 DEF Has
<1>6. ASSUME NEW u, u # t PROVE Same(d, e, u)
  BY <1>1, <1>5, <1>6, SameTable DEF Has
<1>7. \A u, c : HasColumn(e, u, c) <=> HasColumn(d, u, c)
  BY <1>3, <1>5, <1>6 DEF HasColumn, Same
<1>8. \A u : Has(d, u) => e[u].id = d[u].id
  BY <1>3, <1>6 DEF Same
<1>9. QED BY <1>3, <1>4, <1>5, <1>6, <1>7, <1>8 DEF RowsOf

LEMMA SetColumnsFacts ==
    ASSUME NEW d, NEW t, NEW cols, NEW e, Shaped(d), Has(d, t), e = SetColumns(d, t, cols)
    PROVE  /\ Shaped(e)
           /\ \A u : u # t => Same(d, e, u)
           /\ \A u : Has(e, u) <=> Has(d, u)
           /\ \A u : RowsOf(e, u) = RowsOf(d, u)
           /\ \A c : HasColumn(e, t, c) <=> c \in cols
           /\ \A u : Has(d, u) => e[u].id = d[u].id
<1>1. /\ DOMAIN e = DOMAIN d
      /\ \A u \in DOMAIN d : u # t => e[u] = d[u]
      /\ e[t] = [d[t] EXCEPT !.cols = cols]
  BY DEF SetColumns, Has
<1>2. {"cols", "id", "rows"} \subseteq DOMAIN d[t]
  BY DEF Shaped, Has
<1>3. /\ DOMAIN e[t] = DOMAIN d[t]
      /\ e[t].cols = cols /\ e[t].rows = d[t].rows /\ e[t].id = d[t].id
  BY <1>1, <1>2
<1>4. Shaped(e)
  BY <1>1, <1>3 DEF Shaped, Has
<1>5. \A u : Has(e, u) <=> Has(d, u)
  BY <1>1 DEF Has
<1>6. ASSUME NEW u, u # t PROVE Same(d, e, u)
  BY <1>1, <1>5, <1>6, SameTable DEF Has
<1>7. \A u : RowsOf(e, u) = RowsOf(d, u)
  BY <1>3, <1>5, <1>6 DEF RowsOf, Same
<1>8. \A u : Has(d, u) => e[u].id = d[u].id
  BY <1>3, <1>6 DEF Same
<1>9. QED BY <1>3, <1>4, <1>5, <1>6, <1>7, <1>8 DEF HasColumn

LEMMA DropFacts ==
    ASSUME NEW d, NEW t, NEW e, Shaped(d), e = DropTable(d, t)
    PROVE  /\ Shaped(e)
           /\ \A u : u # t => Same(d, e, u)
           /\ ~Has(e, t) /\ RowsOf(e, t) = NoRows
           /\ \A u : Has(e, u) => Has(d, u)
<1>1. CASE ~Has(d, t)
  BY <1>1, SameItself DEF DropTable, RowsOf
<1>2. CASE Has(d, t)
  <2>1. DOMAIN e = DOMAIN d \ {t} /\ \A u \in DOMAIN e : e[u] = d[u]
    BY <1>2 DEF DropTable, Lacking
  <2>2. Shaped(e) /\ ~Has(e, t) /\ RowsOf(e, t) = NoRows /\ \A u : Has(e, u) => Has(d, u)
    BY <2>1 DEF Shaped, Has, RowsOf
  <2>3. ASSUME NEW u, u # t PROVE Same(d, e, u)
    BY <2>1, <2>3, SameTable DEF Has
  <2>4. QED BY <2>2, <2>3
<1>3. QED BY <1>1, <1>2

LEMMA RenameFacts ==
    ASSUME NEW d, NEW old, NEW new, NEW e, Shaped(d), old # new, e = RenameTable(d, old, new)
    PROVE  /\ Shaped(e)
           /\ \A u : u \notin {old, new} => Same(d, e, u)
           /\ ~Has(e, old) /\ RowsOf(e, old) = NoRows
           /\ ~Has(d, old) => Same(d, e, new)
           /\ Has(d, old) =>
                 /\ Has(e, new) /\ RowsOf(e, new) = RowsOf(d, old)
                 /\ \A c : HasColumn(e, new, c) <=> HasColumn(d, old, c)
<1>1. CASE ~Has(d, old)
  BY <1>1, SameItself DEF RenameTable, RowsOf
<1>2. CASE Has(d, old)
  <2>1. /\ DOMAIN e = (DOMAIN d \ {old}) \cup {new}
        /\ \A u \in DOMAIN e : e[u] = IF u = new THEN d[old] ELSE d[u]
    BY <1>2 DEF RenameTable, SetTable, Lacking
  <2>2. Shaped(e) /\ ~Has(e, old) /\ RowsOf(e, old) = NoRows
    BY <1>2, <2>1 DEF Shaped, Has, RowsOf
  <2>3. Has(e, new) /\ RowsOf(e, new) = RowsOf(d, old)
        /\ \A c : HasColumn(e, new, c) <=> HasColumn(d, old, c)
    BY <1>2, <2>1 DEF Has, RowsOf, HasColumn
  <2>4. ASSUME NEW u, u \notin {old, new} PROVE Same(d, e, u)
    BY <2>1, <2>4, SameTable DEF Has
  <2>5. QED BY <1>2, <2>2, <2>3, <2>4
<1>3. QED BY <1>1, <1>2

(* What a table and its old name hold together. *)
Either(d, old, new) == Has(d, old) \/ Has(d, new)
EitherRows(d, old, new) == DOMAIN RowsOf(d, old) \cup DOMAIN RowsOf(d, new)

LEMMA BothRowsDomain ==
    ASSUME NEW d, NEW old, NEW new
    PROVE  DOMAIN BothRows(d, old, new) = EitherRows(d, old, new)
BY DEF BothRows, Merged, EitherRows

(* Folding an old table into the new one, or renaming it, keeps the keys of
   the two; and dropping what was folded does too. *)
LEMMA FoldFacts ==
    ASSUME NEW d, NEW old, NEW new, NEW e, Shaped(d), old # new, e = FoldOrRename(d, old, new)
    PROVE  /\ Shaped(e)
           /\ \A u : u \notin {old, new} => Same(d, e, u)
           /\ Folded(e, old, new)
           /\ Either(e, old, new) <=> Either(d, old, new)
           /\ EitherRows(e, old, new) = EitherRows(d, old, new)
<1>1. CASE Has(d, old) /\ Has(d, new)
  <2>1. e = SetRows(d, new, Merged(d[new].rows, d[old].rows))
    BY <1>1 DEF FoldOrRename
  <2>2. /\ Shaped(e) /\ \A u : u # new => Same(d, e, u)
        /\ \A u : Has(e, u) <=> Has(d, u)
        /\ RowsOf(e, new) = Merged(d[new].rows, d[old].rows)
    BY <1>1, <2>1, SetRowsFacts
  <2>3. DOMAIN RowsOf(e, new) = DOMAIN RowsOf(d, new) \cup DOMAIN RowsOf(d, old)
    BY <1>1, <2>2 DEF Merged, RowsOf
  <2>4. RowsOf(e, old) = RowsOf(d, old)
    BY <2>2 DEF Same
  <2>5. QED BY <1>1, <2>2, <2>3, <2>4 DEF Folded, Either, EitherRows
<1>2. CASE Has(d, old) /\ ~Has(d, new)
  <2>1. e = RenameTable(d, old, new)
    BY <1>2 DEF FoldOrRename
  <2>2. /\ Shaped(e) /\ \A u : u \notin {old, new} => Same(d, e, u)
        /\ ~Has(e, old) /\ RowsOf(e, old) = NoRows
        /\ Has(e, new) /\ RowsOf(e, new) = RowsOf(d, old)
    BY <1>2, <2>1, RenameFacts
  <2>3. RowsOf(d, new) = NoRows
    BY <1>2 DEF RowsOf
  <2>4. QED BY <1>2, <2>2, <2>3 DEF Folded, Either, EitherRows
<1>3. CASE ~Has(d, old)
  <2>1. e = d
    BY <1>3 DEF FoldOrRename, RenameTable
  <2>2. QED BY <1>3, <2>1, SameItself DEF Folded
<1>4. QED BY <1>1, <1>2, <1>3

LEMMA DropFolded ==
    ASSUME NEW d, NEW old, NEW new, NEW e, Shaped(d), old # new, Folded(d, old, new),
           e = DropTable(d, old)
    PROVE  /\ Either(e, old, new) <=> Either(d, old, new)
           /\ EitherRows(e, old, new) = EitherRows(d, old, new)
<1>1. /\ Same(d, e, new) /\ ~Has(e, old) /\ RowsOf(e, old) = NoRows
  BY DropFacts
<1>2. ~Has(d, old) => RowsOf(d, old) = NoRows
  BY DEF RowsOf
<1>3. DOMAIN NoRows = {}
  BY DEF NoRows
<1>4. Has(d, old) => Has(d, new) /\ DOMAIN RowsOf(d, old) \subseteq DOMAIN RowsOf(d, new)
  BY DEF Folded
<1>5. RowsOf(e, new) = RowsOf(d, new) /\ (Has(e, new) <=> Has(d, new))
  BY <1>1 DEF Same
<1>6. QED BY <1>1, <1>2, <1>3, <1>4, <1>5 DEF Either, EitherRows

LEMMA UsersKept ==
    ASSUME NEW d, NEW e, EitherRows(e, "tokens", "users") = EitherRows(d, "tokens", "users")
    PROVE  UsersIn(e) = UsersIn(d)
BY BothRowsDomain DEF UsersIn

LEMMA BodiesKept ==
    ASSUME NEW d, NEW e, EitherRows(e, "payloads", "raw") = EitherRows(d, "payloads", "raw")
    PROVE  BodiesIn(e) = BodiesIn(d)
BY BothRowsDomain DEF BodiesIn

LEMMA KeysKept ==
    ASSUME NEW d, NEW e,
           RowsOf(e, "service_credentials") = RowsOf(d, "service_credentials"),
           RowsOf(e, Providers(e)) = RowsOf(d, Providers(d)),
           HasColumn(e, Providers(e), "api_key") <=> HasColumn(d, Providers(d), "api_key")
    PROVE  KeysIn(e) = KeysIn(d)
<1>1. \A p : PooledKey(e, p) = PooledKey(d, p)
  BY DEF PooledKey
<1>2. QED BY <1>1 DEF KeysIn

LEMMA CostsKept ==
    ASSUME NEW d, NEW e, RowsOf(e, Models(e)) = RowsOf(d, Models(d))
    PROVE  CostsIn(e) = CostsIn(d)
BY DEF CostsIn

LEMMA EndpointsKept ==
    ASSUME NEW d, NEW e,
           RowsOf(e, Providers(e)) = RowsOf(d, Providers(d)),
           HasBase(e, Providers(e)) <=> HasBase(d, Providers(d)),
           Either(e, "service_wires", "provider_wires") <=> Either(d, "service_wires", "provider_wires"),
           EitherRows(e, "service_wires", "provider_wires")
               = EitherRows(d, "service_wires", "provider_wires"),
           Same(d, e, "provider_endpoints")
    PROVE  ReachedIn(e) = ReachedIn(d)
<1>1. DOMAIN BothRows(e, "service_wires", "provider_wires")
          = DOMAIN BothRows(d, "service_wires", "provider_wires")
  BY BothRowsDomain
<1>2. QED BY <1>1 DEF ReachedIn, Same, Either

LEMMA SpendKept ==
    ASSUME NEW d, NEW e, RowsOf(e, "user_spend") = RowsOf(d, "user_spend"),
           RowsOf(e, "calls") = RowsOf(d, "calls")
    PROVE  SpendIn(e) = SpendIn(d)
BY DEF SpendIn

LEMMA TokensKept ==
    ASSUME NEW d, NEW e, RowsOf(e, "sessions") = RowsOf(d, "sessions"),
           RowsOf(e, "calls") = RowsOf(d, "calls"),
           HasColumn(e, "calls", "cached_tokens") <=> HasColumn(d, "calls", "cached_tokens")
    PROVE  TokensIn(e) = TokensIn(d) /\ SessionsIn(e) = SessionsIn(d)
<1>1. TokensIn(e) = TokensIn(d)
  BY DEF TokensIn
<1>2. QED BY <1>1 DEF SessionsIn

(* What the tables that a step leaves alone say, and how they are formed,
   stays as it is. *)
LEMMA SaidElsewhere ==
    ASSUME NEW d, NEW e
    PROVE  /\ Same(d, e, "tokens") /\ Same(d, e, "users") => UsersIn(e) = UsersIn(d)
           /\ Same(d, e, "calls") => OwnersIn(e) = OwnersIn(d)
           /\ Same(d, e, "payloads") /\ Same(d, e, "raw") => BodiesIn(e) = BodiesIn(d)
           /\ (Same(d, e, "services") /\ Same(d, e, "providers")
               /\ Same(d, e, "service_credentials")) => KeysIn(e) = KeysIn(d)
           /\ Same(d, e, "service_models") /\ Same(d, e, "provider_models") => CostsIn(e) = CostsIn(d)
           /\ (Same(d, e, "services") /\ Same(d, e, "providers")
               /\ Same(d, e, "service_wires") /\ Same(d, e, "provider_wires")
               /\ Same(d, e, "provider_endpoints")) => ReachedIn(e) = ReachedIn(d)
           /\ Same(d, e, "user_spend") /\ Same(d, e, "calls") => SpendIn(e) = SpendIn(d)
           /\ Same(d, e, "sessions") /\ Same(d, e, "calls") =>
                 TokensIn(e) = TokensIn(d) /\ SessionsIn(e) = SessionsIn(d)
<1>1. ASSUME NEW old, NEW new, Same(d, e, old), Same(d, e, new)
      PROVE  EitherRows(e, old, new) = EitherRows(d, old, new) /\ (Either(e, old, new) <=> Either(d, old, new))
  BY <1>1 DEF EitherRows, Either, Same
<1>2. Same(d, e, "tokens") /\ Same(d, e, "users") => UsersIn(e) = UsersIn(d)
  BY <1>1, UsersKept
<1>3. Same(d, e, "calls") => OwnersIn(e) = OwnersIn(d)
  BY DEF Same, OwnersIn
<1>4. Same(d, e, "payloads") /\ Same(d, e, "raw") => BodiesIn(e) = BodiesIn(d)
  BY <1>1, BodiesKept
<1>5. Same(d, e, "services") /\ Same(d, e, "providers") =>
          /\ RowsOf(e, Providers(e)) = RowsOf(d, Providers(d))
          /\ \A c : HasColumn(e, Providers(e), c) <=> HasColumn(d, Providers(d), c)
  BY DEF Same, Providers
<1>6. Same(d, e, "services") /\ Same(d, e, "providers") /\ Same(d, e, "service_credentials") =>
          KeysIn(e) = KeysIn(d)
  BY <1>5, KeysKept DEF Same
<1>7. Same(d, e, "service_models") /\ Same(d, e, "provider_models") => CostsIn(e) = CostsIn(d)
  BY CostsKept DEF Same, Models
<1>8. ASSUME Same(d, e, "services"), Same(d, e, "providers"), Same(d, e, "service_wires"),
             Same(d, e, "provider_wires"), Same(d, e, "provider_endpoints")
      PROVE  ReachedIn(e) = ReachedIn(d)
  <2>1. HasBase(e, Providers(e)) <=> HasBase(d, Providers(d))
    BY <1>5, <1>8 DEF HasBase
  <2>2. QED BY <1>1, <1>5, <1>8, <2>1, EndpointsKept
<1>9. Same(d, e, "user_spend") /\ Same(d, e, "calls") => SpendIn(e) = SpendIn(d)
  BY SpendKept DEF Same
<1>10. Same(d, e, "sessions") /\ Same(d, e, "calls") =>
           TokensIn(e) = TokensIn(d) /\ SessionsIn(e) = SessionsIn(d)
  BY TokensKept DEF Same
<1>11. QED BY <1>2, <1>3, <1>4, <1>6, <1>7, <1>8, <1>9, <1>10

LEMMA FormedElsewhere ==
    ASSUME NEW d, NEW e, WellFormed(d)
    PROVE  /\ (Same(d, e, "services") /\ Same(d, e, "providers")
               /\ Same(d, e, "service_models") /\ Same(d, e, "provider_models")) => RenamedOnce(e)
           /\ Same(d, e, "services") /\ Same(d, e, "providers") => ProvidersOK(e)
           /\ Same(d, e, "service_models") /\ Same(d, e, "provider_models") => ModelsOK(e)
           /\ Same(d, e, "calls") => CallsOK(e)
           /\ Same(d, e, "sessions") /\ Same(d, e, "calls") => NumberedOK(e)
           /\ (Same(d, e, "services") /\ Same(d, e, "providers")
               /\ Same(d, e, "service_wires") /\ Same(d, e, "provider_wires")) => WiresOK(e)
<1>1. ASSUME Same(d, e, "services"), Same(d, e, "providers"),
             Same(d, e, "service_models"), Same(d, e, "provider_models")
      PROVE  RenamedOnce(e)
  <2>1. RenamedOnce(d)
    BY DEF WellFormed
  <2>2. QED BY <1>1, <2>1 DEF Same, RenamedOnce
<1>2. ASSUME Same(d, e, "services"), Same(d, e, "providers") PROVE ProvidersOK(e)
  <2> SUFFICES ASSUME NEW t \in {"services", "providers"}, NEW p \in DOMAIN RowsOf(e, t)
               PROVE  /\ "key" \in DOMAIN RowsOf(e, t)[p] <=> HasColumn(e, t, "api_key")
                      /\ HasBase(e, t) => {"base", "adapter"} \subseteq DOMAIN RowsOf(e, t)[p]
    BY DEF ProvidersOK
  <2>1. RowsOf(e, t) = RowsOf(d, t) /\ \A c : HasColumn(e, t, c) <=> HasColumn(d, t, c)
    BY <1>2 DEF Same
  <2>2. QED BY <2>1 DEF HasBase, WellFormed, ProvidersOK
<1>3. Same(d, e, "service_models") /\ Same(d, e, "provider_models") => ModelsOK(e)
  BY DEF Same, WellFormed, ModelsOK
<1>4. Same(d, e, "calls") => CallsOK(e)
  BY DEF Same, WellFormed, CallsOK
<1>5. ASSUME Same(d, e, "sessions"), Same(d, e, "calls") PROVE NumberedOK(e)
  <2>1. /\ RowsOf(e, "calls") = RowsOf(d, "calls") /\ RowsOf(e, "sessions") = RowsOf(d, "sessions")
        /\ Numbered(e) <=> Numbered(d)
    BY <1>5 DEF Same, Numbered
  <2>2. QED BY <2>1 DEF WellFormed, NumberedOK
<1>6. ASSUME Same(d, e, "services"), Same(d, e, "providers"), Same(d, e, "service_wires"),
             Same(d, e, "provider_wires")
      PROVE  WiresOK(e)
  <2>1. /\ RowsOf(e, Providers(e)) = RowsOf(d, Providers(d))
        /\ HasBase(e, Providers(e)) <=> HasBase(d, Providers(d))
    BY <1>6 DEF Same, Providers, HasBase
  <2>2. \A t \in {"service_wires", "provider_wires"} : RowsOf(e, t) = RowsOf(d, t)
    BY <1>6 DEF Same
  <2>3. QED BY <2>1, <2>2 DEF WellFormed, WiresOK
<1>7. QED BY <1>1, <1>2, <1>3, <1>4, <1>5, <1>6

(* Two databases that say the same, in the parts no token step touches and in
   the token counts. *)
StableAlike(d, e) ==
    /\ UsersIn(e) = UsersIn(d) /\ OwnersIn(e) = OwnersIn(d) /\ BodiesIn(e) = BodiesIn(d)
    /\ KeysIn(e) = KeysIn(d) /\ CostsIn(e) = CostsIn(d) /\ ReachedIn(e) = ReachedIn(d)
    /\ SpendIn(e) = SpendIn(d)
TokensAlike(d, e) == TokensIn(e) = TokensIn(d) /\ SessionsIn(e) = SessionsIn(d)

(* What a step at n owes; and as long as migrate remembers whether there was a
   credential pool. *)
SaysTheSame(d, e, n) ==
    WellFormed(e) /\ Progress(e, n + 1) /\ StableAlike(d, e) /\ TokensAlike(d, e)
Carries(d, e, n) ==
    SaysTheSame(d, e, n) /\ (Has(e, "service_credentials") <=> Has(d, "service_credentials"))

LEMMA RenameProviders ==
    ASSUME NEW d, NEW e, WellFormed(d), Progress(d, 1), e = RenameTable(d, "services", "providers")
    PROVE  Carries(d, e, 1)
<1>1. CASE ~Has(d, "services")
  <2>1. e = d
    BY <1>1 DEF RenameTable
  <2>2. Progress(e, 1 + 1)
    BY <1>1, <2>1 DEF Progress
  <2>3. QED BY <2>1, <2>2 DEF Carries, SaysTheSame, StableAlike, TokensAlike
<1>2. CASE Has(d, "services")
  <2> DEFINE T == {"services", "providers"}
  <2>1. /\ Shaped(e) /\ \A u : u \notin T => Same(d, e, u)
        /\ ~Has(e, "services") /\ RowsOf(e, "services") = NoRows
        /\ Has(e, "providers") /\ RowsOf(e, "providers") = RowsOf(d, "services")
        /\ \A c : HasColumn(e, "providers", c) <=> HasColumn(d, "services", c)
    BY <1>2, RenameFacts DEF WellFormed
  <2>2. Providers(e) = "providers" /\ Providers(d) = "services"
    BY <1>2, <2>1 DEF Providers
  <2>3. /\ RowsOf(e, Providers(e)) = RowsOf(d, Providers(d))
        /\ HasBase(e, Providers(e)) <=> HasBase(d, Providers(d))
        /\ HasColumn(e, Providers(e), "api_key") <=> HasColumn(d, Providers(d), "api_key")
    BY <2>1, <2>2 DEF HasBase
  <2>5. /\ UsersIn(e) = UsersIn(d) /\ OwnersIn(e) = OwnersIn(d) /\ BodiesIn(e) = BodiesIn(d)
        /\ CostsIn(e) = CostsIn(d) /\ SpendIn(e) = SpendIn(d) /\ TokensAlike(d, e)
    BY <2>1, SaidElsewhere DEF TokensAlike
  <2>6. KeysIn(e) = KeysIn(d)
    <3>1. RowsOf(e, "service_credentials") = RowsOf(d, "service_credentials")
      BY <2>1 DEF Same
    <3>2. QED BY <2>3, <3>1, KeysKept
  <2>7. Same(d, e, "service_wires") /\ Same(d, e, "provider_wires") /\ Same(d, e, "provider_endpoints")
    BY <2>1
  <2>8. ReachedIn(e) = ReachedIn(d)
    <3>1. /\ Either(e, "service_wires", "provider_wires") <=> Either(d, "service_wires", "provider_wires")
          /\ EitherRows(e, "service_wires", "provider_wires")
                 = EitherRows(d, "service_wires", "provider_wires")
      BY <2>7 DEF Same, Either, EitherRows
    <3>2. QED BY <2>3, <2>7, <3>1, EndpointsKept
  <2>9. ModelsOK(e) /\ CallsOK(e) /\ NumberedOK(e)
    BY <2>1, FormedElsewhere
  <2>10. RenamedOnce(e)
    <3>1. Same(d, e, "service_models") /\ Same(d, e, "provider_models")
      BY <2>1
    <3>2. QED BY <2>1, <3>1 DEF Same, WellFormed, RenamedOnce
  <2>11. ProvidersOK(e)
    <3>1. ASSUME NEW p \in DOMAIN RowsOf(e, "providers")
          PROVE  /\ "key" \in DOMAIN RowsOf(e, "providers")[p] <=> HasColumn(e, "providers", "api_key")
                 /\ HasBase(e, "providers") =>
                       {"base", "adapter"} \subseteq DOMAIN RowsOf(e, "providers")[p]
      BY <2>1 DEF WellFormed, ProvidersOK, HasBase
    <3>2. DOMAIN RowsOf(e, "services") = {}
      BY <2>1 DEF NoRows
    <3>3. QED BY <3>1, <3>2 DEF ProvidersOK
  <2>12. WiresOK(e)
    <3>1. \A t \in {"service_wires", "provider_wires"} : RowsOf(e, t) = RowsOf(d, t)
      BY <2>7 DEF Same
    <3>2. QED BY <2>3, <3>1 DEF WellFormed, WiresOK
  <2>13. Has(e, "service_credentials") <=> Has(d, "service_credentials")
    BY <2>1 DEF Same
  <2>14. Progress(e, 1 + 1)
    BY <2>1 DEF Progress
  <2>15. QED
    BY <2>1, <2>5, <2>6, <2>8, <2>9, <2>10, <2>11, <2>12, <2>13, <2>14
    DEF Carries, SaysTheSame, StableAlike, WellFormed
<1>3. QED BY <1>1, <1>2

LEMMA RenameModels ==
    ASSUME NEW d, NEW e, WellFormed(d), Progress(d, 2),
           e = RenameTable(d, "service_models", "provider_models")
    PROVE  Carries(d, e, 2)
<1>1. ~Has(d, "services")
  BY DEF Progress
<1>2. CASE ~Has(d, "service_models")
  <2>1. e = d
    BY <1>2 DEF RenameTable
  <2>2. Progress(e, 2 + 1)
    BY <1>1, <1>2, <2>1 DEF Progress
  <2>3. QED BY <2>1, <2>2 DEF Carries, SaysTheSame, StableAlike, TokensAlike
<1>3. CASE Has(d, "service_models")
  <2> DEFINE T == {"service_models", "provider_models"}
  <2>1. /\ Shaped(e) /\ \A u : u \notin T => Same(d, e, u)
        /\ ~Has(e, "service_models") /\ RowsOf(e, "service_models") = NoRows
        /\ Has(e, "provider_models") /\ RowsOf(e, "provider_models") = RowsOf(d, "service_models")
    BY <1>3, RenameFacts DEF WellFormed
  <2>3. /\ UsersIn(e) = UsersIn(d) /\ OwnersIn(e) = OwnersIn(d) /\ BodiesIn(e) = BodiesIn(d)
        /\ KeysIn(e) = KeysIn(d) /\ ReachedIn(e) = ReachedIn(d)
        /\ SpendIn(e) = SpendIn(d) /\ TokensAlike(d, e)
    BY <2>1, SaidElsewhere DEF TokensAlike
  <2>4. CostsIn(e) = CostsIn(d)
    BY <1>3, <2>1, CostsKept DEF Models
  <2>5. ProvidersOK(e) /\ CallsOK(e) /\ NumberedOK(e) /\ WiresOK(e)
    BY <2>1, FormedElsewhere
  <2>6. RenamedOnce(e) /\ (Has(e, "services") <=> Has(d, "services"))
        /\ (Has(e, "service_credentials") <=> Has(d, "service_credentials"))
    <3>1. Same(d, e, "services") /\ Same(d, e, "providers") /\ Same(d, e, "service_credentials")
      BY <2>1
    <3>2. QED BY <2>1, <3>1 DEF Same, WellFormed, RenamedOnce
  <2>7. ModelsOK(e)
    <3>1. ASSUME NEW k \in DOMAIN RowsOf(e, "provider_models")
          PROVE  {"unit", "rate"} \subseteq DOMAIN RowsOf(e, "provider_models")[k]
      BY <2>1 DEF WellFormed, ModelsOK
    <3>2. DOMAIN RowsOf(e, "service_models") = {}
      BY <2>1 DEF NoRows
    <3>3. QED BY <3>1, <3>2 DEF ModelsOK
  <2>8. Progress(e, 2 + 1)
    BY <1>1, <2>1, <2>6 DEF Progress
  <2>9. QED BY <2>1, <2>3, <2>4, <2>5, <2>6, <2>7, <2>8 DEF Carries, SaysTheSame, StableAlike, WellFormed
<1>4. QED BY <1>2, <1>3

(* Two names of one table are folded, and then the old one goes; either way the
   keys of the two together are what they were. *)
Alike(d, e, old, new) ==
    /\ Shaped(e)
    /\ \A u : u \notin {old, new} => Same(d, e, u)
    /\ Either(e, old, new) <=> Either(d, old, new)
    /\ EitherRows(e, old, new) = EitherRows(d, old, new)

LEMMA FoldIsAlike ==
    ASSUME NEW d, NEW old, NEW new, NEW e, WellFormed(d), old # new, e = FoldOrRename(d, old, new)
    PROVE  Alike(d, e, old, new) /\ Folded(e, old, new)
BY FoldFacts DEF WellFormed, Alike

LEMMA DropIsAlike ==
    ASSUME NEW d, NEW old, NEW new, NEW e, WellFormed(d), old # new, Folded(d, old, new),
           e = DropTable(d, old)
    PROVE  Alike(d, e, old, new) /\ ~Has(e, old)
BY DropFolded, DropFacts DEF WellFormed, Alike

LEMMA WiresCarry ==
    ASSUME NEW d, NEW e, WellFormed(d), Alike(d, e, "service_wires", "provider_wires")
    PROVE  /\ WellFormed(e) /\ StableAlike(d, e) /\ TokensAlike(d, e)
           /\ Has(e, "service_credentials") <=> Has(d, "service_credentials")
<1> DEFINE T == {"service_wires", "provider_wires"}
<1>1. \A u : u \notin T => Same(d, e, u)
  BY DEF Alike
<1>3. /\ UsersIn(e) = UsersIn(d) /\ OwnersIn(e) = OwnersIn(d) /\ BodiesIn(e) = BodiesIn(d)
      /\ KeysIn(e) = KeysIn(d) /\ CostsIn(e) = CostsIn(d)
      /\ SpendIn(e) = SpendIn(d) /\ TokensAlike(d, e)
  BY <1>1, SaidElsewhere DEF TokensAlike
<1>4. RenamedOnce(e) /\ ProvidersOK(e) /\ ModelsOK(e) /\ CallsOK(e) /\ NumberedOK(e)
  BY <1>1, FormedElsewhere
<1>5. /\ Same(d, e, "services") /\ Same(d, e, "providers") /\ Same(d, e, "provider_endpoints")
      /\ Same(d, e, "service_credentials")
  BY <1>1
<1>6. /\ RowsOf(e, Providers(e)) = RowsOf(d, Providers(d))
      /\ HasBase(e, Providers(e)) <=> HasBase(d, Providers(d))
  BY <1>5 DEF Same, Providers, HasBase
<1>7. ReachedIn(e) = ReachedIn(d)
  BY <1>5, <1>6, EndpointsKept DEF Alike
<1>8. WiresOK(e)
  <2> SUFFICES ASSUME HasBase(e, Providers(e)), NEW t \in T, NEW k \in DOMAIN RowsOf(e, t)
               PROVE  k[1] \in DOMAIN RowsOf(e, Providers(e))
    BY DEF WiresOK
  <2>1. k \in EitherRows(d, "service_wires", "provider_wires")
    BY DEF EitherRows, Alike
  <2>2. PICK u \in T : k \in DOMAIN RowsOf(d, u)
    BY <2>1 DEF EitherRows
  <2>3. QED BY <1>6, <2>2 DEF WellFormed, WiresOK
<1>9. QED BY <1>3, <1>4, <1>5, <1>7, <1>8 DEF StableAlike, WellFormed, Alike, Same

LEMMA FoldWires ==
    ASSUME NEW d, NEW e, WellFormed(d), Progress(d, 3),
           e = FoldOrRename(d, "service_wires", "provider_wires")
    PROVE  Carries(d, e, 3)
<1>1. Alike(d, e, "service_wires", "provider_wires") /\ Folded(e, "service_wires", "provider_wires")
  BY FoldIsAlike
<1>2. Same(d, e, "services") /\ Same(d, e, "service_models")
  BY <1>1 DEF Alike
<1>3. Progress(e, 3 + 1)
  BY <1>1, <1>2 DEF Progress, Same
<1>4. QED BY <1>1, <1>3, WiresCarry DEF Carries, SaysTheSame

LEMMA DropWires ==
    ASSUME NEW d, NEW e, WellFormed(d), Progress(d, 4), e = DropTable(d, "service_wires")
    PROVE  Carries(d, e, 4)
<1>1. Folded(d, "service_wires", "provider_wires")
  BY DEF Progress
<1>2. Alike(d, e, "service_wires", "provider_wires") /\ ~Has(e, "service_wires")
  BY <1>1, DropIsAlike
<1>3. Same(d, e, "services") /\ Same(d, e, "service_models")
  BY <1>2 DEF Alike
<1>4. Progress(e, 4 + 1)
  BY <1>2, <1>3 DEF Progress, Same
<1>5. QED BY <1>2, <1>4, WiresCarry DEF Carries, SaysTheSame

LEMMA UsersCarry ==
    ASSUME NEW d, NEW e, WellFormed(d), Alike(d, e, "tokens", "users")
    PROVE  /\ WellFormed(e) /\ StableAlike(d, e) /\ TokensAlike(d, e)
           /\ Has(e, "service_credentials") <=> Has(d, "service_credentials")
<1>1. \A u : u \notin {"tokens", "users"} => Same(d, e, u)
  BY DEF Alike
<1>2. /\ OwnersIn(e) = OwnersIn(d) /\ BodiesIn(e) = BodiesIn(d) /\ KeysIn(e) = KeysIn(d)
      /\ CostsIn(e) = CostsIn(d) /\ ReachedIn(e) = ReachedIn(d)
      /\ SpendIn(e) = SpendIn(d) /\ TokensAlike(d, e)
  BY <1>1, SaidElsewhere DEF TokensAlike
<1>3. RenamedOnce(e) /\ ProvidersOK(e) /\ ModelsOK(e) /\ CallsOK(e) /\ NumberedOK(e) /\ WiresOK(e)
  BY <1>1, FormedElsewhere
<1>4. UsersIn(e) = UsersIn(d)
  BY UsersKept DEF Alike
<1>5. Same(d, e, "service_credentials")
  BY <1>1
<1>6. QED BY <1>2, <1>3, <1>4, <1>5 DEF StableAlike, WellFormed, Alike, Same

LEMMA BodiesCarry ==
    ASSUME NEW d, NEW e, WellFormed(d), Alike(d, e, "payloads", "raw")
    PROVE  /\ WellFormed(e) /\ StableAlike(d, e) /\ TokensAlike(d, e)
           /\ Has(e, "service_credentials") <=> Has(d, "service_credentials")
<1>1. \A u : u \notin {"payloads", "raw"} => Same(d, e, u)
  BY DEF Alike
<1>2. /\ UsersIn(e) = UsersIn(d) /\ OwnersIn(e) = OwnersIn(d) /\ KeysIn(e) = KeysIn(d)
      /\ CostsIn(e) = CostsIn(d) /\ ReachedIn(e) = ReachedIn(d)
      /\ SpendIn(e) = SpendIn(d) /\ TokensAlike(d, e)
  BY <1>1, SaidElsewhere DEF TokensAlike
<1>3. RenamedOnce(e) /\ ProvidersOK(e) /\ ModelsOK(e) /\ CallsOK(e) /\ NumberedOK(e) /\ WiresOK(e)
  BY <1>1, FormedElsewhere
<1>4. BodiesIn(e) = BodiesIn(d)
  BY BodiesKept DEF Alike
<1>5. Same(d, e, "service_credentials")
  BY <1>1
<1>6. QED BY <1>2, <1>3, <1>4, <1>5 DEF StableAlike, WellFormed, Alike, Same

LEMMA FoldUsers ==
    ASSUME NEW d, NEW e, WellFormed(d), Progress(d, 5), e = FoldOrRename(d, "tokens", "users")
    PROVE  Carries(d, e, 5)
<1>1. Alike(d, e, "tokens", "users") /\ Folded(e, "tokens", "users")
  BY FoldIsAlike
<1>2. Same(d, e, "services") /\ Same(d, e, "service_models") /\ Same(d, e, "service_wires")
  BY <1>1 DEF Alike
<1>3. Progress(e, 5 + 1)
  BY <1>1, <1>2 DEF Progress, Same
<1>4. QED BY <1>1, <1>3, UsersCarry DEF Carries, SaysTheSame

LEMMA DropTokens ==
    ASSUME NEW d, NEW e, WellFormed(d), Progress(d, 6), e = DropTable(d, "tokens")
    PROVE  Carries(d, e, 6)
<1>1. Folded(d, "tokens", "users")
  BY DEF Progress
<1>2. Alike(d, e, "tokens", "users") /\ ~Has(e, "tokens")
  BY <1>1, DropIsAlike
<1>3. Same(d, e, "services") /\ Same(d, e, "service_models") /\ Same(d, e, "service_wires")
  BY <1>2 DEF Alike
<1>4. Progress(e, 6 + 1)
  BY <1>2, <1>3 DEF Progress, Same
<1>5. QED BY <1>2, <1>4, UsersCarry DEF Carries, SaysTheSame

LEMMA FoldBodies ==
    ASSUME NEW d, NEW e, WellFormed(d), Progress(d, 8), e = FoldOrRename(d, "payloads", "raw")
    PROVE  Carries(d, e, 8)
<1>1. Alike(d, e, "payloads", "raw") /\ Folded(e, "payloads", "raw")
  BY FoldIsAlike
<1>2. Same(d, e, "services") /\ Same(d, e, "service_models") /\ Same(d, e, "service_wires")
      /\ Same(d, e, "tokens")
  BY <1>1 DEF Alike
<1>3. Progress(e, 8 + 1)
  BY <1>1, <1>2 DEF Progress, Same
<1>4. QED BY <1>1, <1>3, BodiesCarry DEF Carries, SaysTheSame

LEMMA DropPayloads ==
    ASSUME NEW d, NEW e, WellFormed(d), Progress(d, 9), e = DropTable(d, "payloads")
    PROVE  Carries(d, e, 9)
<1>1. Folded(d, "payloads", "raw")
  BY DEF Progress
<1>2. Alike(d, e, "payloads", "raw") /\ ~Has(e, "payloads")
  BY <1>1, DropIsAlike
<1>3. Same(d, e, "services") /\ Same(d, e, "service_models") /\ Same(d, e, "service_wires")
      /\ Same(d, e, "tokens")
  BY <1>2 DEF Alike
<1>4. Progress(e, 9 + 1)
  BY <1>2, <1>3 DEF Progress, Same
<1>5. QED BY <1>2, <1>4, BodiesCarry DEF Carries, SaysTheSame

(* The columns of calls change; the rows, and whether the old name of the
   cache-read column is there, do not. *)
ColumnsAlike(d, e) ==
    /\ Shaped(e)
    /\ \A u : u # "calls" => Same(d, e, u)
    /\ RowsOf(e, "calls") = RowsOf(d, "calls") /\ (Has(e, "calls") <=> Has(d, "calls"))
    /\ HasColumn(e, "calls", "cached_tokens") <=> HasColumn(d, "calls", "cached_tokens")
    /\ Has(d, "calls") => e["calls"].id = d["calls"].id

LEMMA ColumnsCarry ==
    ASSUME NEW d, NEW e, WellFormed(d), ColumnsAlike(d, e)
    PROVE  /\ WellFormed(e) /\ StableAlike(d, e) /\ TokensAlike(d, e)
           /\ Has(e, "service_credentials") <=> Has(d, "service_credentials")
<1>1. /\ \A u : u # "calls" => Same(d, e, u)
      /\ RowsOf(e, "calls") = RowsOf(d, "calls")
  BY DEF ColumnsAlike
<1>2. /\ UsersIn(e) = UsersIn(d) /\ BodiesIn(e) = BodiesIn(d) /\ KeysIn(e) = KeysIn(d)
      /\ CostsIn(e) = CostsIn(d) /\ ReachedIn(e) = ReachedIn(d)
  BY <1>1, SaidElsewhere
<1>3. RenamedOnce(e) /\ ProvidersOK(e) /\ ModelsOK(e) /\ WiresOK(e)
  BY <1>1, FormedElsewhere
<1>4. /\ RowsOf(e, "sessions") = RowsOf(d, "sessions")
      /\ RowsOf(e, "user_spend") = RowsOf(d, "user_spend")
      /\ Has(e, "service_credentials") <=> Has(d, "service_credentials")
  <2>1. Same(d, e, "sessions") /\ Same(d, e, "user_spend") /\ Same(d, e, "service_credentials")
    BY <1>1
  <2>2. QED BY <2>1 DEF Same
<1>5. OwnersIn(e) = OwnersIn(d)
  BY <1>1 DEF OwnersIn
<1>6. SpendIn(e) = SpendIn(d)
  BY <1>1, <1>4, SpendKept
<1>7. TokensAlike(d, e)
  BY <1>1, <1>4, TokensKept DEF TokensAlike, ColumnsAlike
<1>8. CallsOK(e)
  BY <1>1 DEF WellFormed, CallsOK
<1>9. NumberedOK(e)
  <2>1. Numbered(e) => Numbered(d)
    BY DEF Numbered, ColumnsAlike
  <2>2. QED BY <1>1, <1>4, <2>1 DEF WellFormed, NumberedOK
<1>10. QED BY <1>2, <1>3, <1>4, <1>5, <1>6, <1>7, <1>8, <1>9 DEF StableAlike, WellFormed, ColumnsAlike

LEMMA RenameColumnFacts ==
    ASSUME NEW d, NEW old, NEW new, NEW e, Shaped(d), e = RenameColumn(d, "calls", old, new)
    PROVE  /\ Shaped(e)
           /\ \A u : u # "calls" => Same(d, e, u)
           /\ RowsOf(e, "calls") = RowsOf(d, "calls") /\ (Has(e, "calls") <=> Has(d, "calls"))
           /\ \A c : c \notin {old, new} => (HasColumn(e, "calls", c) <=> HasColumn(d, "calls", c))
           /\ old # new => ~HasColumn(e, "calls", old)
           /\ Has(d, "calls") => e["calls"].id = d["calls"].id
<1>1. CASE ~HasColumn(d, "calls", old)
  BY <1>1, SameItself DEF RenameColumn
<1>2. CASE HasColumn(d, "calls", old)
  <2>1. PICK cols : cols = (d["calls"].cols \ {old}) \cup {new}
    OBVIOUS
  <2>2. e = SetColumns(d, "calls", cols) /\ Has(d, "calls")
    BY <1>2, <2>1 DEF RenameColumn, HasColumn
  <2>3. /\ Shaped(e)
        /\ \A u : u # "calls" => Same(d, e, u)
        /\ \A u : Has(e, u) <=> Has(d, u)
        /\ \A u : RowsOf(e, u) = RowsOf(d, u)
        /\ \A c : HasColumn(e, "calls", c) <=> c \in cols
        /\ \A u : Has(d, u) => e[u].id = d[u].id
    BY <2>2, SetColumnsFacts
  <2>4. \A c : HasColumn(d, "calls", c) <=> c \in d["calls"].cols
    BY <2>2 DEF HasColumn
  <2>5. QED BY <2>1, <2>3, <2>4
<1>3. QED BY <1>1, <1>2

LEMMA RenameTokenID ==
    ASSUME NEW d, NEW e, WellFormed(d), Progress(d, 7),
           e = RenameColumn(d, "calls", "token_id", "user_id")
    PROVE  Carries(d, e, 7)
<1>1. ColumnsAlike(d, e)
  BY RenameColumnFacts DEF WellFormed, ColumnsAlike
<1>2. Same(d, e, "services") /\ Same(d, e, "service_models") /\ Same(d, e, "service_wires")
      /\ Same(d, e, "tokens")
  BY <1>1 DEF ColumnsAlike
<1>3. Progress(e, 7 + 1)
  BY <1>2 DEF Progress, Same
<1>4. QED BY <1>1, <1>3, ColumnsCarry DEF Carries, SaysTheSame

LEMMA RetypedFacts ==
    ASSUME NEW d, NEW t, NEW e, Shaped(d), e = Retyped(d, t)
    PROVE  /\ Shaped(e)
           /\ \A u : u # t => Same(d, e, u)
           /\ \A u : RowsOf(e, u) = RowsOf(d, u) /\ (Has(e, u) <=> Has(d, u))
           /\ \A u, c : HasColumn(e, u, c) <=> HasColumn(d, u, c)
           /\ Has(d, t) => e[t].id = "TEXT"
<1>1. CASE ~Has(d, t)
  BY <1>1, SameItself DEF Retyped
<1>2. CASE Has(d, t)
  <2>1. /\ DOMAIN e = DOMAIN d
        /\ \A u \in DOMAIN d : u # t => e[u] = d[u]
        /\ e[t] = [d[t] EXCEPT !.id = "TEXT"]
    BY <1>2 DEF Retyped, Has
  <2>2. {"cols", "id", "rows"} \subseteq DOMAIN d[t]
    BY <1>2 DEF Shaped, Has
  <2>3. /\ DOMAIN e[t] = DOMAIN d[t]
        /\ e[t].rows = d[t].rows /\ e[t].cols = d[t].cols /\ e[t].id = "TEXT"
    BY <2>1, <2>2
  <2>4. Shaped(e)
    BY <1>2, <2>1, <2>3 DEF Shaped, Has
  <2>5. \A u : Has(e, u) <=> Has(d, u)
    BY <2>1 DEF Has
  <2>6. ASSUME NEW u, u # t PROVE Same(d, e, u)
    BY <2>1, <2>5, <2>6, SameTable DEF Has
  <2>7. \A u : RowsOf(e, u) = RowsOf(d, u)
    BY <2>3, <2>5, <2>6 DEF RowsOf, Same
  <2>8. \A u, c : HasColumn(e, u, c) <=> HasColumn(d, u, c)
    BY <2>3, <2>5, <2>6 DEF HasColumn, Same
  <2>9. QED BY <2>3, <2>4, <2>5, <2>6, <2>7, <2>8
<1>3. QED BY <1>1, <1>2

LEMMA FreshOfUncached ==
    ASSUME NEW r, r.input \in Nat, r.cached = 0
    PROVE  FreshInput(r) = r.input
<1>1. PICK n \in Nat : n = r.input
  OBVIOUS
<1>2. n \in {0, n} /\ \A y \in {0, n} : n >= y
  OBVIOUS
<1>3. \A x \in {0, n} : (\A y \in {0, n} : x >= y) => x = n
  OBVIOUS
<1>4. Max({0, n}) = n
  BY <1>2, <1>3 DEF Max
<1>5. FreshInput(r) = Max({0, n - 0})
  BY <1>1 DEF FreshInput
<1>6. n - 0 = n
  OBVIOUS
<1>7. QED BY <1>1, <1>4, <1>5, <1>6

LEMMA CallsToUUID ==
    ASSUME NEW d, NEW e, WellFormed(d), Progress(d, 10), e = MigrateCallsToUUID(d)
    PROVE  Carries(d, e, 10)
<1>1. CASE ~(Has(d, "calls") /\ d["calls"].id # "TEXT")
  <2>1. e = d
    BY <1>1 DEF MigrateCallsToUUID
  <2>2. Progress(e, 10 + 1)
    BY <1>1, <2>1 DEF Progress
  <2>3. QED BY <2>1, <2>2 DEF Carries, SaysTheSame, StableAlike, TokensAlike
<1>2. CASE Has(d, "calls") /\ d["calls"].id # "TEXT"
  <2>1. PICK d1 : d1 = Retyped(d, "calls")
    OBVIOUS
  <2>2. PICK d2 : d2 = Retyped(d1, "raw")
    OBVIOUS
  <2>3. PICK d3 : d3 = Retyped(d2, "context_composition")
    OBVIOUS
  <2>4. /\ Shaped(d1) /\ \A u : u # "calls" => Same(d, d1, u)
        /\ \A u : RowsOf(d1, u) = RowsOf(d, u) /\ (Has(d1, u) <=> Has(d, u))
        /\ \A u, c : HasColumn(d1, u, c) <=> HasColumn(d, u, c)
        /\ d1["calls"].id = "TEXT"
    BY <1>2, <2>1, RetypedFacts DEF WellFormed
  <2>5. /\ Shaped(d2) /\ \A u : u # "raw" => Same(d1, d2, u)
        /\ \A u : RowsOf(d2, u) = RowsOf(d, u) /\ (Has(d2, u) <=> Has(d, u))
        /\ \A u, c : HasColumn(d2, u, c) <=> HasColumn(d, u, c)
    BY <2>2, <2>4, RetypedFacts
  <2>6. /\ Shaped(d3) /\ \A u : u # "context_composition" => Same(d2, d3, u)
        /\ \A u : RowsOf(d3, u) = RowsOf(d, u) /\ (Has(d3, u) <=> Has(d, u))
        /\ \A u, c : HasColumn(d3, u, c) <=> HasColumn(d, u, c)
    BY <2>3, <2>5, RetypedFacts
  <2>7. d3["calls"].id = "TEXT"
    <3>1. Same(d1, d2, "calls") /\ Same(d2, d3, "calls")
      BY <2>5, <2>6
    <3>2. QED BY <1>2, <2>4, <2>5, <3>1 DEF Same
  <2>8. PICK cols : cols = d3["calls"].cols \cup {"cached_tokens"}
    OBVIOUS
  <2>9. e = SetColumns(d3, "calls", cols) /\ Has(d3, "calls")
    BY <1>2, <2>1, <2>2, <2>3, <2>6, <2>8 DEF MigrateCallsToUUID, AddColumn
  <2>10. /\ Shaped(e) /\ \A u : u # "calls" => Same(d3, e, u)
         /\ \A u : RowsOf(e, u) = RowsOf(d, u) /\ (Has(e, u) <=> Has(d, u))
         /\ HasColumn(e, "calls", "cached_tokens")
         /\ e["calls"].id = "TEXT"
    <3>1. /\ Shaped(e)
          /\ \A u : u # "calls" => Same(d3, e, u)
          /\ \A u : Has(e, u) <=> Has(d3, u)
          /\ \A u : RowsOf(e, u) = RowsOf(d3, u)
          /\ \A c : HasColumn(e, "calls", c) <=> c \in cols
          /\ \A u : Has(d3, u) => e[u].id = d3[u].id
      BY <2>6, <2>9, SetColumnsFacts
    <3>2. QED BY <2>6, <2>7, <2>8, <2>9, <3>1
  <2>11. \A u : u \notin {"calls", "raw", "context_composition"} => Same(d, e, u)
    <3> SUFFICES ASSUME NEW u, u \notin {"calls", "raw", "context_composition"} PROVE Same(d, e, u)
      OBVIOUS
    <3>1. Same(d, d1, u) /\ Same(d1, d2, u) /\ Same(d2, d3, u) /\ Same(d3, e, u)
      BY <2>4, <2>5, <2>6, <2>10
    <3>2. QED BY <3>1 DEF Same
  <2>12. /\ UsersIn(e) = UsersIn(d) /\ KeysIn(e) = KeysIn(d)
         /\ CostsIn(e) = CostsIn(d) /\ ReachedIn(e) = ReachedIn(d)
    BY <2>11, SaidElsewhere
  <2>13. RenamedOnce(e) /\ ProvidersOK(e) /\ ModelsOK(e) /\ WiresOK(e)
    BY <2>11, FormedElsewhere
  <2>14. OwnersIn(e) = OwnersIn(d) /\ SpendIn(e) = SpendIn(d) /\ BodiesIn(e) = BodiesIn(d)
    BY <2>10, SpendKept, BodiesKept DEF OwnersIn, EitherRows
  <2>15. CallsOK(e)
    BY <2>10 DEF WellFormed, CallsOK
  <2>16. NumberedOK(e)
    BY <2>10 DEF NumberedOK, Numbered
  <2>17. TokensAlike(d, e)
    <3>1. CASE HasColumn(d, "calls", "cached_tokens")
      BY <2>10, <3>1, TokensKept DEF TokensAlike
    <3>2. CASE ~HasColumn(d, "calls", "cached_tokens")
      <4>1. /\ DOMAIN RowsOf(d, "sessions") = {}
            /\ \A c \in DOMAIN RowsOf(d, "calls") :
                  RowsOf(d, "calls")[c].input \in Nat /\ RowsOf(d, "calls")[c].cached = 0
        BY <1>2, <3>2 DEF WellFormed, NumberedOK, Numbered
      <4>2. \A c \in DOMAIN RowsOf(d, "calls") :
                FreshInput(RowsOf(d, "calls")[c]) = RowsOf(d, "calls")[c].input
        BY <4>1, FreshOfUncached
      <4>3. TokensIn(e) = TokensIn(d)
        BY <2>10, <3>2, <4>2 DEF TokensIn, InputsOf
      <4>4. QED BY <2>10, <4>1, <4>3 DEF TokensAlike, SessionsIn
    <3>3. QED BY <3>1, <3>2
  <2>18. Has(e, "service_credentials") <=> Has(d, "service_credentials")
    BY <2>10
  <2>19. Progress(e, 10 + 1)
    BY <2>10 DEF Progress
  <2>20. QED
    BY <2>10, <2>12, <2>13, <2>14, <2>15, <2>16, <2>17, <2>18, <2>19
    DEF Carries, SaysTheSame, StableAlike, WellFormed
<1>3. QED BY <1>1, <1>2

LEMMA CreateBaseTables ==
    ASSUME NEW d, NEW e, WellFormed(d), Progress(d, 11), e = CreateTables(d)
    PROVE  Carries(d, e, 11)
<1>1. /\ DOMAIN e = DOMAIN d \cup BaseTables
      /\ \A t \in DOMAIN d : e[t] = d[t]
      /\ \A t \in BaseTables : t \notin DOMAIN d =>
            e[t] = [cols |-> IF t = "calls" THEN {"user_id"} ELSE {}, id |-> "TEXT", rows |-> NoRows]
  BY DEF CreateTables, Merged, Table
<1>2. Shaped(e)
  BY <1>1 DEF WellFormed, Shaped
<1>3. /\ \A t : Has(d, t) => Has(e, t) /\ e[t] = d[t]
      /\ \A t : Has(e, t) => Has(d, t) \/ t \in BaseTables
      /\ BaseTables \subseteq DOMAIN e
  BY <1>1 DEF Has
<1>4. \A t : RowsOf(e, t) = RowsOf(d, t)
  BY <1>1 DEF RowsOf, Has
<1>5. \A t, c : c # "user_id" => (HasColumn(e, t, c) <=> HasColumn(d, t, c))
  BY <1>1 DEF HasColumn, Has
<1>6. \A t : t \notin BaseTables => Same(d, e, t)
  BY <1>3, SameTable
<1>7. /\ ~Has(d, "services") /\ ~Has(d, "service_models") /\ ~Has(d, "service_wires")
      /\ ~Has(d, "tokens") /\ ~Has(d, "payloads")
      /\ Has(d, "calls") => d["calls"].id = "TEXT"
  BY DEF Progress
<1>8. /\ ~Has(e, "services") /\ ~Has(e, "service_models") /\ ~Has(e, "service_wires")
      /\ ~Has(e, "tokens") /\ ~Has(e, "payloads")
      /\ Has(e, "calls") => e["calls"].id = "TEXT"
  BY <1>1, <1>3, <1>7 DEF BaseTables, Has
<1>9. /\ Same(d, e, "service_wires") /\ Same(d, e, "provider_wires")
      /\ Same(d, e, "provider_endpoints") /\ Same(d, e, "service_credentials")
  BY <1>6 DEF BaseTables
<1>10. /\ Providers(e) = "providers" /\ Providers(d) = "providers"
       /\ Models(e) = "provider_models" /\ Models(d) = "provider_models"
  BY <1>7, <1>8 DEF Providers, Models
<1>11. /\ UsersIn(e) = UsersIn(d) /\ BodiesIn(e) = BodiesIn(d)
       /\ OwnersIn(e) = OwnersIn(d) /\ SpendIn(e) = SpendIn(d)
  BY <1>4, UsersKept, BodiesKept, SpendKept DEF EitherRows, OwnersIn
<1>12. KeysIn(e) = KeysIn(d) /\ CostsIn(e) = CostsIn(d)
  BY <1>4, <1>5, <1>10, KeysKept, CostsKept
<1>13. \A t : HasBase(e, t) <=> HasBase(d, t)
  BY <1>5 DEF HasBase
<1>14. ReachedIn(e) = ReachedIn(d)
  <2>1. /\ Either(e, "service_wires", "provider_wires") <=> Either(d, "service_wires", "provider_wires")
        /\ EitherRows(e, "service_wires", "provider_wires")
               = EitherRows(d, "service_wires", "provider_wires")
    BY <1>9 DEF Same, Either, EitherRows
  <2>2. QED BY <1>4, <1>9, <1>10, <1>13, <2>1, EndpointsKept
<1>15. TokensAlike(d, e)
  BY <1>4, <1>5, TokensKept DEF TokensAlike
<1>16. RenamedOnce(e)
  BY <1>8 DEF RenamedOnce
<1>17. ProvidersOK(e)
  BY <1>4, <1>5, <1>13 DEF WellFormed, ProvidersOK
<1>18. ModelsOK(e) /\ CallsOK(e)
  BY <1>4 DEF WellFormed, ModelsOK, CallsOK
<1>19. NumberedOK(e)
  BY <1>8 DEF NumberedOK, Numbered
<1>20. WiresOK(e)
  BY <1>4, <1>10, <1>13 DEF WellFormed, WiresOK
<1>21. Progress(e, 11 + 1)
  BY <1>3, <1>8 DEF Progress
<1>22. Has(e, "service_credentials") <=> Has(d, "service_credentials")
  BY <1>9 DEF Same
<1>23. QED
  BY <1>2, <1>11, <1>12, <1>14, <1>15, <1>16, <1>17, <1>18, <1>19, <1>20, <1>21, <1>22
  DEF Carries, SaysTheSame, StableAlike, WellFormed

LEMMA AddDefaultedFacts ==
    ASSUME NEW d, NEW t, NEW c, NEW defaults, NEW e, Shaped(d), Has(d, t),
           e = AddDefaulted(d, t, c, defaults)
    PROVE  /\ Shaped(e)
           /\ \A u : u # t => Same(d, e, u)
           /\ \A u : Has(e, u) <=> Has(d, u)
           /\ RowsOf(e, t) = Filled(RowsOf(d, t), defaults)
           /\ \A x : HasColumn(e, t, x) <=> HasColumn(d, t, x) \/ x = c
           /\ \A u : Has(d, u) => e[u].id = d[u].id
<1>1. PICK cols : cols = d[t].cols \cup {c}
  OBVIOUS
<1>2. PICK d1 : d1 = SetColumns(d, t, cols)
  OBVIOUS
<1>3. PICK rows : rows = Filled(d[t].rows, defaults)
  OBVIOUS
<1>4. e = SetRows(d1, t, rows)
  BY <1>1, <1>2, <1>3 DEF AddDefaulted, AddColumn
<1>5. /\ Shaped(d1)
      /\ \A u : u # t => Same(d, d1, u)
      /\ \A u : Has(d1, u) <=> Has(d, u)
      /\ \A u : RowsOf(d1, u) = RowsOf(d, u)
      /\ \A x : HasColumn(d1, t, x) <=> x \in cols
      /\ \A u : Has(d, u) => d1[u].id = d[u].id
  BY <1>2, SetColumnsFacts
<1>6. /\ Shaped(e)
      /\ \A u : u # t => Same(d1, e, u)
      /\ \A u : Has(e, u) <=> Has(d1, u)
      /\ RowsOf(e, t) = rows
      /\ \A u, x : HasColumn(e, u, x) <=> HasColumn(d1, u, x)
      /\ \A u : Has(d1, u) => e[u].id = d1[u].id
  BY <1>4, <1>5, SetRowsFacts
<1>7. \A u : u # t => Same(d, e, u)
  BY <1>5, <1>6 DEF Same
<1>8. rows = Filled(RowsOf(d, t), defaults)
  BY <1>3 DEF RowsOf
<1>9. \A x : HasColumn(d, t, x) <=> x \in d[t].cols
  BY DEF HasColumn
<1>10. \A x : HasColumn(e, t, x) <=> HasColumn(d, t, x) \/ x = c
  BY <1>1, <1>5, <1>6, <1>9
<1>11. QED BY <1>5, <1>6, <1>7, <1>8, <1>10

LEMMA FilledFacts ==
    ASSUME NEW rows, NEW f, NEW defaults, DOMAIN defaults = {f}, NEW new, new = Filled(rows, defaults)
    PROVE  /\ DOMAIN new = DOMAIN rows
           /\ \A x \in DOMAIN rows :
                 /\ DOMAIN new[x] = DOMAIN rows[x] \cup {f}
                 /\ \A g \in DOMAIN rows[x] : new[x][g] = rows[x][g]
                 /\ f \notin DOMAIN rows[x] => new[x][f] = defaults[f]
BY DEF Filled, Merged

(* A provider's row may change in other fields than its base URL. *)
LEMMA ReachedFromRewritten ==
    ASSUME NEW d, NEW e, NEW rows, NEW new, WiresOK(d),
           Providers(d) = "providers", Providers(e) = "providers",
           rows = RowsOf(d, "providers"), new = RowsOf(e, "providers"), DOMAIN new = DOMAIN rows,
           HasBase(e, "providers") <=> HasBase(d, "providers"),
           HasBase(d, "providers") => \A p \in DOMAIN rows :
               new[p].base = rows[p].base /\ new[p].adapter = rows[p].adapter,
           Same(d, e, "service_wires"), Same(d, e, "provider_wires"),
           Same(d, e, "provider_endpoints")
    PROVE  ReachedIn(e) = ReachedIn(d)
<1>1. DOMAIN BothRows(e, "service_wires", "provider_wires")
          = DOMAIN BothRows(d, "service_wires", "provider_wires")
  BY DEF Same, BothRows
<1>2. /\ (Has(e, "service_wires") \/ Has(e, "provider_wires"))
             <=> (Has(d, "service_wires") \/ Has(d, "provider_wires"))
      /\ Has(e, "provider_endpoints") <=> Has(d, "provider_endpoints")
      /\ RowsOf(e, "provider_endpoints") = RowsOf(d, "provider_endpoints")
      /\ HasColumn(e, "provider_endpoints", "endpoint") <=> HasColumn(d, "provider_endpoints", "endpoint")
  BY DEF Same
<1>3. CASE ~HasBase(d, "providers")
  BY <1>2, <1>3 DEF ReachedIn
<1>4. CASE HasBase(d, "providers")
  <2>1. \A p \in DOMAIN rows : new[p].base = rows[p].base /\ new[p].adapter = rows[p].adapter
    BY <1>4
  <2>2. DefaultsOf(new) = DefaultsOf(rows) /\ \A k \in DefaultsOf(rows) : k[1] \in DOMAIN rows
    BY <2>1 DEF DefaultsOf
  <2>3. PICK wires : wires = DOMAIN BothRows(d, "service_wires", "provider_wires")
    OBVIOUS
  <2>4. \A k \in wires : k[1] \in DOMAIN rows
    <3>1. \A t \in {"service_wires", "provider_wires"} : \A k \in DOMAIN RowsOf(d, t) :
              k[1] \in DOMAIN rows
      BY <1>4 DEF WiresOK
    <3>2. wires = DOMAIN RowsOf(d, "service_wires") \cup DOMAIN RowsOf(d, "provider_wires")
      BY <2>3, BothRowsDomain DEF EitherRows
    <3>3. QED BY <3>1, <3>2
  <2>5. \A keys : (\A k \in keys : k[1] \in DOMAIN rows) => FromBase(new, keys) = FromBase(rows, keys)
    BY <2>1 DEF FromBase
  <2>6. /\ FromBase(new, DefaultsOf(new)) = FromBase(rows, DefaultsOf(rows))
        /\ FromBase(new, wires) = FromBase(rows, wires)
    BY <2>2, <2>4, <2>5
  <2>7. QED BY <1>1, <1>2, <1>4, <2>3, <2>6 DEF ReachedIn
<1>5. QED BY <1>3, <1>4

(* The columns of the providers, added. *)
LEMMA AddKeys ==
    ASSUME NEW d, NEW e, WellFormed(d), Progress(d, 12),
           e = AddDefaulted(d, "providers", "api_key", [key |-> NoKey])
    PROVE  /\ WellFormed(e) /\ Progress(e, 12) /\ HasColumn(e, "providers", "api_key")
           /\ StableAlike(d, e) /\ TokensAlike(d, e)
           /\ Has(e, "service_credentials") <=> Has(d, "service_credentials")
<1>1. PICK defaults : defaults = [y \in {"key"} |-> NoKey]
  OBVIOUS
<1>2. e = AddDefaulted(d, "providers", "api_key", defaults)
  BY <1>1
<1>3. Shaped(d) /\ Has(d, "providers") /\ ~Has(d, "services")
  BY DEF WellFormed, Progress, BaseTables, Has
<1>4. PICK rows : rows = RowsOf(d, "providers")
  OBVIOUS
<1>5. PICK new : new = RowsOf(e, "providers")
  OBVIOUS
<1>6. /\ Shaped(e)
      /\ \A u : u # "providers" => Same(d, e, u)
      /\ \A u : Has(e, u) <=> Has(d, u)
      /\ new = Filled(rows, defaults)
      /\ \A x : HasColumn(e, "providers", x) <=> HasColumn(d, "providers", x) \/ x = "api_key"
      /\ \A u : Has(d, u) => e[u].id = d[u].id
  BY <1>2, <1>3, <1>4, <1>5, AddDefaultedFacts
<1>7. /\ DOMAIN new = DOMAIN rows
      /\ \A p \in DOMAIN rows :
            /\ DOMAIN new[p] = DOMAIN rows[p] \cup {"key"}
            /\ \A g \in DOMAIN rows[p] : new[p][g] = rows[p][g]
            /\ "key" \notin DOMAIN rows[p] => new[p]["key"] = NoKey
  <2>1. PICK f : f = "key"
    OBVIOUS
  <2>2. DOMAIN defaults = {f} /\ defaults[f] = NoKey
    BY <1>1, <2>1
  <2>3. /\ DOMAIN new = DOMAIN rows
        /\ \A x \in DOMAIN rows :
              /\ DOMAIN new[x] = DOMAIN rows[x] \cup {f}
              /\ \A g \in DOMAIN rows[x] : new[x][g] = rows[x][g]
              /\ f \notin DOMAIN rows[x] => new[x][f] = defaults[f]
    <3>1. new = Filled(rows, defaults)
      BY <1>6
    <3>2. QED BY <2>2, <3>1, FilledFacts
  <2>4. QED BY <2>1, <2>2, <2>3
<1>8. Providers(d) = "providers" /\ Providers(e) = "providers" /\ ~Has(e, "services")
  BY <1>3, <1>6 DEF Providers
<1>9. HasBase(e, "providers") <=> HasBase(d, "providers")
  BY <1>6 DEF HasBase
<1>10. \A p \in DOMAIN rows : /\ "key" \in DOMAIN rows[p] <=> HasColumn(d, "providers", "api_key")
                              /\ HasBase(d, "providers") => {"base", "adapter"} \subseteq DOMAIN rows[p]
  BY <1>4 DEF WellFormed, ProvidersOK
<1>11. Same(d, e, "service_credentials") /\ Same(d, e, "service_models") /\ Same(d, e, "provider_models")
       /\ Same(d, e, "service_wires") /\ Same(d, e, "provider_wires") /\ Same(d, e, "provider_endpoints")
       /\ Same(d, e, "services") /\ Same(d, e, "calls")
  BY <1>6
<1>12. /\ UsersIn(e) = UsersIn(d) /\ OwnersIn(e) = OwnersIn(d) /\ BodiesIn(e) = BodiesIn(d)
       /\ CostsIn(e) = CostsIn(d) /\ SpendIn(e) = SpendIn(d) /\ TokensAlike(d, e)
  BY <1>6, SaidElsewhere DEF TokensAlike
<1>13. KeysIn(e) = KeysIn(d)
  <2>1. \A p : PooledKey(e, p) = PooledKey(d, p)
    BY <1>11 DEF Same, PooledKey
  <2>2. ASSUME NEW p \in DOMAIN rows
        PROVE  (IF HasColumn(e, "providers", "api_key") /\ new[p].key # NoKey
                THEN new[p].key ELSE PooledKey(e, p))
               = (IF HasColumn(d, "providers", "api_key") /\ rows[p].key # NoKey
                  THEN rows[p].key ELSE PooledKey(d, p))
    <3>1. CASE HasColumn(d, "providers", "api_key")
      <4>1. new[p].key = rows[p].key
        BY <1>7, <1>10, <3>1
      <4>2. QED BY <1>6, <2>1, <3>1, <4>1
    <3>2. CASE ~HasColumn(d, "providers", "api_key")
      <4>1. new[p].key = NoKey
        BY <1>7, <1>10, <3>2
      <4>2. QED BY <2>1, <3>2, <4>1
    <3>3. QED BY <3>1, <3>2
  <2>3. /\ KeysIn(e) = [p \in DOMAIN new |-> IF HasColumn(e, "providers", "api_key") /\ new[p].key # NoKey
                                             THEN new[p].key ELSE PooledKey(e, p)]
        /\ KeysIn(d) = [p \in DOMAIN rows |-> IF HasColumn(d, "providers", "api_key") /\ rows[p].key # NoKey
                                              THEN rows[p].key ELSE PooledKey(d, p)]
    BY <1>4, <1>5, <1>8 DEF KeysIn
  <2>4. QED BY <1>7, <2>2, <2>3
<1>14. ReachedIn(e) = ReachedIn(d)
  <2>1. HasBase(d, "providers") => \A p \in DOMAIN rows :
            new[p].base = rows[p].base /\ new[p].adapter = rows[p].adapter
    BY <1>7, <1>10
  <2>2. WiresOK(d)
    BY DEF WellFormed
  <2>3. QED BY <1>4, <1>5, <1>7, <1>8, <1>9, <1>11, <2>1, <2>2, ReachedFromRewritten
<1>15. ModelsOK(e) /\ CallsOK(e) /\ NumberedOK(e)
  BY <1>6, FormedElsewhere
<1>16. RenamedOnce(e)
  BY <1>6 DEF WellFormed, RenamedOnce
<1>17. ProvidersOK(e)
  <2>1. RowsOf(e, "services") = NoRows
    BY <1>8 DEF RowsOf
  <2>2. DOMAIN NoRows = {}
    BY DEF NoRows
  <2>3. \A p \in DOMAIN new : /\ "key" \in DOMAIN new[p] <=> HasColumn(e, "providers", "api_key")
                              /\ HasBase(e, "providers") => {"base", "adapter"} \subseteq DOMAIN new[p]
    BY <1>6, <1>7, <1>9, <1>10
  <2>4. QED BY <1>5, <2>1, <2>2, <2>3 DEF ProvidersOK
<1>18. WiresOK(e)
  <2>1. /\ RowsOf(e, "service_wires") = RowsOf(d, "service_wires")
        /\ RowsOf(e, "provider_wires") = RowsOf(d, "provider_wires")
    BY <1>11 DEF Same
  <2>2. QED BY <1>4, <1>5, <1>7, <1>8, <1>9, <2>1 DEF WellFormed, WiresOK
<1>19. Progress(e, 12)
  BY <1>6 DEF Progress, Has
<1>20. QED
  BY <1>6, <1>12, <1>13, <1>14, <1>15, <1>16, <1>17, <1>18, <1>19 DEF StableAlike, WellFormed

LEMMA MergedFacts ==
    ASSUME NEW r, NEW g
    PROVE  /\ DOMAIN Merged(r, g) = DOMAIN r \cup DOMAIN g
           /\ \A x \in DOMAIN r : Merged(r, g)[x] = r[x]
           /\ \A x \in DOMAIN g \ DOMAIN r : Merged(r, g)[x] = g[x]
BY DEF Merged

LEMMA MergedTwice ==
    ASSUME NEW r, NEW g
    PROVE  Merged(Merged(r, g), g) = Merged(r, g)
<1>1. PICK m : m = Merged(r, g)
  OBVIOUS
<1>2. m = [x \in DOMAIN r \cup DOMAIN g |-> IF x \in DOMAIN r THEN r[x] ELSE g[x]]
  BY <1>1 DEF Merged
<1>3. DOMAIN m = DOMAIN r \cup DOMAIN g
  BY <1>2
<1>4. Merged(m, g) = [x \in DOMAIN m \cup DOMAIN g |-> IF x \in DOMAIN m THEN m[x] ELSE g[x]]
  BY DEF Merged
<1>5. DOMAIN m \cup DOMAIN g = DOMAIN m
  BY <1>3
<1>6. Merged(m, g) = [x \in DOMAIN m |-> m[x]]
  BY <1>4, <1>5
<1>7. m = [x \in DOMAIN m |-> m[x]]
  BY <1>2, <1>3
<1>8. QED BY <1>1, <1>6, <1>7

LEMMA CostFromSame ==
    ASSUME NEW r, NEW q, q.cost = r.cost, q.unit = r.unit, q.rate = r.rate
    PROVE  CostFromLegacy(q) = CostFromLegacy(r)
BY DEF CostFromLegacy

(* Deriving a cost again derives the same. *)
LEMMA CostFromCosted ==
    ASSUME NEW r, NEW q, {"unit", "rate", "cost"} \subseteq DOMAIN r,
           q = [r EXCEPT !.cost = CostFromLegacy(r)]
    PROVE  CostFromLegacy(q) = CostFromLegacy(r) /\ DOMAIN q = DOMAIN r
<1>1. /\ q.unit = r.unit /\ q.rate = r.rate /\ q.cost = CostFromLegacy(r) /\ DOMAIN q = DOMAIN r
  OBVIOUS
<1>2. QED BY <1>1 DEF CostFromLegacy

LEMMA AddCosts ==
    ASSUME NEW d, NEW e, WellFormed(d), Progress(d, 12), HasColumn(d, "providers", "api_key"),
           e = AddDefaulted(d, "provider_models", "cost", [cost |-> Unpriced])
    PROVE  Carries(d, e, 12)
<1>1. PICK defaults : defaults = [cost |-> Unpriced]
  OBVIOUS
<1>2. Shaped(d) /\ Has(d, "provider_models") /\ ~Has(d, "service_models")
  BY DEF WellFormed, Progress, BaseTables, Has
<1>3. PICK rows : rows = RowsOf(d, "provider_models")
  OBVIOUS
<1>4. PICK new : new = RowsOf(e, "provider_models")
  OBVIOUS
<1>5. e = AddDefaulted(d, "provider_models", "cost", defaults)
  BY <1>1
<1>6. /\ Shaped(e)
      /\ \A u : u # "provider_models" => Same(d, e, u)
      /\ \A u : Has(e, u) <=> Has(d, u)
      /\ new = Filled(rows, defaults)
      /\ \A u : Has(d, u) => e[u].id = d[u].id
  BY <1>2, <1>3, <1>4, <1>5, AddDefaultedFacts
<1>7. DOMAIN new = DOMAIN rows /\ \A k \in DOMAIN rows : new[k] = Merged(rows[k], defaults)
  BY <1>6 DEF Filled
<1>8. Models(e) = "provider_models" /\ Models(d) = "provider_models"
  BY <1>2, <1>6 DEF Models
<1>9. CostsIn(e) = CostsIn(d)
  <2>1. CostsIn(e) = [k \in DOMAIN new |-> CostFromLegacy(Merged(new[k], defaults))]
    BY <1>1, <1>4, <1>8 DEF CostsIn
  <2>2. CostsIn(d) = [k \in DOMAIN rows |-> CostFromLegacy(Merged(rows[k], defaults))]
    BY <1>1, <1>3, <1>8 DEF CostsIn
  <2>3. \A k \in DOMAIN rows : Merged(new[k], defaults) = Merged(rows[k], defaults)
    BY <1>7, MergedTwice
  <2>4. QED BY <1>7, <2>1, <2>2, <2>3
<1>10. /\ UsersIn(e) = UsersIn(d) /\ OwnersIn(e) = OwnersIn(d) /\ BodiesIn(e) = BodiesIn(d)
       /\ KeysIn(e) = KeysIn(d) /\ ReachedIn(e) = ReachedIn(d)
       /\ SpendIn(e) = SpendIn(d) /\ TokensAlike(d, e)
  BY <1>6, SaidElsewhere DEF TokensAlike
<1>11. ProvidersOK(e) /\ CallsOK(e) /\ NumberedOK(e) /\ WiresOK(e)
  BY <1>6, FormedElsewhere
<1>12. RenamedOnce(e)
  BY <1>6 DEF WellFormed, RenamedOnce
<1>13. \A k \in DOMAIN new : {"unit", "rate", "cost"} \subseteq DOMAIN new[k]
  <2>1. \A k \in DOMAIN rows : {"unit", "rate"} \subseteq DOMAIN rows[k]
    BY <1>3 DEF WellFormed, ModelsOK
  <2>2. DOMAIN defaults = {"cost"}
    BY <1>1
  <2>3. \A k \in DOMAIN rows : DOMAIN new[k] = DOMAIN rows[k] \cup DOMAIN defaults
    BY <1>7, MergedFacts
  <2>4. QED BY <1>7, <2>1, <2>2, <2>3
<1>14. ModelsOK(e)
  <2>1. RowsOf(e, "service_models") = NoRows /\ DOMAIN NoRows = {}
    BY <1>2, <1>6 DEF RowsOf, NoRows
  <2>2. QED BY <1>4, <1>13, <2>1 DEF ModelsOK
<1>15. HasKeysAndCosts(e)
  <2>1. Same(d, e, "providers")
    BY <1>6
  <2>2. QED BY <1>4, <1>13, <2>1 DEF HasKeysAndCosts, Same
<1>16. Progress(e, 12 + 1)
  BY <1>6, <1>15 DEF Progress, Has
<1>17. QED
  BY <1>6, <1>9, <1>10, <1>11, <1>12, <1>14, <1>16 DEF Carries, SaysTheSame, StableAlike, WellFormed

LEMMA AddProviderColumns ==
    ASSUME NEW d, NEW e, WellFormed(d), Progress(d, 12), e = AddColumns(d)
    PROVE  Carries(d, e, 12)
<1>1. PICK d1 : d1 = AddDefaulted(d, "providers", "api_key", [key |-> NoKey])
  OBVIOUS
<1>2. e = AddDefaulted(d1, "provider_models", "cost", [cost |-> Unpriced])
  BY <1>1 DEF AddColumns
<1>3. /\ WellFormed(d1) /\ Progress(d1, 12) /\ HasColumn(d1, "providers", "api_key")
      /\ StableAlike(d, d1) /\ TokensAlike(d, d1)
      /\ Has(d1, "service_credentials") <=> Has(d, "service_credentials")
  BY <1>1, AddKeys
<1>4. Carries(d1, e, 12)
  BY <1>2, <1>3, AddCosts
<1>5. QED BY <1>3, <1>4 DEF Carries, SaysTheSame, StableAlike, TokensAlike

LEMMA BackfillCosts ==
    ASSUME NEW d, NEW e, WellFormed(d), Progress(d, 13), e = BackfillModelCosts(d)
    PROVE  Carries(d, e, 13)
<1>1. Shaped(d) /\ Has(d, "provider_models") /\ ~Has(d, "service_models") /\ HasKeysAndCosts(d)
  BY DEF WellFormed, Progress, BaseTables, Has
<1>2. PICK rows : rows = RowsOf(d, "provider_models")
  OBVIOUS
<1>3. PICK new : new = Costed(rows)
  OBVIOUS
<1>4. e = SetRows(d, "provider_models", new)
  BY <1>1, <1>2, <1>3 DEF BackfillModelCosts, RowsOf
<1>5. /\ Shaped(e)
      /\ \A u : u # "provider_models" => Same(d, e, u)
      /\ \A u : Has(e, u) <=> Has(d, u)
      /\ RowsOf(e, "provider_models") = new
      /\ \A u : Has(d, u) => e[u].id = d[u].id
  BY <1>1, <1>4, SetRowsFacts
<1>6. \A k \in DOMAIN rows : {"unit", "rate", "cost"} \subseteq DOMAIN rows[k]
  <2>1. \A k \in DOMAIN rows : {"unit", "rate"} \subseteq DOMAIN rows[k]
    BY <1>2 DEF WellFormed, ModelsOK
  <2>2. QED BY <1>1, <1>2, <2>1 DEF HasKeysAndCosts
<1>7. /\ DOMAIN new = DOMAIN rows
      /\ \A k \in DOMAIN rows : new[k] = [rows[k] EXCEPT !.cost = CostFromLegacy(rows[k])]
  BY <1>3 DEF Costed
<1>8. \A k \in DOMAIN rows : CostFromLegacy(new[k]) = CostFromLegacy(rows[k]) /\ DOMAIN new[k] = DOMAIN rows[k]
  BY <1>6, <1>7, CostFromCosted
<1>9. CostsIn(e) = CostsIn(d)
  <2>1. PICK g : g = [cost |-> Unpriced]
    OBVIOUS
  <2>2. Models(e) = "provider_models" /\ Models(d) = "provider_models"
    BY <1>1, <1>5 DEF Models
  <2>3. /\ CostsIn(e) = [k \in DOMAIN new |-> CostFromLegacy(Merged(new[k], g))]
        /\ CostsIn(d) = [k \in DOMAIN rows |-> CostFromLegacy(Merged(rows[k], g))]
    BY <1>2, <1>5, <2>1, <2>2 DEF CostsIn
  <2>4. \A r : {"unit", "rate", "cost"} \subseteq DOMAIN r =>
            CostFromLegacy(Merged(r, g)) = CostFromLegacy(r)
    <3> SUFFICES ASSUME NEW r, {"unit", "rate", "cost"} \subseteq DOMAIN r
                 PROVE  CostFromLegacy(Merged(r, g)) = CostFromLegacy(r)
      OBVIOUS
    <3>1. PICK q : q = Merged(r, g)
      OBVIOUS
    <3>2. q.cost = r.cost /\ q.unit = r.unit /\ q.rate = r.rate
      BY <3>1, MergedFacts
    <3>3. QED BY <3>1, <3>2, CostFromSame
  <2>5. \A k \in DOMAIN rows : CostFromLegacy(Merged(new[k], g)) = CostFromLegacy(Merged(rows[k], g))
    BY <1>6, <1>8, <2>4
  <2>6. QED BY <1>7, <2>3, <2>5
<1>10. /\ UsersIn(e) = UsersIn(d) /\ OwnersIn(e) = OwnersIn(d) /\ BodiesIn(e) = BodiesIn(d)
       /\ KeysIn(e) = KeysIn(d) /\ ReachedIn(e) = ReachedIn(d)
       /\ SpendIn(e) = SpendIn(d) /\ TokensAlike(d, e)
  BY <1>5, SaidElsewhere DEF TokensAlike
<1>11. ProvidersOK(e) /\ CallsOK(e) /\ NumberedOK(e) /\ WiresOK(e)
  BY <1>5, FormedElsewhere
<1>12. RenamedOnce(e)
  BY <1>5 DEF WellFormed, RenamedOnce
<1>13. ModelsOK(e)
  <2>1. RowsOf(e, "service_models") = NoRows /\ DOMAIN NoRows = {}
    BY <1>1, <1>5 DEF RowsOf, NoRows
  <2>2. QED BY <1>5, <1>6, <1>7, <1>8, <2>1 DEF ModelsOK
<1>14. HasKeysAndCosts(e)
  <2>1. Same(d, e, "providers")
    BY <1>5
  <2>2. QED BY <1>1, <1>5, <1>6, <1>7, <1>8, <2>1 DEF HasKeysAndCosts, Same
<1>15. Progress(e, 13 + 1)
  BY <1>5, <1>14 DEF Progress, Has
<1>16. QED
  BY <1>5, <1>9, <1>10, <1>11, <1>12, <1>13, <1>15 DEF Carries, SaysTheSame, StableAlike, WellFormed

(* The token steps.  Outside the window each carries what the database says;
   inside, the counts are on their way. *)
TokenStep(d, e, n) ==
    /\ WellFormed(e) /\ Progress(e, n + 1) /\ StableAlike(d, e)
    /\ Has(e, "service_credentials") <=> Has(d, "service_credentials")

LEMMA RenameCachedStep ==
    ASSUME NEW d, NEW e, NEW m, WellFormed(d), Progress(d, 14),
           e = RenameColumn(d, "calls", "cached_tokens", "cache_read_input_tokens")
    PROVE  /\ TokenStep(d, e, 14)
           /\ ~HasColumn(d, "calls", "cached_tokens") => TokensAlike(d, e)
           /\ (HasColumn(d, "calls", "cached_tokens") /\ TokensSaid(d, m)) => TokensOwed(e, 15, m)
<1>1. /\ Shaped(e)
      /\ \A u : u # "calls" => Same(d, e, u)
      /\ RowsOf(e, "calls") = RowsOf(d, "calls") /\ (Has(e, "calls") <=> Has(d, "calls"))
      /\ ~HasColumn(e, "calls", "cached_tokens")
      /\ Has(d, "calls") => e["calls"].id = d["calls"].id
  BY RenameColumnFacts DEF WellFormed
<1>2. /\ UsersIn(e) = UsersIn(d) /\ BodiesIn(e) = BodiesIn(d) /\ KeysIn(e) = KeysIn(d)
      /\ CostsIn(e) = CostsIn(d) /\ ReachedIn(e) = ReachedIn(d)
  BY <1>1, SaidElsewhere
<1>3. RenamedOnce(e) /\ ProvidersOK(e) /\ ModelsOK(e) /\ WiresOK(e)
  BY <1>1, FormedElsewhere
<1>4. /\ Same(d, e, "sessions") /\ Same(d, e, "user_spend") /\ Same(d, e, "service_credentials")
      /\ Same(d, e, "services") /\ Same(d, e, "service_models") /\ Same(d, e, "service_wires")
      /\ Same(d, e, "tokens") /\ Same(d, e, "payloads") /\ Same(d, e, "providers")
      /\ Same(d, e, "provider_models")
  BY <1>1
<1>5. OwnersIn(e) = OwnersIn(d) /\ SpendIn(e) = SpendIn(d)
  BY <1>1, <1>4, SpendKept DEF OwnersIn, Same
<1>6. CallsOK(e)
  BY <1>1 DEF WellFormed, CallsOK
<1>7. /\ ~Has(d, "services") /\ ~Has(d, "service_models") /\ ~Has(d, "service_wires")
      /\ ~Has(d, "tokens") /\ ~Has(d, "payloads")
      /\ Has(d, "calls") => d["calls"].id = "TEXT"
      /\ BaseTables \subseteq DOMAIN d /\ HasKeysAndCosts(d)
  BY DEF Progress
<1>8. NumberedOK(e)
  BY <1>1, <1>7 DEF NumberedOK, Numbered
<1>9. BaseTables \subseteq DOMAIN e
  <2>1. \A u : Has(e, u) <=> Has(d, u)
    BY <1>1 DEF Same
  <2>2. QED BY <1>7, <2>1 DEF Has
<1>10. HasKeysAndCosts(e)
  BY <1>4, <1>7 DEF HasKeysAndCosts, Same
<1>11. Progress(e, 14 + 1)
  <2>1. /\ ~Has(e, "services") /\ ~Has(e, "service_models") /\ ~Has(e, "service_wires")
        /\ ~Has(e, "tokens") /\ ~Has(e, "payloads")
        /\ Has(e, "calls") => e["calls"].id = "TEXT"
    BY <1>1, <1>4, <1>7 DEF Same
  <2>2. QED BY <1>1, <1>9, <1>10, <2>1 DEF Progress
<1>12. ~HasColumn(d, "calls", "cached_tokens") => TokensAlike(d, e)
  <2>1. RowsOf(e, "sessions") = RowsOf(d, "sessions")
    BY <1>4 DEF Same
  <2>2. QED BY <1>1, <2>1, TokensKept DEF TokensAlike
<1>13. ASSUME HasColumn(d, "calls", "cached_tokens"), TokensSaid(d, m)
       PROVE  TokensOwed(e, 15, m)
  <2>1. PICK rows : rows = RowsOf(d, "calls")
    OBVIOUS
  <2>2. m.input = [c \in DOMAIN rows |-> FreshInput(rows[c])] /\ m.input = TokensIn(d)
    BY <1>13, <2>1 DEF TokensSaid, TokensIn
  <2>3. m.sessions = Sums(m.input, rows, IF DOMAIN RowsOf(d, "sessions") = {} THEN Sessions(rows)
                                         ELSE DOMAIN RowsOf(d, "sessions"))
    BY <1>13, <2>1, <2>2 DEF TokensSaid, SessionsIn
  <2>4. RowsOf(e, "sessions") = RowsOf(d, "sessions") /\ RowsOf(e, "calls") = rows
    BY <1>1, <1>4, <2>1 DEF Same
  <2>5. QED BY <2>2, <2>3, <2>4 DEF TokensOwed
<1>14. QED
  BY <1>1, <1>2, <1>3, <1>4, <1>5, <1>6, <1>8, <1>11, <1>12, <1>13
  DEF TokenStep, StableAlike, WellFormed, Same

(* The split rewrites one field of every call. *)
LEMMA SplitFacts ==
    ASSUME NEW rows, NEW new, new = Split(rows),
           \A c \in DOMAIN rows : {"user", "session", "input", "cached", "cost"} \subseteq DOMAIN rows[c]
    PROVE  /\ DOMAIN new = DOMAIN rows
           /\ \A c \in DOMAIN rows :
                 /\ DOMAIN new[c] = DOMAIN rows[c]
                 /\ new[c].user = rows[c].user /\ new[c].session = rows[c].session
                 /\ new[c].cost = rows[c].cost /\ new[c].input = FreshInput(rows[c])
           /\ SpendOf(new) = SpendOf(rows)
           /\ Sessions(new) = Sessions(rows)
           /\ \A s : CallsOf(new, s) = CallsOf(rows, s)
           /\ InputsOf(new) = [c \in DOMAIN rows |-> FreshInput(rows[c])]
<1>1. DOMAIN new = DOMAIN rows
      /\ \A c \in DOMAIN rows : new[c] = [rows[c] EXCEPT !.input = FreshInput(rows[c])]
  BY DEF Split
<1>2. ASSUME NEW c \in DOMAIN rows
      PROVE  /\ DOMAIN new[c] = DOMAIN rows[c]
             /\ new[c].user = rows[c].user /\ new[c].session = rows[c].session
             /\ new[c].cost = rows[c].cost /\ new[c].input = FreshInput(rows[c])
  <2>1. PICK r : r = rows[c]
    OBVIOUS
  <2>2. PICK v : v = FreshInput(rows[c])
    OBVIOUS
  <2>3. new[c] = [r EXCEPT !.input = v] /\ {"user", "session", "input", "cached", "cost"} \subseteq DOMAIN r
    BY <1>1, <2>1, <2>2
  <2>4. QED BY <2>1, <2>2, <2>3
<1>3. \A s : CallsOf(new, s) = CallsOf(rows, s)
  BY <1>1, <1>2 DEF CallsOf
<1>4. Sessions(new) = Sessions(rows)
  BY <1>1, <1>2 DEF Sessions
<1>5. InputsOf(new) = [c \in DOMAIN rows |-> FreshInput(rows[c])]
  BY <1>1, <1>2 DEF InputsOf
<1>6. SpendOf(new) = SpendOf(rows)
  <2>1. [c \in DOMAIN new |-> new[c].cost] = [c \in DOMAIN rows |-> rows[c].cost]
    BY <1>1, <1>2
  <2>2. {new[c].user : c \in DOMAIN new} = {rows[c].user : c \in DOMAIN rows}
    BY <1>1, <1>2
  <2>3. \A u : {c \in DOMAIN new : new[c].user = u} = {c \in DOMAIN rows : rows[c].user = u}
    BY <1>1, <1>2
  <2>4. QED BY <2>1, <2>2, <2>3 DEF SpendOf
<1>7. QED BY <1>1, <1>2, <1>3, <1>4, <1>5, <1>6

LEMMA SumsAlike ==
    ASSUME NEW values, NEW rows, NEW new, NEW sessions, \A s : CallsOf(new, s) = CallsOf(rows, s)
    PROVE  Sums(values, new, sessions) = Sums(values, rows, sessions)
BY DEF Sums

LEMMA SplitStep ==
    ASSUME NEW d, NEW e, NEW m, WellFormed(d), Progress(d, 15), e = SplitInput(d)
    PROVE  /\ TokenStep(d, e, 15)
           /\ TokensOwed(d, 15, m) => TokensOwed(e, 16, m)
<1>1. PICK rows : rows = RowsOf(d, "calls")
  OBVIOUS
<1>2. PICK new : new = Split(rows)
  OBVIOUS
<1>3. /\ ~Has(d, "services") /\ ~Has(d, "service_models") /\ ~Has(d, "service_wires")
      /\ ~Has(d, "tokens") /\ ~Has(d, "payloads")
      /\ Has(d, "calls") => d["calls"].id = "TEXT"
      /\ BaseTables \subseteq DOMAIN d /\ HasKeysAndCosts(d)
      /\ ~HasColumn(d, "calls", "cached_tokens")
  BY DEF Progress
<1>4. Has(d, "calls") /\ Shaped(d)
  BY <1>3 DEF BaseTables, Has, WellFormed
<1>5. e = SetRows(d, "calls", new)
  BY <1>1, <1>2, <1>4 DEF SplitInput, RowsOf
<1>6. /\ Shaped(e)
      /\ \A u : u # "calls" => Same(d, e, u)
      /\ \A u : Has(e, u) <=> Has(d, u)
      /\ RowsOf(e, "calls") = new
      /\ \A u, c : HasColumn(e, u, c) <=> HasColumn(d, u, c)
      /\ \A u : Has(d, u) => e[u].id = d[u].id
  BY <1>4, <1>5, SetRowsFacts
<1>7. \A c \in DOMAIN rows : {"user", "session", "input", "cached", "cost"} \subseteq DOMAIN rows[c]
  BY <1>1 DEF WellFormed, CallsOK
<1>8. /\ DOMAIN new = DOMAIN rows
      /\ \A c \in DOMAIN rows :
            /\ DOMAIN new[c] = DOMAIN rows[c]
            /\ new[c].user = rows[c].user
      /\ SpendOf(new) = SpendOf(rows)
      /\ Sessions(new) = Sessions(rows)
      /\ \A s : CallsOf(new, s) = CallsOf(rows, s)
      /\ InputsOf(new) = [c \in DOMAIN rows |-> FreshInput(rows[c])]
  BY <1>2, <1>7, SplitFacts
<1>9. /\ UsersIn(e) = UsersIn(d) /\ BodiesIn(e) = BodiesIn(d) /\ KeysIn(e) = KeysIn(d)
      /\ CostsIn(e) = CostsIn(d) /\ ReachedIn(e) = ReachedIn(d)
  BY <1>6, SaidElsewhere
<1>10. RenamedOnce(e) /\ ProvidersOK(e) /\ ModelsOK(e) /\ WiresOK(e)
  BY <1>6, FormedElsewhere
<1>11. RowsOf(e, "sessions") = RowsOf(d, "sessions") /\ RowsOf(e, "user_spend") = RowsOf(d, "user_spend")
  <2>1. Same(d, e, "sessions") /\ Same(d, e, "user_spend")
    BY <1>6
  <2>2. QED BY <2>1 DEF Same
<1>12. OwnersIn(e) = OwnersIn(d) /\ SpendIn(e) = SpendIn(d)
  BY <1>1, <1>6, <1>8, <1>11 DEF OwnersIn, SpendIn
<1>13. CallsOK(e)
  BY <1>6, <1>7, <1>8 DEF CallsOK
<1>14. NumberedOK(e)
  BY <1>3, <1>6 DEF NumberedOK, Numbered
<1>15. HasKeysAndCosts(e)
  <2>1. Same(d, e, "providers") /\ Same(d, e, "provider_models")
    BY <1>6
  <2>2. QED BY <1>3, <2>1 DEF HasKeysAndCosts, Same
<1>16. Progress(e, 15 + 1)
  BY <1>3, <1>6, <1>15 DEF Progress, Has
<1>17. ASSUME TokensOwed(d, 15, m) PROVE TokensOwed(e, 16, m)
  <2>1. m.input = InputsOf(new)
    BY <1>1, <1>8, <1>17 DEF TokensOwed
  <2>2. PICK ids : ids = IF DOMAIN RowsOf(d, "sessions") = {} THEN Sessions(rows)
                         ELSE DOMAIN RowsOf(d, "sessions")
    OBVIOUS
  <2>3. m.sessions = Sums(m.input, rows, ids)
    BY <1>1, <1>17, <2>2 DEF TokensOwed
  <2>4. m.sessions = Sums(m.input, new, ids)
    BY <1>8, <2>3, SumsAlike
  <2>5. ids = IF DOMAIN RowsOf(e, "sessions") = {} THEN Sessions(new) ELSE DOMAIN RowsOf(e, "sessions")
    BY <1>8, <1>11, <2>2
  <2>6. QED BY <1>6, <2>1, <2>4, <2>5 DEF TokensOwed
<1>18. QED
  BY <1>6, <1>9, <1>10, <1>12, <1>13, <1>14, <1>16, <1>17 DEF TokenStep, StableAlike, WellFormed

LEMMA AddCacheReadStep ==
    ASSUME NEW d, NEW e, NEW m, WellFormed(d), Progress(d, 16),
           e = AddColumn(d, "calls", "cache_read_input_tokens")
    PROVE  Carries(d, e, 16) /\ (TokensOwed(d, 16, m) => TokensOwed(e, 17, m))
<1>1. /\ ~Has(d, "services") /\ ~Has(d, "service_models") /\ ~Has(d, "service_wires")
      /\ ~Has(d, "tokens") /\ ~Has(d, "payloads")
      /\ Has(d, "calls") => d["calls"].id = "TEXT"
      /\ BaseTables \subseteq DOMAIN d /\ HasKeysAndCosts(d)
      /\ ~HasColumn(d, "calls", "cached_tokens")
  BY DEF Progress
<1>2. Has(d, "calls") /\ Shaped(d)
  BY <1>1 DEF BaseTables, Has, WellFormed
<1>3. PICK cols : cols = d["calls"].cols \cup {"cache_read_input_tokens"}
  OBVIOUS
<1>4. e = SetColumns(d, "calls", cols)
  BY <1>3 DEF AddColumn
<1>5. /\ Shaped(e)
      /\ \A u : u # "calls" => Same(d, e, u)
      /\ \A u : Has(e, u) <=> Has(d, u)
      /\ \A u : RowsOf(e, u) = RowsOf(d, u)
      /\ \A c : HasColumn(e, "calls", c) <=> c \in cols
      /\ \A u : Has(d, u) => e[u].id = d[u].id
  BY <1>2, <1>4, SetColumnsFacts
<1>6. ~HasColumn(e, "calls", "cached_tokens")
  <2>1. "cached_tokens" \notin d["calls"].cols
    BY <1>1, <1>2 DEF HasColumn
  <2>2. QED BY <1>3, <1>5, <2>1
<1>7. ColumnsAlike(d, e)
  BY <1>1, <1>5, <1>6 DEF ColumnsAlike
<1>8. HasKeysAndCosts(e)
  <2>1. Same(d, e, "providers")
    BY <1>5
  <2>2. QED BY <1>1, <1>5, <2>1 DEF HasKeysAndCosts, Same
<1>9. Progress(e, 16 + 1)
  BY <1>1, <1>5, <1>6, <1>8 DEF Progress, Has
<1>10. TokensOwed(d, 16, m) => TokensOwed(e, 17, m)
  BY <1>5 DEF TokensOwed
<1>11. QED BY <1>7, <1>9, <1>10, ColumnsCarry DEF Carries, SaysTheSame

LEMMA ReseedStep ==
    ASSUME NEW d, NEW e, NEW m, WellFormed(d), Progress(d, 17), e = ReseedSessions(d)
    PROVE  TokenStep(d, e, 17) /\ (TokensOwed(d, 17, m) => TokensSaid(e, m))
<1>1. /\ ~Has(d, "services") /\ ~Has(d, "service_models") /\ ~Has(d, "service_wires")
      /\ ~Has(d, "tokens") /\ ~Has(d, "payloads")
      /\ Has(d, "calls") => d["calls"].id = "TEXT"
      /\ BaseTables \subseteq DOMAIN d /\ HasKeysAndCosts(d)
      /\ ~HasColumn(d, "calls", "cached_tokens")
  BY DEF Progress
<1>2. Has(d, "calls") /\ Has(d, "sessions") /\ Shaped(d)
  BY <1>1 DEF BaseTables, Has, WellFormed
<1>3. PICK rows : rows = RowsOf(d, "calls")
  OBVIOUS
<1>4. PICK ids : ids = DOMAIN RowsOf(d, "sessions")
  OBVIOUS
<1>5. PICK new : new = Sums(InputsOf(rows), rows, ids)
  OBVIOUS
<1>6. e = SetRows(d, "sessions", new)
  BY <1>2, <1>3, <1>4, <1>5 DEF ReseedSessions, RowsOf
<1>7. /\ Shaped(e)
      /\ \A u : u # "sessions" => Same(d, e, u)
      /\ \A u : Has(e, u) <=> Has(d, u)
      /\ RowsOf(e, "sessions") = new
      /\ \A u, c : HasColumn(e, u, c) <=> HasColumn(d, u, c)
      /\ \A u : Has(d, u) => e[u].id = d[u].id
  BY <1>2, <1>6, SetRowsFacts
<1>8. StableAlike(d, e)
  BY <1>7, SaidElsewhere DEF StableAlike
<1>9. RenamedOnce(e) /\ ProvidersOK(e) /\ ModelsOK(e) /\ CallsOK(e) /\ WiresOK(e)
  BY <1>7, FormedElsewhere
<1>10. NumberedOK(e)
  BY <1>1, <1>7 DEF NumberedOK, Numbered
<1>11. HasKeysAndCosts(e)
  <2>1. Same(d, e, "providers") /\ Same(d, e, "provider_models")
    BY <1>7
  <2>2. QED BY <1>1, <2>1 DEF HasKeysAndCosts, Same
<1>12. Progress(e, 17 + 1)
  BY <1>1, <1>7, <1>11 DEF Progress, Has
<1>13. ASSUME TokensOwed(d, 17, m) PROVE TokensSaid(e, m)
  <2>1. RowsOf(e, "calls") = rows
    <3>1. Same(d, e, "calls")
      BY <1>7
    <3>2. QED BY <1>3, <3>1 DEF Same
  <2>2. m.input = InputsOf(rows)
    BY <1>3, <1>13 DEF TokensOwed
  <2>3. TokensIn(e) = m.input
    BY <1>1, <1>7, <2>1, <2>2 DEF TokensIn
  <2>4. m.sessions = Sums(m.input, rows, IF ids = {} THEN Sessions(rows) ELSE ids)
    BY <1>3, <1>4, <1>13 DEF TokensOwed
  <2>5. DOMAIN new = ids
    BY <1>5 DEF Sums
  <2>6. SessionsIn(e) = IF ids # {} THEN new ELSE Sums(TokensIn(e), rows, Sessions(rows))
    BY <1>1, <1>7, <2>1, <2>5 DEF SessionsIn
  <2>7. SessionsIn(e) = m.sessions
    BY <1>5, <2>2, <2>3, <2>4, <2>6
  <2>8. QED BY <2>3, <2>7 DEF TokensSaid
<1>14. Has(e, "service_credentials") <=> Has(d, "service_credentials")
  BY <1>7
<1>15. QED BY <1>7, <1>8, <1>9, <1>10, <1>12, <1>13, <1>14 DEF TokenStep, WellFormed

LEMMA FoldPoolStep ==
    ASSUME NEW d, NEW e, WellFormed(d), Progress(d, 18),
           e = IF Has(d, "service_credentials") THEN FoldPool(d) ELSE d
    PROVE  Carries(d, e, 18)
<1>1. /\ ~Has(d, "services") /\ ~Has(d, "service_models") /\ ~Has(d, "service_wires")
      /\ ~Has(d, "tokens") /\ ~Has(d, "payloads")
      /\ Has(d, "calls") => d["calls"].id = "TEXT"
      /\ BaseTables \subseteq DOMAIN d /\ HasKeysAndCosts(d)
      /\ ~HasColumn(d, "calls", "cached_tokens")
  BY DEF Progress
<1>2. CASE ~Has(d, "service_credentials")
  <2>1. e = d
    BY <1>2
  <2>2. \A p : PooledKey(d, p) = NoKey
    BY <1>2 DEF PooledKey, RowsOf, NoRows
  <2>3. Progress(e, 18 + 1)
    BY <1>1, <2>1, <2>2 DEF Progress, PoolIsEmpty
  <2>4. QED BY <2>1, <2>3 DEF Carries, SaysTheSame, StableAlike, TokensAlike
<1>3. CASE Has(d, "service_credentials")
  <2>1. Has(d, "providers") /\ Shaped(d) /\ HasColumn(d, "providers", "api_key")
    BY <1>1 DEF BaseTables, Has, WellFormed, HasKeysAndCosts
  <2>2. PICK rows : rows = RowsOf(d, "providers")
    OBVIOUS
  <2>3. PICK new : new = [p \in DOMAIN rows |->
                              [rows[p] EXCEPT !.key = IF @ = NoKey THEN PooledKey(d, p) ELSE @]]
    OBVIOUS
  <2>4. e = SetRows(d, "providers", new)
    BY <1>3, <2>1, <2>2, <2>3 DEF FoldPool, RowsOf
  <2>5. /\ Shaped(e)
        /\ \A u : u # "providers" => Same(d, e, u)
        /\ \A u : Has(e, u) <=> Has(d, u)
        /\ RowsOf(e, "providers") = new
        /\ \A u, c : HasColumn(e, u, c) <=> HasColumn(d, u, c)
        /\ \A u : Has(d, u) => e[u].id = d[u].id
    BY <2>1, <2>4, SetRowsFacts
  <2>6. ASSUME NEW p \in DOMAIN rows
        PROVE  "key" \in DOMAIN rows[p]
    BY <2>1, <2>2 DEF WellFormed, ProvidersOK
  <2>7. ASSUME NEW p \in DOMAIN rows
        PROVE  /\ DOMAIN new[p] = DOMAIN rows[p]
               /\ new[p].key = IF rows[p].key = NoKey THEN PooledKey(d, p) ELSE rows[p].key
               /\ \A f \in DOMAIN rows[p] : f # "key" => new[p][f] = rows[p][f]
    <3>1. PICK r : r = rows[p]
      OBVIOUS
    <3>2. PICK v : v = IF r.key = NoKey THEN PooledKey(d, p) ELSE r.key
      OBVIOUS
    <3>3. new[p] = [r EXCEPT !.key = v] /\ "key" \in DOMAIN r
      BY <2>3, <2>6, <3>1, <3>2
    <3>4. QED BY <3>1, <3>2, <3>3
  <2>8. DOMAIN new = DOMAIN rows
    BY <2>3
  <2>9. Providers(d) = "providers" /\ Providers(e) = "providers"
    BY <1>1, <2>5 DEF Providers
  <2>10. \A p : PooledKey(e, p) = PooledKey(d, p)
    <3>1. Same(d, e, "service_credentials")
      BY <2>5
    <3>2. QED BY <3>1 DEF Same, PooledKey
  <2>11. KeysIn(e) = KeysIn(d)
    <3>1. /\ KeysIn(e) = [p \in DOMAIN new |-> IF new[p].key # NoKey THEN new[p].key ELSE PooledKey(e, p)]
          /\ KeysIn(d) = [p \in DOMAIN rows |-> IF rows[p].key # NoKey THEN rows[p].key ELSE PooledKey(d, p)]
      BY <2>1, <2>2, <2>5, <2>9 DEF KeysIn
    <3>2. \A p \in DOMAIN rows : (IF new[p].key # NoKey THEN new[p].key ELSE PooledKey(e, p))
                                     = (IF rows[p].key # NoKey THEN rows[p].key ELSE PooledKey(d, p))
      BY <2>7, <2>10
    <3>3. QED BY <2>8, <3>1, <3>2
  <2>12. HasBase(d, "providers") =>
             \A p \in DOMAIN rows : /\ {"base", "adapter"} \subseteq DOMAIN rows[p]
                                    /\ new[p].base = rows[p].base /\ new[p].adapter = rows[p].adapter
    <3>1. HasBase(d, "providers") => \A p \in DOMAIN rows : {"base", "adapter"} \subseteq DOMAIN rows[p]
      BY <2>2 DEF WellFormed, ProvidersOK
    <3>2. QED BY <2>7, <3>1
  <2>13. ReachedIn(e) = ReachedIn(d)
    <3>1. WiresOK(d) /\ (HasBase(e, "providers") <=> HasBase(d, "providers"))
      BY <2>5 DEF WellFormed, HasBase
    <3>2. HasBase(d, "providers") => \A p \in DOMAIN rows :
              new[p].base = rows[p].base /\ new[p].adapter = rows[p].adapter
      BY <2>12
    <3>3. Same(d, e, "service_wires") /\ Same(d, e, "provider_wires") /\ Same(d, e, "provider_endpoints")
      BY <2>5
    <3>4. new = RowsOf(e, "providers")
      BY <2>5
    <3>5. QED BY <2>2, <2>8, <2>9, <3>1, <3>2, <3>3, <3>4, ReachedFromRewritten
  <2>14. /\ UsersIn(e) = UsersIn(d) /\ OwnersIn(e) = OwnersIn(d) /\ BodiesIn(e) = BodiesIn(d)
         /\ CostsIn(e) = CostsIn(d) /\ SpendIn(e) = SpendIn(d) /\ TokensAlike(d, e)
    BY <2>5, SaidElsewhere DEF TokensAlike
  <2>15. ModelsOK(e) /\ CallsOK(e) /\ NumberedOK(e)
    BY <2>5, FormedElsewhere
  <2>16. RenamedOnce(e)
    BY <2>5 DEF WellFormed, RenamedOnce
  <2>17. ProvidersOK(e)
    <3>1. ~Has(e, "services")
      BY <1>1, <2>5
    <3>2. DOMAIN RowsOf(e, "services") = {}
      BY <3>1 DEF RowsOf, NoRows
    <3>3. HasColumn(e, "providers", "api_key") /\ (HasBase(e, "providers") <=> HasBase(d, "providers"))
      BY <2>1, <2>5 DEF HasBase
    <3>4. \A p \in DOMAIN new : /\ "key" \in DOMAIN new[p]
                                /\ HasBase(e, "providers") => {"base", "adapter"} \subseteq DOMAIN new[p]
      BY <2>6, <2>7, <2>8, <2>12, <3>3
    <3>5. QED BY <2>5, <3>2, <3>3, <3>4 DEF ProvidersOK
  <2>18. WiresOK(e)
    <3>1. HasBase(e, "providers") <=> HasBase(d, "providers")
      BY <2>5 DEF HasBase
    <3>2. /\ RowsOf(e, "service_wires") = RowsOf(d, "service_wires")
          /\ RowsOf(e, "provider_wires") = RowsOf(d, "provider_wires")
      <4>1. Same(d, e, "service_wires") /\ Same(d, e, "provider_wires")
        BY <2>5
      <4>2. QED BY <4>1 DEF Same
    <3>3. QED BY <2>2, <2>5, <2>8, <2>9, <3>1, <3>2 DEF WellFormed, WiresOK
  <2>19. PoolIsEmpty(e)
    <3>1. \A p \in DOMAIN new : new[p].key = NoKey => PooledKey(e, p) = NoKey
      BY <2>7, <2>8, <2>10
    <3>2. QED BY <2>5, <3>1 DEF PoolIsEmpty
  <2>20. HasKeysAndCosts(e)
    <3>1. RowsOf(e, "provider_models") = RowsOf(d, "provider_models")
      <4>1. Same(d, e, "provider_models")
        BY <2>5
      <4>2. QED BY <4>1 DEF Same
    <3>2. QED BY <1>1, <2>5, <3>1 DEF HasKeysAndCosts
  <2>21. Progress(e, 18 + 1)
    BY <1>1, <2>5, <2>19, <2>20 DEF Progress, Has
  <2>22. QED
    BY <2>5, <2>11, <2>13, <2>14, <2>15, <2>16, <2>17, <2>18, <2>21
    DEF Carries, SaysTheSame, StableAlike, WellFormed
<1>4. QED BY <1>2, <1>3

LEMMA DropPool ==
    ASSUME NEW d, NEW e, WellFormed(d), Progress(d, 19),
           e = IF Has(d, "service_credentials") THEN DropTable(d, "service_credentials") ELSE d
    PROVE  SaysTheSame(d, e, 19)
<1>1. /\ ~Has(d, "services") /\ ~Has(d, "service_models") /\ ~Has(d, "service_wires")
      /\ ~Has(d, "tokens") /\ ~Has(d, "payloads")
      /\ Has(d, "calls") => d["calls"].id = "TEXT"
      /\ BaseTables \subseteq DOMAIN d /\ HasKeysAndCosts(d)
      /\ ~HasColumn(d, "calls", "cached_tokens") /\ PoolIsEmpty(d)
  BY DEF Progress
<1>2. e = DropTable(d, "service_credentials")
  BY DEF DropTable
<1>3. /\ Shaped(e)
      /\ \A u : u # "service_credentials" => Same(d, e, u)
      /\ ~Has(e, "service_credentials") /\ RowsOf(e, "service_credentials") = NoRows
  BY <1>2, DropFacts DEF WellFormed
<1>4. /\ UsersIn(e) = UsersIn(d) /\ OwnersIn(e) = OwnersIn(d) /\ BodiesIn(e) = BodiesIn(d)
      /\ CostsIn(e) = CostsIn(d) /\ ReachedIn(e) = ReachedIn(d)
      /\ SpendIn(e) = SpendIn(d) /\ TokensAlike(d, e)
  BY <1>3, SaidElsewhere DEF TokensAlike
<1>5. RenamedOnce(e) /\ ProvidersOK(e) /\ ModelsOK(e) /\ CallsOK(e) /\ NumberedOK(e) /\ WiresOK(e)
  BY <1>3, FormedElsewhere
<1>6. /\ Same(d, e, "services") /\ Same(d, e, "service_models") /\ Same(d, e, "service_wires")
      /\ Same(d, e, "tokens") /\ Same(d, e, "payloads") /\ Same(d, e, "calls")
      /\ Same(d, e, "providers") /\ Same(d, e, "provider_models")
  BY <1>3
<1>7. KeysIn(e) = KeysIn(d)
  <2>1. PICK rows : rows = RowsOf(d, "providers")
    OBVIOUS
  <2>2. \A p : PooledKey(e, p) = NoKey
    BY <1>3 DEF PooledKey, NoRows
  <2>3. Providers(d) = "providers" /\ Providers(e) = "providers"
    BY <1>1, <1>6 DEF Providers, Same
  <2>4. /\ RowsOf(e, "providers") = rows
        /\ HasColumn(d, "providers", "api_key") /\ HasColumn(e, "providers", "api_key")
    BY <1>1, <1>6, <2>1 DEF Same, HasKeysAndCosts
  <2>5. /\ KeysIn(e) = [p \in DOMAIN rows |-> IF rows[p].key # NoKey THEN rows[p].key ELSE PooledKey(e, p)]
        /\ KeysIn(d) = [p \in DOMAIN rows |-> IF rows[p].key # NoKey THEN rows[p].key ELSE PooledKey(d, p)]
    BY <2>1, <2>3, <2>4 DEF KeysIn
  <2>6. \A p \in DOMAIN rows : (IF rows[p].key # NoKey THEN rows[p].key ELSE PooledKey(e, p))
                                   = (IF rows[p].key # NoKey THEN rows[p].key ELSE PooledKey(d, p))
    BY <1>1, <2>1, <2>2 DEF PoolIsEmpty
  <2>7. QED BY <2>5, <2>6
<1>8. BaseTables \subseteq DOMAIN e
  <2>1. \A u \in BaseTables : Has(e, u) <=> Has(d, u)
    BY <1>3 DEF BaseTables, Same
  <2>2. QED BY <1>1, <2>1 DEF Has
<1>9. HasKeysAndCosts(e)
  BY <1>1, <1>6 DEF HasKeysAndCosts, Same
<1>10. Progress(e, 19 + 1)
  <2>1. /\ ~Has(e, "services") /\ ~Has(e, "service_models") /\ ~Has(e, "service_wires")
        /\ ~Has(e, "tokens") /\ ~Has(e, "payloads") /\ ~HasColumn(e, "calls", "cached_tokens")
        /\ Has(e, "calls") => e["calls"].id = "TEXT"
    BY <1>1, <1>6 DEF Same
  <2>2. QED BY <1>3, <1>8, <1>9, <2>1 DEF Progress
<1>11. QED BY <1>3, <1>4, <1>5, <1>7, <1>10 DEF SaysTheSame, StableAlike, WellFormed

LEMMA SetTableFacts ==
    ASSUME NEW d, NEW t, NEW table, NEW e, Shaped(d), {"cols", "id", "rows"} \subseteq DOMAIN table,
           e = SetTable(d, t, table)
    PROVE  /\ Shaped(e) /\ Has(e, t)
           /\ \A u : u # t => Same(d, e, u)
           /\ RowsOf(e, t) = table.rows
           /\ \A c : HasColumn(e, t, c) <=> c \in table.cols
<1>1. /\ DOMAIN e = DOMAIN d \cup {t}
      /\ \A u \in DOMAIN e : e[u] = IF u = t THEN table ELSE d[u]
  BY DEF SetTable
<1>2. ASSUME NEW u, u # t PROVE Same(d, e, u)
  BY <1>1, <1>2, SameTable DEF Has
<1>3. Shaped(e)
  BY <1>1 DEF Shaped
<1>4. Has(e, t) /\ e[t] = table
  BY <1>1 DEF Has
<1>5. QED BY <1>2, <1>3, <1>4 DEF RowsOf, HasColumn

(* Before and after the canonical table is built, a request reaches the same. *)
LEMMA ReachedBefore ==
    ASSUME NEW d, ~Has(d, "services"), ~Has(d, "service_wires"), Has(d, "providers")
    PROVE  ReachedIn(d) = Endpoints(d)
<1>1. Providers(d) = "providers" /\ RowsOf(d, "providers") = d["providers"].rows
  BY DEF Providers, RowsOf
<1>2. CASE HasColumn(d, "provider_endpoints", "endpoint")
  BY <1>2 DEF ReachedIn, Endpoints, RowsOf, HasColumn
<1>3. CASE ~HasColumn(d, "provider_endpoints", "endpoint")
  <2>1. PICK wires : wires = DOMAIN RowsOf(d, "provider_wires")
    OBVIOUS
  <2>2. DOMAIN BothRows(d, "service_wires", "provider_wires") = wires
    <3>1. DOMAIN RowsOf(d, "service_wires") = {}
      BY DEF RowsOf, NoRows
    <3>2. EitherRows(d, "service_wires", "provider_wires") = wires
      BY <2>1, <3>1 DEF EitherRows
    <3>3. QED BY <3>2, BothRowsDomain
  <2>3. PICK served : served = IF Has(d, "provider_endpoints") \/ Has(d, "provider_wires") THEN wires
                               ELSE DefaultsOf(RowsOf(d, "providers"))
    OBVIOUS
  <2>4. PICK reached : reached = Merged(RowsOf(d, "provider_endpoints"),
                                   IF HasBase(d, "providers")
                                   THEN FromBase(RowsOf(d, "providers"), served) ELSE NoRows)
    OBVIOUS
  <2>5. ReachedIn(d) = MadeFull(reached)
    BY <1>1, <1>3, <2>2, <2>3, <2>4 DEF ReachedIn
  <2>6. Endpoints(d) = MadeFull(reached)
    BY <1>1, <1>3, <2>1, <2>3, <2>4 DEF Endpoints, Collected
  <2>7. QED BY <2>5, <2>6
<1>4. QED BY <1>2, <1>3

LEMMA SchemaFacts ==
    ASSUME NEW d, NEW e, Shaped(d), Has(d, "providers"), e = MigrateProviderSchema(d)
    PROVE  /\ Shaped(e)
           /\ \A u : u \notin {"provider_endpoints", "provider_wires", "providers"} => Same(d, e, u)
           /\ Has(e, "providers") /\ RowsOf(e, "providers") = RowsOf(d, "providers")
           /\ \A c : HasColumn(e, "providers", c)
                        <=> HasColumn(d, "providers", c) /\ c \notin {"base_url", "adapter"}
           /\ ~Has(e, "provider_wires") /\ RowsOf(e, "provider_wires") = NoRows
           /\ HasColumn(e, "provider_endpoints", "endpoint")
           /\ RowsOf(e, "provider_endpoints") = Endpoints(d)
<1>1. PICK table : table = Table({"endpoint", "adapter"}, Endpoints(d))
  OBVIOUS
<1>2. PICK d1 : d1 = SetTable(d, "provider_endpoints", table)
  OBVIOUS
<1>3. PICK d2 : d2 = DropTable(d1, "provider_wires")
  OBVIOUS
<1>4. PICK cols : cols = d["providers"].cols \ {"base_url", "adapter"}
  OBVIOUS
<1>5. e = SetColumns(d2, "providers", cols)
  BY <1>1, <1>2, <1>3, <1>4 DEF MigrateProviderSchema
<1>6. /\ {"cols", "id", "rows"} \subseteq DOMAIN table
      /\ table.rows = Endpoints(d) /\ table.cols = {"endpoint", "adapter"}
  BY <1>1 DEF Table
<1>7. /\ Shaped(d1) /\ Has(d1, "provider_endpoints")
      /\ \A u : u # "provider_endpoints" => Same(d, d1, u)
      /\ RowsOf(d1, "provider_endpoints") = Endpoints(d)
      /\ \A c : HasColumn(d1, "provider_endpoints", c) <=> c \in {"endpoint", "adapter"}
  BY <1>2, <1>6, SetTableFacts
<1>8. /\ Shaped(d2)
      /\ \A u : u # "provider_wires" => Same(d1, d2, u)
      /\ ~Has(d2, "provider_wires") /\ RowsOf(d2, "provider_wires") = NoRows
  BY <1>3, <1>7, DropFacts
<1>9. Has(d2, "providers") /\ RowsOf(d2, "providers") = RowsOf(d, "providers")
  <2>1. Same(d, d1, "providers") /\ Same(d1, d2, "providers")
    BY <1>7, <1>8
  <2>2. QED BY <2>1 DEF Same
<1>10. /\ Shaped(e)
       /\ \A u : u # "providers" => Same(d2, e, u)
       /\ \A u : Has(e, u) <=> Has(d2, u)
       /\ \A u : RowsOf(e, u) = RowsOf(d2, u)
       /\ \A c : HasColumn(e, "providers", c) <=> c \in cols
  BY <1>5, <1>8, <1>9, SetColumnsFacts
<1>11. ASSUME NEW u, u \notin {"provider_endpoints", "provider_wires", "providers"}
       PROVE  Same(d, e, u)
  <2>1. Same(d, d1, u) /\ Same(d1, d2, u) /\ Same(d2, e, u)
    BY <1>7, <1>8, <1>10, <1>11
  <2>2. QED BY <2>1 DEF Same
<1>12. \A c : HasColumn(e, "providers", c)
                 <=> HasColumn(d, "providers", c) /\ c \notin {"base_url", "adapter"}
  BY <1>4, <1>10 DEF HasColumn
<1>13. /\ HasColumn(e, "provider_endpoints", "endpoint")
       /\ RowsOf(e, "provider_endpoints") = Endpoints(d)
  <2>1. Same(d1, d2, "provider_endpoints") /\ Same(d2, e, "provider_endpoints")
    BY <1>8, <1>10
  <2>2. QED BY <1>7, <2>1 DEF Same
<1>14. QED BY <1>8, <1>9, <1>10, <1>11, <1>12, <1>13

LEMMA SchemaStep ==
    ASSUME NEW d, NEW e, WellFormed(d), Progress(d, 20), e = MigrateProviderSchema(d)
    PROVE  SaysTheSame(d, e, 20)
<1>1. /\ ~Has(d, "services") /\ ~Has(d, "service_models") /\ ~Has(d, "service_wires")
      /\ ~Has(d, "tokens") /\ ~Has(d, "payloads")
      /\ Has(d, "calls") => d["calls"].id = "TEXT"
      /\ BaseTables \subseteq DOMAIN d /\ HasKeysAndCosts(d)
      /\ ~HasColumn(d, "calls", "cached_tokens") /\ ~Has(d, "service_credentials")
  BY DEF Progress
<1>2. Shaped(d) /\ Has(d, "providers")
  BY <1>1 DEF WellFormed, BaseTables, Has
<1>3. /\ Shaped(e)
      /\ \A u : u \notin {"provider_endpoints", "provider_wires", "providers"} => Same(d, e, u)
      /\ Has(e, "providers") /\ RowsOf(e, "providers") = RowsOf(d, "providers")
      /\ \A c : HasColumn(e, "providers", c)
                   <=> HasColumn(d, "providers", c) /\ c \notin {"base_url", "adapter"}
      /\ ~Has(e, "provider_wires") /\ RowsOf(e, "provider_wires") = NoRows
      /\ HasColumn(e, "provider_endpoints", "endpoint")
      /\ RowsOf(e, "provider_endpoints") = Endpoints(d)
  BY <1>2, SchemaFacts
<1>4. /\ Same(d, e, "services") /\ Same(d, e, "service_models") /\ Same(d, e, "service_wires")
      /\ Same(d, e, "tokens") /\ Same(d, e, "payloads") /\ Same(d, e, "calls")
      /\ Same(d, e, "provider_models") /\ Same(d, e, "service_credentials")
  BY <1>3
<1>5. /\ UsersIn(e) = UsersIn(d) /\ OwnersIn(e) = OwnersIn(d) /\ BodiesIn(e) = BodiesIn(d)
      /\ CostsIn(e) = CostsIn(d) /\ SpendIn(e) = SpendIn(d) /\ TokensAlike(d, e)
  BY <1>3, SaidElsewhere DEF TokensAlike
<1>6. ModelsOK(e) /\ CallsOK(e) /\ NumberedOK(e)
  BY <1>3, FormedElsewhere
<1>7. /\ ~Has(e, "services") /\ ~Has(e, "service_models") /\ ~Has(e, "service_wires")
      /\ ~Has(e, "tokens") /\ ~Has(e, "payloads") /\ ~HasColumn(e, "calls", "cached_tokens")
      /\ Has(e, "calls") => e["calls"].id = "TEXT"
      /\ ~Has(e, "service_credentials")
  BY <1>1, <1>4 DEF Same
<1>8. Providers(d) = "providers" /\ Providers(e) = "providers"
  BY <1>1, <1>7 DEF Providers
<1>9. HasColumn(d, "providers", "api_key") /\ HasColumn(e, "providers", "api_key")
  BY <1>1, <1>3 DEF HasKeysAndCosts
<1>10. KeysIn(e) = KeysIn(d)
  <2>1. RowsOf(e, "service_credentials") = RowsOf(d, "service_credentials")
    BY <1>4 DEF Same
  <2>2. QED BY <1>3, <1>8, <1>9, <2>1, KeysKept
<1>11. ReachedIn(e) = ReachedIn(d)
  <2>1. ReachedIn(d) = Endpoints(d)
    BY <1>1, <1>2, ReachedBefore
  <2>2. ReachedIn(e) = RowsOf(e, "provider_endpoints")
    BY <1>3 DEF ReachedIn
  <2>3. QED BY <1>3, <2>1, <2>2
<1>12. RenamedOnce(e)
  BY <1>7 DEF RenamedOnce
<1>13. ~HasBase(e, "providers")
  BY <1>3 DEF HasBase
<1>14. WiresOK(e)
  BY <1>8, <1>13 DEF WiresOK
<1>15. ProvidersOK(e)
  <2>1. DOMAIN RowsOf(e, "services") = {}
    BY <1>7 DEF RowsOf, NoRows
  <2>2. \A p \in DOMAIN RowsOf(e, "providers") : "key" \in DOMAIN RowsOf(e, "providers")[p]
    BY <1>3, <1>9 DEF WellFormed, ProvidersOK
  <2>3. QED BY <1>9, <1>13, <2>1, <2>2 DEF ProvidersOK
<1>16. BaseTables \subseteq DOMAIN e
  <2>1. \A u \in BaseTables : Has(d, u) => Has(e, u)
    BY <1>3 DEF BaseTables, Same
  <2>2. QED BY <1>1, <2>1 DEF Has
<1>17. HasKeysAndCosts(e)
  BY <1>1, <1>4, <1>9 DEF HasKeysAndCosts, Same
<1>18. Progress(e, 20 + 1)
  BY <1>3, <1>7, <1>16, <1>17 DEF Progress
<1>19. QED
  BY <1>3, <1>5, <1>6, <1>10, <1>11, <1>12, <1>14, <1>15, <1>18
  DEF SaysTheSame, StableAlike, WellFormed

LEMMA BackfillSessionsStep ==
    ASSUME NEW d, NEW e, WellFormed(d), Progress(d, 21), e = BackfillSessions(d)
    PROVE  SaysTheSame(d, e, 21)
<1>1. /\ ~Has(d, "services") /\ ~Has(d, "service_models") /\ ~Has(d, "service_wires")
      /\ ~Has(d, "tokens") /\ ~Has(d, "payloads")
      /\ Has(d, "calls") => d["calls"].id = "TEXT"
      /\ BaseTables \subseteq DOMAIN d /\ HasKeysAndCosts(d)
      /\ ~HasColumn(d, "calls", "cached_tokens") /\ ~Has(d, "service_credentials")
      /\ HasColumn(d, "provider_endpoints", "endpoint")
  BY DEF Progress
<1>2. Has(d, "calls") /\ Has(d, "sessions") /\ Shaped(d)
  BY <1>1 DEF WellFormed, BaseTables, Has
<1>3. PICK rows : rows = RowsOf(d, "calls")
  OBVIOUS
<1>4. d["calls"].rows = rows /\ d["sessions"].rows = RowsOf(d, "sessions")
  BY <1>2, <1>3 DEF RowsOf
<1>5. CASE DOMAIN RowsOf(d, "sessions") # {}
  <2>1. e = d
    BY <1>4, <1>5 DEF BackfillSessions
  <2>2. FilledFromCalls(d, "sessions")
    BY <1>5 DEF FilledFromCalls
  <2>3. Progress(e, 21 + 1)
    BY <1>1, <2>1, <2>2 DEF Progress
  <2>4. QED BY <2>1, <2>3 DEF SaysTheSame, StableAlike, TokensAlike
<1>6. CASE DOMAIN RowsOf(d, "sessions") = {}
  <2>1. PICK new : new = Sums(InputsOf(rows), rows, Sessions(rows))
    OBVIOUS
  <2>2. e = SetRows(d, "sessions", new)
    BY <1>4, <1>6, <2>1 DEF BackfillSessions
  <2>3. /\ Shaped(e)
        /\ \A u : u # "sessions" => Same(d, e, u)
        /\ \A u : Has(e, u) <=> Has(d, u)
        /\ RowsOf(e, "sessions") = new
        /\ \A u, c : HasColumn(e, u, c) <=> HasColumn(d, u, c)
        /\ \A u : Has(d, u) => e[u].id = d[u].id
    BY <1>2, <2>2, SetRowsFacts
  <2>4. StableAlike(d, e)
    BY <2>3, SaidElsewhere DEF StableAlike
  <2>5. RenamedOnce(e) /\ ProvidersOK(e) /\ ModelsOK(e) /\ CallsOK(e) /\ WiresOK(e)
    BY <2>3, FormedElsewhere
  <2>6. NumberedOK(e)
    BY <1>1, <2>3 DEF NumberedOK, Numbered
  <2>7. Same(d, e, "providers") /\ Same(d, e, "provider_models") /\ Same(d, e, "calls")
    BY <2>3
  <2>8. HasKeysAndCosts(e)
    BY <1>1, <2>7 DEF HasKeysAndCosts, Same
  <2>9. DOMAIN new = Sessions(rows) /\ RowsOf(e, "calls") = rows
    BY <1>3, <2>1, <2>7 DEF Sums, Same
  <2>10. FilledFromCalls(e, "sessions")
    BY <2>3, <2>9 DEF FilledFromCalls, Sessions
  <2>11. Progress(e, 21 + 1)
    BY <1>1, <2>3, <2>8, <2>10 DEF Progress, Has
  <2>12. TokensIn(d) = InputsOf(rows) /\ TokensIn(e) = InputsOf(rows)
    BY <1>1, <1>3, <2>3, <2>9 DEF TokensIn
  <2>13. SessionsIn(d) = new
    BY <1>3, <1>6, <2>1, <2>12 DEF SessionsIn
  <2>14. SessionsIn(e) = new
    BY <1>1, <2>1, <2>3, <2>9, <2>12 DEF SessionsIn
  <2>15. QED BY <2>3, <2>4, <2>5, <2>6, <2>11, <2>12, <2>13, <2>14
         DEF SaysTheSame, TokensAlike, WellFormed
<1>7. QED BY <1>5, <1>6

LEMMA BackfillSpendStep ==
    ASSUME NEW d, NEW e, WellFormed(d), Progress(d, 22), e = BackfillUserSpend(d)
    PROVE  SaysTheSame(d, e, 22)
<1>1. /\ ~Has(d, "services") /\ ~Has(d, "service_models") /\ ~Has(d, "service_wires")
      /\ ~Has(d, "tokens") /\ ~Has(d, "payloads")
      /\ Has(d, "calls") => d["calls"].id = "TEXT"
      /\ BaseTables \subseteq DOMAIN d /\ HasKeysAndCosts(d)
      /\ ~HasColumn(d, "calls", "cached_tokens") /\ ~Has(d, "service_credentials")
      /\ HasColumn(d, "provider_endpoints", "endpoint") /\ FilledFromCalls(d, "sessions")
  BY DEF Progress
<1>2. Has(d, "calls") /\ Has(d, "user_spend") /\ Shaped(d)
  BY <1>1 DEF WellFormed, BaseTables, Has
<1>3. PICK rows : rows = RowsOf(d, "calls")
  OBVIOUS
<1>4. d["calls"].rows = rows /\ d["user_spend"].rows = RowsOf(d, "user_spend")
  BY <1>2, <1>3 DEF RowsOf
<1>5. CASE DOMAIN RowsOf(d, "user_spend") # {}
  <2>1. e = d
    BY <1>4, <1>5 DEF BackfillUserSpend
  <2>2. FilledFromCalls(d, "user_spend")
    BY <1>5 DEF FilledFromCalls
  <2>3. Progress(e, 22 + 1)
    BY <1>1, <2>1, <2>2 DEF Progress
  <2>4. QED BY <2>1, <2>3 DEF SaysTheSame, StableAlike, TokensAlike
<1>6. CASE DOMAIN RowsOf(d, "user_spend") = {}
  <2>1. PICK new : new = SpendOf(rows)
    OBVIOUS
  <2>2. e = SetRows(d, "user_spend", new)
    BY <1>4, <1>6, <2>1 DEF BackfillUserSpend
  <2>3. /\ Shaped(e)
        /\ \A u : u # "user_spend" => Same(d, e, u)
        /\ \A u : Has(e, u) <=> Has(d, u)
        /\ RowsOf(e, "user_spend") = new
        /\ \A u, c : HasColumn(e, u, c) <=> HasColumn(d, u, c)
        /\ \A u : Has(d, u) => e[u].id = d[u].id
    BY <1>2, <2>2, SetRowsFacts
  <2>4. /\ UsersIn(e) = UsersIn(d) /\ OwnersIn(e) = OwnersIn(d) /\ BodiesIn(e) = BodiesIn(d)
        /\ KeysIn(e) = KeysIn(d) /\ CostsIn(e) = CostsIn(d) /\ ReachedIn(e) = ReachedIn(d)
        /\ TokensAlike(d, e)
    BY <2>3, SaidElsewhere DEF TokensAlike
  <2>5. RenamedOnce(e) /\ ProvidersOK(e) /\ ModelsOK(e) /\ CallsOK(e) /\ NumberedOK(e) /\ WiresOK(e)
    BY <2>3, FormedElsewhere
  <2>6. /\ Same(d, e, "providers") /\ Same(d, e, "provider_models") /\ Same(d, e, "calls")
        /\ Same(d, e, "sessions")
    BY <2>3
  <2>7. HasKeysAndCosts(e)
    BY <1>1, <2>6 DEF HasKeysAndCosts, Same
  <2>8. DOMAIN new = {rows[c].user : c \in DOMAIN rows} /\ RowsOf(e, "calls") = rows
    BY <1>3, <2>1, <2>6 DEF SpendOf, Same
  <2>9. FilledFromCalls(e, "user_spend") /\ FilledFromCalls(e, "sessions")
    BY <1>1, <2>3, <2>6, <2>8 DEF FilledFromCalls, Same
  <2>10. Progress(e, 22 + 1)
    BY <1>1, <2>3, <2>7, <2>9 DEF Progress, Has
  <2>11. SpendIn(d) = new /\ SpendIn(e) = new
    BY <1>3, <1>6, <2>1, <2>3, <2>8 DEF SpendIn
  <2>12. QED BY <2>3, <2>4, <2>5, <2>10, <2>11 DEF SaysTheSame, StableAlike, WellFormed
<1>7. QED BY <1>5, <1>6

(* Between two opens. *)
Removed(d, k) == SetRows(d, "provider_endpoints", Lacking(RowsOf(d, "provider_endpoints"), k))
Pruned(d, c) ==
    SetRows(SetRows(d, "calls", Lacking(RowsOf(d, "calls"), c)), "raw", Lacking(RowsOf(d, "raw"), c))

LEMMA RemoveEndpoint ==
    ASSUME NEW d, NEW e, NEW k, WellFormed(d), Progress(d, Opened), e = Removed(d, k)
    PROVE  /\ WellFormed(e) /\ Progress(e, Opened) /\ TokensAlike(d, e)
           /\ UsersIn(e) = UsersIn(d) /\ OwnersIn(e) = OwnersIn(d) /\ BodiesIn(e) = BodiesIn(d)
           /\ KeysIn(e) = KeysIn(d) /\ CostsIn(e) = CostsIn(d) /\ SpendIn(e) = SpendIn(d)
           /\ ReachedIn(e) = Lacking(ReachedIn(d), k)
<1>1. /\ ~Has(d, "services") /\ ~Has(d, "service_models") /\ ~Has(d, "service_wires")
      /\ ~Has(d, "tokens") /\ ~Has(d, "payloads")
      /\ Has(d, "calls") => d["calls"].id = "TEXT"
      /\ BaseTables \subseteq DOMAIN d /\ HasKeysAndCosts(d)
      /\ ~HasColumn(d, "calls", "cached_tokens") /\ ~Has(d, "service_credentials")
      /\ HasColumn(d, "provider_endpoints", "endpoint")
      /\ FilledFromCalls(d, "sessions") /\ FilledFromCalls(d, "user_spend")
  BY DEF Progress, Opened
<1>2. Has(d, "provider_endpoints") /\ Shaped(d)
  BY <1>1 DEF WellFormed, HasColumn
<1>3. PICK new : new = Lacking(RowsOf(d, "provider_endpoints"), k)
  OBVIOUS
<1>4. e = SetRows(d, "provider_endpoints", new)
  BY <1>3 DEF Removed
<1>5. /\ Shaped(e)
      /\ \A u : u # "provider_endpoints" => Same(d, e, u)
      /\ \A u : Has(e, u) <=> Has(d, u)
      /\ RowsOf(e, "provider_endpoints") = new
      /\ \A u, c : HasColumn(e, u, c) <=> HasColumn(d, u, c)
      /\ \A u : Has(d, u) => e[u].id = d[u].id
  BY <1>2, <1>4, SetRowsFacts
<1>6. /\ UsersIn(e) = UsersIn(d) /\ OwnersIn(e) = OwnersIn(d) /\ BodiesIn(e) = BodiesIn(d)
      /\ KeysIn(e) = KeysIn(d) /\ CostsIn(e) = CostsIn(d) /\ SpendIn(e) = SpendIn(d)
      /\ TokensAlike(d, e)
  BY <1>5, SaidElsewhere DEF TokensAlike
<1>7. RenamedOnce(e) /\ ProvidersOK(e) /\ ModelsOK(e) /\ CallsOK(e) /\ NumberedOK(e) /\ WiresOK(e)
  BY <1>5, FormedElsewhere
<1>8. /\ Same(d, e, "providers") /\ Same(d, e, "provider_models") /\ Same(d, e, "calls")
      /\ Same(d, e, "sessions") /\ Same(d, e, "user_spend")
  BY <1>5
<1>9. HasKeysAndCosts(e) /\ FilledFromCalls(e, "sessions") /\ FilledFromCalls(e, "user_spend")
  BY <1>1, <1>8 DEF HasKeysAndCosts, FilledFromCalls, Same
<1>10. Progress(e, Opened)
  BY <1>1, <1>5, <1>9 DEF Progress, Has, Opened
<1>11. ReachedIn(e) = Lacking(ReachedIn(d), k)
  <2>1. ReachedIn(d) = RowsOf(d, "provider_endpoints")
    BY <1>1 DEF ReachedIn
  <2>2. ReachedIn(e) = new
    BY <1>1, <1>5 DEF ReachedIn
  <2>3. QED BY <1>3, <2>1, <2>2
<1>12. QED BY <1>5, <1>6, <1>7, <1>10, <1>11 DEF WellFormed

LEMMA PruneCall ==
    ASSUME NEW d, NEW e, NEW c \in DOMAIN RowsOf(d, "calls"), WellFormed(d), Progress(d, Opened),
           e = Pruned(d, c)
    PROVE  /\ WellFormed(e) /\ Progress(e, Opened)
           /\ UsersIn(e) = UsersIn(d) /\ OwnersIn(e) = Lacking(OwnersIn(d), c)
           /\ BodiesIn(e) = BodiesIn(d) \ {c}
           /\ KeysIn(e) = KeysIn(d) /\ CostsIn(e) = CostsIn(d) /\ ReachedIn(e) = ReachedIn(d)
           /\ SpendIn(e) = SpendIn(d)
           /\ TokensIn(e) = Lacking(TokensIn(d), c) /\ SessionsIn(e) = SessionsIn(d)
<1>1. /\ ~Has(d, "services") /\ ~Has(d, "service_models") /\ ~Has(d, "service_wires")
      /\ ~Has(d, "tokens") /\ ~Has(d, "payloads")
      /\ Has(d, "calls") => d["calls"].id = "TEXT"
      /\ BaseTables \subseteq DOMAIN d /\ HasKeysAndCosts(d)
      /\ ~HasColumn(d, "calls", "cached_tokens") /\ ~Has(d, "service_credentials")
      /\ HasColumn(d, "provider_endpoints", "endpoint")
      /\ FilledFromCalls(d, "sessions") /\ FilledFromCalls(d, "user_spend")
  BY DEF Progress, Opened
<1>2. Has(d, "calls") /\ Has(d, "raw") /\ Shaped(d)
  BY <1>1 DEF WellFormed, BaseTables, Has
<1>3. PICK rows : rows = RowsOf(d, "calls")
  OBVIOUS
<1>4. PICK left : left = Lacking(rows, c)
  OBVIOUS
<1>5. PICK bodies : bodies = Lacking(RowsOf(d, "raw"), c)
  OBVIOUS
<1>6. PICK d1 : d1 = SetRows(d, "calls", left)
  OBVIOUS
<1>7. e = SetRows(d1, "raw", bodies)
  BY <1>3, <1>4, <1>5, <1>6 DEF Pruned
<1>8. /\ Shaped(d1)
      /\ \A u : u # "calls" => Same(d, d1, u)
      /\ \A u : Has(d1, u) <=> Has(d, u)
      /\ RowsOf(d1, "calls") = left
      /\ \A u, x : HasColumn(d1, u, x) <=> HasColumn(d, u, x)
      /\ \A u : Has(d, u) => d1[u].id = d[u].id
  BY <1>2, <1>6, SetRowsFacts
<1>9. Has(d1, "raw")
  BY <1>2, <1>8
<1>10. /\ Shaped(e)
       /\ \A u : u # "raw" => Same(d1, e, u)
       /\ \A u : Has(e, u) <=> Has(d1, u)
       /\ RowsOf(e, "raw") = bodies
       /\ \A u, x : HasColumn(e, u, x) <=> HasColumn(d1, u, x)
       /\ \A u : Has(d1, u) => e[u].id = d1[u].id
  BY <1>7, <1>8, <1>9, SetRowsFacts
<1>11. ASSUME NEW u, u \notin {"calls", "raw"} PROVE Same(d, e, u)
  <2>1. Same(d, d1, u) /\ Same(d1, e, u)
    BY <1>8, <1>10, <1>11
  <2>2. QED BY <2>1 DEF Same
<1>12. RowsOf(e, "calls") = left
  <2>1. Same(d1, e, "calls")
    BY <1>10
  <2>2. QED BY <1>8, <2>1 DEF Same
<1>13. /\ UsersIn(e) = UsersIn(d) /\ KeysIn(e) = KeysIn(d) /\ CostsIn(e) = CostsIn(d)
       /\ ReachedIn(e) = ReachedIn(d)
  BY <1>11, SaidElsewhere
<1>14. RenamedOnce(e) /\ ProvidersOK(e) /\ ModelsOK(e) /\ WiresOK(e)
  BY <1>11, FormedElsewhere
<1>15. DOMAIN left = DOMAIN rows \ {c} /\ \A x \in DOMAIN left : left[x] = rows[x]
  BY <1>4 DEF Lacking
<1>16. CallsOK(e)
  BY <1>3, <1>12, <1>15 DEF WellFormed, CallsOK
<1>17. NumberedOK(e)
  BY <1>1, <1>8, <1>10 DEF NumberedOK, Numbered
<1>18. /\ Same(d, e, "providers") /\ Same(d, e, "provider_models")
       /\ Same(d, e, "sessions") /\ Same(d, e, "user_spend") /\ Same(d, e, "payloads")
  BY <1>11
<1>19. HasKeysAndCosts(e)
  BY <1>1, <1>18 DEF HasKeysAndCosts, Same
<1>20. /\ DOMAIN RowsOf(d, "sessions") # {} /\ RowsOf(e, "sessions") = RowsOf(d, "sessions")
       /\ DOMAIN RowsOf(d, "user_spend") # {} /\ RowsOf(e, "user_spend") = RowsOf(d, "user_spend")
  BY <1>1, <1>18 DEF FilledFromCalls, Same
<1>21. FilledFromCalls(e, "sessions") /\ FilledFromCalls(e, "user_spend")
  BY <1>20 DEF FilledFromCalls
<1>22. Progress(e, Opened)
  BY <1>1, <1>8, <1>10, <1>19, <1>21 DEF Progress, Has, Opened
<1>23. SpendIn(e) = SpendIn(d)
  BY <1>20 DEF SpendIn
<1>24. OwnersIn(e) = Lacking(OwnersIn(d), c)
  BY <1>3, <1>12, <1>15 DEF OwnersIn, Lacking
<1>25. TokensIn(e) = Lacking(TokensIn(d), c)
  BY <1>1, <1>3, <1>8, <1>10, <1>12, <1>15 DEF TokensIn, InputsOf, Lacking
<1>26. SessionsIn(e) = SessionsIn(d)
  BY <1>1, <1>8, <1>10, <1>20 DEF SessionsIn
<1>27. BodiesIn(e) = BodiesIn(d) \ {c}
  <2>1. DOMAIN RowsOf(d, "payloads") = {} /\ DOMAIN RowsOf(e, "payloads") = {}
    BY <1>1, <1>18 DEF RowsOf, NoRows, Same
  <2>2. BodiesIn(d) = DOMAIN RowsOf(d, "raw")
    <3>1. EitherRows(d, "payloads", "raw") = DOMAIN RowsOf(d, "raw")
      BY <2>1 DEF EitherRows
    <3>2. QED BY <3>1, BothRowsDomain DEF BodiesIn
  <2>3. BodiesIn(e) = DOMAIN bodies
    <3>1. EitherRows(e, "payloads", "raw") = DOMAIN bodies
      BY <1>10, <2>1 DEF EitherRows
    <3>2. QED BY <3>1, BothRowsDomain DEF BodiesIn
  <2>4. DOMAIN bodies = DOMAIN RowsOf(d, "raw") \ {c}
    BY <1>5 DEF Lacking
  <2>5. QED BY <2>2, <2>3, <2>4
<1>28. QED BY <1>10, <1>13, <1>14, <1>16, <1>17, <1>22, <1>23, <1>24, <1>25, <1>26, <1>27 DEF WellFormed

LEMMA StillSaid ==
    ASSUME NEW d, NEW e, NEW m
    PROVE  /\ StableSaid(d, m) /\ StableAlike(d, e) => StableSaid(e, m)
           /\ TokensSaid(d, m) /\ TokensAlike(d, e) => TokensSaid(e, m)
BY DEF StableSaid, StableAlike, TokensSaid, TokensAlike

LEMMA SaidByItself ==
    ASSUME NEW d, NEW m, m = Meaning(d)
    PROVE  DOMAIN m = Parts /\ StableSaid(d, m) /\ TokensSaid(d, m)
BY DEF Meaning, Parts, StableSaid, TokensSaid, UsersIn, BodiesIn

LEMMA EmptyIsWellFormed == WellFormed(NoRows)
<1>1. /\ \A t : ~Has(NoRows, t)
      /\ DOMAIN NoRows = {}
  BY DEF Has, NoRows
<1>2. \A t : RowsOf(NoRows, t) = NoRows
  BY <1>1 DEF RowsOf
<1>3. Shaped(NoRows) /\ RenamedOnce(NoRows) /\ NumberedOK(NoRows)
  BY <1>1 DEF Shaped, RenamedOnce, NumberedOK, Numbered
<1>4. ProvidersOK(NoRows) /\ ModelsOK(NoRows) /\ CallsOK(NoRows) /\ WiresOK(NoRows)
  BY <1>1, <1>2 DEF ProvidersOK, ModelsOK, CallsOK, WiresOK
<1>5. QED BY <1>3, <1>4 DEF WellFormed

LEMMA MigrationStarts == MigrationInit => MigrationInv
<1> SUFFICES ASSUME MigrationInit PROVE MigrationInv
  OBVIOUS
<1>1. db = NoRows /\ meaning = Meaning(NoRows) /\ at = 0
  BY DEF MigrationInit, Closed
<1>2. DOMAIN meaning = Parts /\ StableSaid(db, meaning) /\ TokensSaid(db, meaning)
  BY <1>1, SaidByItself
<1>3. at \in 0..Unopened /\ at \notin 1..Opened /\ at \notin 1..19 /\ ~InTokenWindow
  BY <1>1 DEF Unopened, Opened, InTokenWindow
<1>4. WellFormed(db)
  BY <1>1, EmptyIsWellFormed
<1>5. QED BY <1>2, <1>3, <1>4 DEF MigrationInv

(* Every step but the token steps. *)
LEMMA OrdinaryStep ==
    ASSUME MigrationInv, NEW n \in 1..22, n \notin {14, 15, 16, 17}, NEW e, Step(n, e),
           SaysTheSame(db, e, n),
           n <= 18 => (Has(e, "service_credentials") <=> Has(db, "service_credentials"))
    PROVE  MigrationInv'
<1>1. at = n /\ db' = e /\ at' = n + 1
      /\ hadCredPool' = hadCredPool /\ meaning' = meaning /\ cut' = cut
  BY DEF Step
<1>2. ~InTokenWindow /\ ~InTokenWindow'
  BY <1>1 DEF InTokenWindow
<1>3. WellFormed(e) /\ Progress(e, n + 1) /\ StableAlike(db, e) /\ TokensAlike(db, e)
  BY DEF SaysTheSame
<1>4. /\ DOMAIN meaning = Parts /\ StableSaid(db, meaning)
      /\ ~cut => TokensSaid(db, meaning)
  BY <1>2 DEF MigrationInv
<1>5. StableSaid(e, meaning) /\ (~cut => TokensSaid(e, meaning))
  BY <1>3, <1>4, StillSaid
<1>6. at' \in 1..19 => (hadCredPool' <=> Has(db', "service_credentials"))
  <2> SUFFICES ASSUME at' \in 1..19 PROVE hadCredPool <=> Has(e, "service_credentials")
    BY <1>1
  <2>1. at \in 1..19 /\ n <= 18
    BY <1>1
  <2>2. QED BY <2>1 DEF MigrationInv
<1>7. at' \in 0..Unopened
  BY <1>1 DEF Unopened
<1>8. WellFormed(db') /\ (at' \in 1..Opened => Progress(db', at'))
  BY <1>1, <1>3
<1>9. DOMAIN meaning' = Parts /\ StableSaid(db', meaning') /\ (~cut' => TokensSaid(db', meaning'))
  BY <1>1, <1>4, <1>5
<1>10. QED BY <1>2, <1>6, <1>7, <1>8, <1>9 DEF MigrationInv

LEMMA TokenStepCarries ==
    ASSUME MigrationInv, NEW n \in 14..17, NEW e, at = n, db' = e, at' = n + 1,
           hadCredPool' = hadCredPool, meaning' = meaning, cut' = cut,
           TokenStep(db, e, n),
           ~cut => IF InTokenWindow' THEN TokensOwed(e, n + 1, meaning) ELSE TokensSaid(e, meaning)
    PROVE  MigrationInv'
<1>1. /\ WellFormed(e) /\ Progress(e, n + 1) /\ StableAlike(db, e)
      /\ Has(e, "service_credentials") <=> Has(db, "service_credentials")
  BY DEF TokenStep
<1>2. at \in 1..19 /\ at' \in 0..Unopened
  BY DEF Unopened
<1>3. at' \in 1..19 => (hadCredPool' <=> Has(db', "service_credentials"))
  BY <1>1, <1>2 DEF MigrationInv
<1>4. DOMAIN meaning = Parts /\ StableSaid(db, meaning)
  BY DEF MigrationInv
<1>5. DOMAIN meaning' = Parts /\ StableSaid(db', meaning')
  BY <1>1, <1>4, StillSaid
<1>6. WellFormed(db') /\ (at' \in 1..Opened => Progress(db', at'))
  BY <1>1
<1>7. ~cut' => IF InTokenWindow' THEN TokensOwed(db', at', meaning') ELSE TokensSaid(db', meaning')
  OBVIOUS
<1>8. QED BY <1>2, <1>3, <1>5, <1>6, <1>7 DEF MigrationInv

LEMMA RenamesCarry == ASSUME MigrationInv, Renames PROVE MigrationInv'
<1>1. WellFormed(db) /\ (at \in 1..Opened => Progress(db, at))
  BY DEF MigrationInv
<1>2. ASSUME NEW n \in 1..9, NEW e, Step(n, e), Carries(db, e, n) PROVE MigrationInv'
  BY <1>2, OrdinaryStep DEF Carries
<1>3. ASSUME NEW n \in 1..9, NEW e, Step(n, e) PROVE Progress(db, n)
  BY <1>1, <1>3 DEF Step, Opened
<1>4. CASE Step(1, RenameTable(db, "services", "providers"))
  BY <1>1, <1>2, <1>3, <1>4, RenameProviders
<1>5. CASE Step(2, RenameTable(db, "service_models", "provider_models"))
  BY <1>1, <1>2, <1>3, <1>5, RenameModels
<1>6. CASE Step(3, FoldOrRename(db, "service_wires", "provider_wires"))
  BY <1>1, <1>2, <1>3, <1>6, FoldWires
<1>7. CASE Step(4, DropTable(db, "service_wires"))
  BY <1>1, <1>2, <1>3, <1>7, DropWires
<1>8. CASE Step(5, FoldOrRename(db, "tokens", "users"))
  BY <1>1, <1>2, <1>3, <1>8, FoldUsers
<1>9. CASE Step(6, DropTable(db, "tokens"))
  BY <1>1, <1>2, <1>3, <1>9, DropTokens
<1>10. CASE Step(7, RenameColumn(db, "calls", "token_id", "user_id"))
  BY <1>1, <1>2, <1>3, <1>10, RenameTokenID
<1>11. CASE Step(8, FoldOrRename(db, "payloads", "raw"))
  BY <1>1, <1>2, <1>3, <1>11, FoldBodies
<1>12. CASE Step(9, DropTable(db, "payloads"))
  BY <1>1, <1>2, <1>3, <1>12, DropPayloads
<1>13. QED BY <1>4, <1>5, <1>6, <1>7, <1>8, <1>9, <1>10, <1>11, <1>12 DEF Renames

LEMMA TablesCarry == ASSUME MigrationInv, Tables PROVE MigrationInv'
<1>1. WellFormed(db) /\ (at \in 1..Opened => Progress(db, at))
  BY DEF MigrationInv
<1>2. ASSUME NEW n \in 10..13, NEW e, Step(n, e), Carries(db, e, n) PROVE MigrationInv'
  BY <1>2, OrdinaryStep DEF Carries
<1>3. ASSUME NEW n \in 10..13, NEW e, Step(n, e) PROVE Progress(db, n)
  BY <1>1, <1>3 DEF Step, Opened
<1>4. CASE Step(10, MigrateCallsToUUID(db))
  BY <1>1, <1>2, <1>3, <1>4, CallsToUUID
<1>5. CASE Step(11, CreateTables(db))
  BY <1>1, <1>2, <1>3, <1>5, CreateBaseTables
<1>6. CASE Step(12, AddColumns(db))
  BY <1>1, <1>2, <1>3, <1>6, AddProviderColumns
<1>7. CASE Step(13, BackfillModelCosts(db))
  BY <1>1, <1>2, <1>3, <1>7, BackfillCosts
<1>8. QED BY <1>4, <1>5, <1>6, <1>7 DEF Tables

LEMMA PoolCarries == ASSUME MigrationInv, Pool PROVE MigrationInv'
<1>1. /\ WellFormed(db) /\ (at \in 1..Opened => Progress(db, at))
      /\ at \in 1..19 => (hadCredPool <=> Has(db, "service_credentials"))
  BY DEF MigrationInv
<1>2. CASE Step(18, IF hadCredPool THEN FoldPool(db) ELSE db)
  <2>1. PICK e : e = IF Has(db, "service_credentials") THEN FoldPool(db) ELSE db
    OBVIOUS
  <2>2. at = 18
    BY <1>2 DEF Step
  <2>3. Step(18, e) /\ Progress(db, 18)
    BY <1>1, <1>2, <2>1, <2>2 DEF Opened
  <2>4. Carries(db, e, 18)
    BY <1>1, <2>1, <2>3, FoldPoolStep
  <2>5. QED BY <2>3, <2>4, OrdinaryStep DEF Carries
<1>3. CASE Step(19, IF hadCredPool THEN DropTable(db, "service_credentials") ELSE db)
  <2>1. PICK e : e = IF Has(db, "service_credentials") THEN DropTable(db, "service_credentials") ELSE db
    OBVIOUS
  <2>2. at = 19
    BY <1>3 DEF Step
  <2>3. Step(19, e) /\ Progress(db, 19)
    BY <1>1, <1>3, <2>1, <2>2 DEF Opened
  <2>4. SaysTheSame(db, e, 19)
    BY <1>1, <2>1, <2>3, DropPool
  <2>5. QED BY <2>3, <2>4, OrdinaryStep
<1>4. QED BY <1>2, <1>3 DEF Pool

LEMMA SchemaCarries == ASSUME MigrationInv, Schema \/ Backfills PROVE MigrationInv'
<1>1. WellFormed(db) /\ (at \in 1..Opened => Progress(db, at))
  BY DEF MigrationInv
<1>2. ASSUME NEW n \in 20..22, NEW e, Step(n, e), SaysTheSame(db, e, n) PROVE MigrationInv'
  BY <1>2, OrdinaryStep
<1>3. ASSUME NEW n \in 20..22, NEW e, Step(n, e) PROVE Progress(db, n)
  BY <1>1, <1>3 DEF Step, Opened
<1>4. CASE Step(20, MigrateProviderSchema(db))
  BY <1>1, <1>2, <1>3, <1>4, SchemaStep
<1>5. CASE Step(21, BackfillSessions(db))
  BY <1>1, <1>2, <1>3, <1>5, BackfillSessionsStep
<1>6. CASE Step(22, BackfillUserSpend(db))
  BY <1>1, <1>2, <1>3, <1>6, BackfillSpendStep
<1>7. QED BY <1>4, <1>5, <1>6 DEF Schema, Backfills

(* While there is nothing left to split, a token step leaves the database. *)
LEMMA IdleTokenStep ==
    ASSUME NEW d, NEW n \in {15, 17}, WellFormed(d), Progress(d, n)
    PROVE  TokenStep(d, d, n) /\ TokensAlike(d, d)
<1>1. Progress(d, n + 1)
  <2>1. CASE n = 15
    BY <2>1 DEF Progress
  <2>2. CASE n = 17
    BY <2>2 DEF Progress
  <2>3. QED BY <2>1, <2>2
<1>2. QED BY <1>1 DEF TokenStep, StableAlike, TokensAlike

LEMMA RenameCachedCarries == ASSUME MigrationInv, RenameCached PROVE MigrationInv'
<1>1. /\ at = 14 /\ at' = 14 + 1
      /\ hadCredPool' = hadCredPool /\ meaning' = meaning /\ cut' = cut
  BY DEF RenameCached
<1>2. PICK e : e = RenameColumn(db, "calls", "cached_tokens", "cache_read_input_tokens")
  OBVIOUS
<1>3. db' = e
  BY <1>2 DEF RenameCached
<1>4. WellFormed(db) /\ Progress(db, 14)
  BY <1>1 DEF MigrationInv, Opened
<1>5. ~cut => TokensSaid(db, meaning)
  BY <1>1 DEF MigrationInv, InTokenWindow
<1>6. /\ TokenStep(db, e, 14)
      /\ ~HasColumn(db, "calls", "cached_tokens") => TokensAlike(db, e)
      /\ (HasColumn(db, "calls", "cached_tokens") /\ TokensSaid(db, meaning)) => TokensOwed(e, 15, meaning)
  BY <1>2, <1>4, RenameCachedStep
<1>7. tokensMigrated' = HasColumn(db, "calls", "cached_tokens")
  BY DEF RenameCached
<1>8. InTokenWindow' <=> HasColumn(db, "calls", "cached_tokens")
  BY <1>1, <1>7 DEF InTokenWindow
<1>9. ~cut => IF InTokenWindow' THEN TokensOwed(e, 14 + 1, meaning) ELSE TokensSaid(e, meaning)
  BY <1>5, <1>6, <1>8, StillSaid
<1>10. QED BY <1>1, <1>3, <1>6, <1>9, TokenStepCarries

LEMMA TokenizeCarries == ASSUME MigrationInv, Tokenize PROVE MigrationInv'
<1>1. WellFormed(db) /\ (at \in 1..Opened => Progress(db, at))
  BY DEF MigrationInv
<1>2. ~cut => IF InTokenWindow THEN TokensOwed(db, at, meaning) ELSE TokensSaid(db, meaning)
  BY DEF MigrationInv
<1>3. CASE Step(15, IF tokensMigrated THEN SplitInput(db) ELSE db)
  <2>1. at = 15 /\ at' = 15 + 1 /\ tokensMigrated' = tokensMigrated
        /\ hadCredPool' = hadCredPool /\ meaning' = meaning /\ cut' = cut
    BY <1>3 DEF Step
  <2>2. Progress(db, 15)
    BY <1>1, <2>1 DEF Opened
  <2>3. (InTokenWindow <=> tokensMigrated) /\ (InTokenWindow' <=> tokensMigrated)
    BY <2>1 DEF InTokenWindow
  <2>4. CASE tokensMigrated
    <3>1. PICK e : e = SplitInput(db)
      OBVIOUS
    <3>2. db' = e
      BY <1>3, <2>4, <3>1 DEF Step
    <3>3. TokenStep(db, e, 15) /\ (TokensOwed(db, 15, meaning) => TokensOwed(e, 16, meaning))
      BY <1>1, <2>2, <3>1, SplitStep
    <3>4. ~cut => IF InTokenWindow' THEN TokensOwed(e, 15 + 1, meaning) ELSE TokensSaid(e, meaning)
      BY <1>2, <2>1, <2>3, <2>4, <3>3
    <3>5. QED BY <2>1, <3>2, <3>3, <3>4, TokenStepCarries
  <2>5. CASE ~tokensMigrated
    <3>1. db' = db
      BY <1>3, <2>5 DEF Step
    <3>2. TokenStep(db, db, 15)
      BY <1>1, <2>2, IdleTokenStep
    <3>3. ~cut => IF InTokenWindow' THEN TokensOwed(db, 15 + 1, meaning) ELSE TokensSaid(db, meaning)
      BY <1>2, <2>3, <2>5
    <3>4. QED BY <2>1, <3>1, <3>2, <3>3, TokenStepCarries
  <2>6. QED BY <2>4, <2>5
<1>4. CASE Step(16, AddColumn(db, "calls", "cache_read_input_tokens"))
  <2>1. at = 16 /\ at' = 16 + 1 /\ tokensMigrated' = tokensMigrated
        /\ hadCredPool' = hadCredPool /\ meaning' = meaning /\ cut' = cut
    BY <1>4 DEF Step
  <2>2. Progress(db, 16)
    BY <1>1, <2>1 DEF Opened
  <2>3. (InTokenWindow <=> tokensMigrated) /\ (InTokenWindow' <=> tokensMigrated)
    BY <2>1 DEF InTokenWindow
  <2>4. PICK e : e = AddColumn(db, "calls", "cache_read_input_tokens")
    OBVIOUS
  <2>5. db' = e
    BY <1>4, <2>4 DEF Step
  <2>6. Carries(db, e, 16) /\ (TokensOwed(db, 16, meaning) => TokensOwed(e, 17, meaning))
    BY <1>1, <2>2, <2>4, AddCacheReadStep
  <2>7. TokenStep(db, e, 16) /\ TokensAlike(db, e)
    BY <2>6 DEF Carries, SaysTheSame, TokenStep
  <2>8. ~cut => IF InTokenWindow' THEN TokensOwed(e, 16 + 1, meaning) ELSE TokensSaid(e, meaning)
    BY <1>2, <2>1, <2>3, <2>6, <2>7, StillSaid
  <2>9. QED BY <2>1, <2>5, <2>7, <2>8, TokenStepCarries
<1>5. CASE Step(17, IF tokensMigrated THEN ReseedSessions(db) ELSE db)
  <2>1. at = 17 /\ at' = 17 + 1 /\ tokensMigrated' = tokensMigrated
        /\ hadCredPool' = hadCredPool /\ meaning' = meaning /\ cut' = cut
    BY <1>5 DEF Step
  <2>2. Progress(db, 17)
    BY <1>1, <2>1 DEF Opened
  <2>3. (InTokenWindow <=> tokensMigrated) /\ ~InTokenWindow'
    BY <2>1 DEF InTokenWindow
  <2>4. CASE tokensMigrated
    <3>1. PICK e : e = ReseedSessions(db)
      OBVIOUS
    <3>2. db' = e
      BY <1>5, <2>4, <3>1 DEF Step
    <3>3. TokenStep(db, e, 17) /\ (TokensOwed(db, 17, meaning) => TokensSaid(e, meaning))
      BY <1>1, <2>2, <3>1, ReseedStep
    <3>4. ~cut => IF InTokenWindow' THEN TokensOwed(e, 17 + 1, meaning) ELSE TokensSaid(e, meaning)
      BY <1>2, <2>1, <2>3, <2>4, <3>3
    <3>5. QED BY <2>1, <3>2, <3>3, <3>4, TokenStepCarries
  <2>5. CASE ~tokensMigrated
    <3>1. db' = db
      BY <1>5, <2>5 DEF Step
    <3>2. TokenStep(db, db, 17)
      BY <1>1, <2>2, IdleTokenStep
    <3>3. ~cut => IF InTokenWindow' THEN TokensOwed(db, 17 + 1, meaning) ELSE TokensSaid(db, meaning)
      BY <1>2, <2>3, <2>5
    <3>4. QED BY <2>1, <3>1, <3>2, <3>3, TokenStepCarries
  <2>6. QED BY <2>4, <2>5
<1>6. QED BY <1>3, <1>4, <1>5 DEF Tokenize

(* Opening, stopping and closing: the database is as it was left. *)
LEMMA OpeningCarries ==
    ASSUME MigrationInv, Upgrade \/ Open \/ FinishMigration \/ Refuse \/ Stop \/ Close
    PROVE  MigrationInv'
<1>1. /\ at \in 0..Unopened /\ WellFormed(db) /\ DOMAIN meaning = Parts /\ StableSaid(db, meaning)
      /\ ~cut => IF InTokenWindow THEN TokensOwed(db, at, meaning) ELSE TokensSaid(db, meaning)
      /\ at \in 1..Opened => Progress(db, at)
  BY DEF MigrationInv
<1>2. \A d : Progress(d, 1)
  BY DEF Progress
<1>3. CASE Upgrade
  <2>1. /\ db' \in Eras /\ meaning' = Meaning(db') /\ at' = 1
        /\ hadCredPool' <=> Has(db', "service_credentials")
    BY <1>3 DEF Upgrade
  <2>2. DOMAIN meaning' = Parts /\ StableSaid(db', meaning') /\ TokensSaid(db', meaning')
    BY <2>1, SaidByItself
  <2>3. WellFormed(db')
    BY <2>1, MigrationAssumption
  <2>4. ~InTokenWindow' /\ at' \in 0..Unopened
    BY <2>1 DEF InTokenWindow, Unopened
  <2>5. QED BY <1>2, <2>1, <2>2, <2>3, <2>4 DEF MigrationInv
<1>4. CASE Open
  <2>1. /\ db' = db /\ meaning' = meaning /\ cut' = cut /\ at = 0 /\ at' = 1
        /\ hadCredPool' <=> Has(db, "service_credentials")
    BY <1>4 DEF Open, Closed
  <2>2. ~InTokenWindow /\ ~InTokenWindow' /\ at' \in 0..Unopened
    BY <2>1 DEF InTokenWindow, Unopened
  <2>3. QED BY <1>1, <1>2, <2>1, <2>2 DEF MigrationInv
<1>5. CASE FinishMigration
  <2>1. /\ db' = db /\ meaning' = meaning /\ cut' = cut /\ at = 23 /\ at' = 24
    BY <1>5 DEF FinishMigration, Opened
  <2>2. ~InTokenWindow /\ ~InTokenWindow' /\ at' \in 0..Unopened /\ at' \notin 1..19
    BY <2>1 DEF InTokenWindow, Unopened
  <2>3. Progress(db, 23)
    BY <1>1, <2>1 DEF Opened
  <2>4. Progress(db, 24)
    BY <2>3 DEF Progress
  <2>5. QED BY <1>1, <2>1, <2>2, <2>4 DEF MigrationInv
<1>6. CASE Refuse
  <2>1. /\ db' = db /\ meaning' = meaning /\ cut' = cut /\ at = 20 /\ at' = 25
    BY <1>6 DEF Refuse, Unopened
  <2>2. ~InTokenWindow /\ ~InTokenWindow' /\ at' \in 0..Unopened /\ at' \notin 1..19 /\ at' \notin 1..Opened
    BY <2>1 DEF InTokenWindow, Unopened, Opened
  <2>3. QED BY <1>1, <2>1, <2>2 DEF MigrationInv
<1>7. CASE Stop
  <2>1. /\ db' = db /\ meaning' = meaning /\ (cut' <=> (cut \/ InTokenWindow)) /\ at' = 0
    BY <1>7 DEF Stop, Closed
  <2>2. ~InTokenWindow' /\ at' \in 0..Unopened /\ at' \notin 1..19 /\ at' \notin 1..Opened
    BY <2>1 DEF InTokenWindow, Unopened, Opened
  <2>3. ~cut' => TokensSaid(db', meaning')
    BY <1>1, <2>1
  <2>4. QED BY <1>1, <2>1, <2>2, <2>3 DEF MigrationInv
<1>8. CASE Close
  <2>1. /\ db' = db /\ meaning' = meaning /\ cut' = cut /\ at = 24 /\ at' = 0
    BY <1>8 DEF Close, Closed, Opened
  <2>2. ~InTokenWindow /\ ~InTokenWindow' /\ at' \in 0..Unopened /\ at' \notin 1..19 /\ at' \notin 1..Opened
    BY <2>1 DEF InTokenWindow, Unopened, Opened
  <2>3. QED BY <1>1, <2>1, <2>2 DEF MigrationInv
<1>9. QED BY <1>3, <1>4, <1>5, <1>6, <1>7, <1>8

LEMMA ChangeCarries == ASSUME MigrationInv, Change PROVE MigrationInv'
<1>1. at = Opened /\ at' = at /\ hadCredPool' = hadCredPool /\ cut' = cut
  BY DEF Change
<1>2. /\ WellFormed(db) /\ Progress(db, Opened) /\ DOMAIN meaning = Parts /\ StableSaid(db, meaning)
      /\ ~cut => TokensSaid(db, meaning)
  BY <1>1 DEF MigrationInv, Opened, InTokenWindow
<1>3. at' \in 0..Unopened /\ at' \notin 1..19 /\ at' = Opened /\ ~InTokenWindow'
  BY <1>1 DEF Unopened, Opened, InTokenWindow
<1>4. SUFFICES /\ WellFormed(db') /\ Progress(db', Opened) /\ DOMAIN meaning' = Parts
               /\ StableSaid(db', meaning') /\ (~cut => TokensSaid(db', meaning'))
  BY <1>1, <1>3 DEF MigrationInv
<1>5. {"users", "owners", "bodies", "keys", "costs", "endpoints", "spend", "input", "sessions"}
          = DOMAIN meaning
  BY <1>2 DEF Parts
<1>6. Shaped(db)
  BY <1>2 DEF WellFormed
<1>7. Has(db, "provider_endpoints") /\ Has(db, "calls") /\ Has(db, "raw")
  BY <1>2 DEF Progress, Opened, HasColumn, BaseTables, Has
<1>8. CASE \E k \in DOMAIN db["provider_endpoints"].rows :
               /\ db' = [db EXCEPT !["provider_endpoints"].rows = Lacking(@, k)]
               /\ meaning' = [meaning EXCEPT !.endpoints = Lacking(@, k)]
  <2>1. PICK k : /\ db' = [db EXCEPT !["provider_endpoints"].rows = Lacking(@, k)]
                 /\ meaning' = [meaning EXCEPT !.endpoints = Lacking(@, k)]
    BY <1>8
  <2>2. PICK e : e = Removed(db, k)
    OBVIOUS
  <2>3. db' = e
    BY <1>7, <2>1, <2>2 DEF Removed, SetRows, RowsOf
  <2>4. /\ WellFormed(e) /\ Progress(e, Opened) /\ TokensAlike(db, e)
        /\ UsersIn(e) = UsersIn(db) /\ OwnersIn(e) = OwnersIn(db) /\ BodiesIn(e) = BodiesIn(db)
        /\ KeysIn(e) = KeysIn(db) /\ CostsIn(e) = CostsIn(db) /\ SpendIn(e) = SpendIn(db)
        /\ ReachedIn(e) = Lacking(ReachedIn(db), k)
    BY <1>2, <2>2, RemoveEndpoint
  <2>5. /\ DOMAIN meaning' = Parts
        /\ meaning'.users = meaning.users /\ meaning'.owners = meaning.owners
        /\ meaning'.bodies = meaning.bodies /\ meaning'.keys = meaning.keys
        /\ meaning'.costs = meaning.costs /\ meaning'.endpoints = Lacking(meaning.endpoints, k)
        /\ meaning'.spend = meaning.spend
        /\ meaning'.input = meaning.input /\ meaning'.sessions = meaning.sessions
    BY <1>2, <1>5, <2>1
  <2>6. StableSaid(e, meaning')
    BY <1>2, <2>4, <2>5 DEF StableSaid
  <2>7. ~cut => TokensSaid(e, meaning')
    BY <1>2, <2>4, <2>5 DEF TokensSaid, TokensAlike
  <2>8. QED BY <2>3, <2>4, <2>5, <2>6, <2>7
<1>9. CASE \E c \in DOMAIN db["calls"].rows :
               /\ db' = [db EXCEPT !["calls"].rows = Lacking(@, c), !["raw"].rows = Lacking(@, c)]
               /\ meaning' = [meaning EXCEPT !.owners = Lacking(@, c), !.bodies = @ \ {c},
                                             !.input = Lacking(@, c)]
  <2>1. PICK c \in DOMAIN db["calls"].rows :
               /\ db' = [db EXCEPT !["calls"].rows = Lacking(@, c), !["raw"].rows = Lacking(@, c)]
               /\ meaning' = [meaning EXCEPT !.owners = Lacking(@, c), !.bodies = @ \ {c},
                                             !.input = Lacking(@, c)]
    BY <1>9
  <2>2. PICK e : e = Pruned(db, c)
    OBVIOUS
  <2>3. PICK left : left = Lacking(db["calls"].rows, c)
    OBVIOUS
  <2>4. PICK bodies : bodies = Lacking(db["raw"].rows, c)
    OBVIOUS
  <2>5. db' = [[db EXCEPT !["calls"].rows = left] EXCEPT !["raw"].rows = bodies]
    BY <1>7, <2>1, <2>3, <2>4 DEF Has
  <2>6. db' = e
    BY <1>7, <2>2, <2>3, <2>4, <2>5 DEF Pruned, SetRows, RowsOf
  <2>7. c \in DOMAIN RowsOf(db, "calls")
    BY <1>7, <2>1 DEF RowsOf
  <2>8. /\ WellFormed(e) /\ Progress(e, Opened)
        /\ UsersIn(e) = UsersIn(db) /\ OwnersIn(e) = Lacking(OwnersIn(db), c)
        /\ BodiesIn(e) = BodiesIn(db) \ {c}
        /\ KeysIn(e) = KeysIn(db) /\ CostsIn(e) = CostsIn(db) /\ ReachedIn(e) = ReachedIn(db)
        /\ SpendIn(e) = SpendIn(db)
        /\ TokensIn(e) = Lacking(TokensIn(db), c) /\ SessionsIn(e) = SessionsIn(db)
    BY <1>2, <2>2, <2>7, PruneCall
  <2>9. /\ DOMAIN meaning' = Parts
        /\ meaning'.users = meaning.users /\ meaning'.owners = Lacking(meaning.owners, c)
        /\ meaning'.bodies = meaning.bodies \ {c} /\ meaning'.keys = meaning.keys
        /\ meaning'.costs = meaning.costs /\ meaning'.endpoints = meaning.endpoints
        /\ meaning'.spend = meaning.spend
        /\ meaning'.input = Lacking(meaning.input, c) /\ meaning'.sessions = meaning.sessions
    BY <1>2, <1>5, <2>1
  <2>10. StableSaid(e, meaning')
    BY <1>2, <2>8, <2>9 DEF StableSaid
  <2>11. ~cut => TokensSaid(e, meaning')
    BY <1>2, <2>8, <2>9 DEF TokensSaid
  <2>12. QED BY <2>6, <2>8, <2>9, <2>10, <2>11
<1>10. QED BY <1>8, <1>9 DEF Change

LEMMA MigrationIdles == ASSUME MigrationInv, UNCHANGED migrationVars PROVE MigrationInv'
BY DEF MigrationInv, migrationVars, InTokenWindow

LEMMA MigrationInvSays == MigrationInv => NothingIsLost
<1> SUFFICES ASSUME MigrationInv PROVE NothingIsLost
  OBVIOUS
<1>1. PICK said : said = Meaning(db)
  OBVIOUS
<1>2. DOMAIN said = Parts /\ StableSaid(db, said) /\ TokensSaid(db, said)
  BY <1>1, SaidByItself
<1>3. StableSaid(db, meaning) /\ (~cut /\ ~InTokenWindow => TokensSaid(db, meaning))
  BY DEF MigrationInv
<1>4. ASSUME NEW part \in Parts, part \notin TokenParts PROVE said[part] = meaning[part]
  BY <1>2, <1>3, <1>4 DEF Parts, TokenParts, StableSaid
<1>5. ASSUME NEW part \in TokenParts, ~cut, ~InTokenWindow PROVE said[part] = meaning[part]
  BY <1>2, <1>3, <1>5 DEF TokenParts, TokensSaid
<1>6. \A part \in DOMAIN said :
          (part \in TokenParts /\ (cut \/ InTokenWindow)) \/ said[part] = meaning[part]
  BY <1>2, <1>4, <1>5
<1>7. QED BY <1>1, <1>6 DEF NothingIsLost

(* An upgrade from any earlier release, stopped between any two steps and
   opened again any number of times, with endpoints removed and calls pruned
   between two opens, loses, doubles and brings back nothing (store.go:migrate);
   but for the token counts once a stop has fallen between the token steps. *)
THEOREM UpgradeLosesNothing == MigrationSpec => []NothingIsLost
<1>1. MigrationInv /\ [MigrationNext]_migrationVars => MigrationInv'
  BY RenamesCarry, TablesCarry, RenameCachedCarries, TokenizeCarries, PoolCarries, SchemaCarries,
     OpeningCarries, ChangeCarries, MigrationIdles DEF MigrationNext
<1>2. QED BY MigrationStarts, <1>1, MigrationInvSays, PTL DEF MigrationSpec
=============================================================================
