----------------------------- MODULE SumTheorems -----------------------------
(***************************************************************************)
(* Facts about sums over finite sets, which the balances, windows and      *)
(* backlogs of the models are.  A sum is the library's fold, a recursive   *)
(* function on the subsets of the set.  The theorems on induction take an  *)
(* operator as parameter, which no prover here can instantiate; so each    *)
(* induction is done on a minimal counterexample, which the theorem WFMin  *)
(* on well-founded relations gives.                                        *)
(***************************************************************************)
EXTENDS Integers, FiniteSets, Functions, FiniteSetTheorems, WellFoundedInduction, TLAPS

(* The sum of a function over a finite set of its arguments.  A sum of the *)
(* modules, MapThenSumSet(LAMBDA x : w[x], S), unfolds to the same term.   *)
SumOver(w, S) == FoldFunctionOnSet(+, 0, w, S)

Pick(s) == CHOOSE x \in s : TRUE

IsSum(g, w, S) == g = [s \in SUBSET S |-> IF s = {} THEN 0 ELSE w[Pick(s)] + g[s \ {Pick(s)}]]

(* What the operator of the library unfolds to. *)
LEMMA SumOverIsIter ==
    ASSUME NEW w, NEW S
    PROVE  SumOver(w, S) = (CHOOSE g : IsSum(g, w, S))[S]
BY DEF SumOver, FoldFunctionOnSet, MapThenFoldSet, IsSum, Pick

LEMMA PickInSet == ASSUME NEW s, s # {} PROVE Pick(s) \in s
BY DEF Pick

(* Induction on finite sets: a family of subsets that is not empty has a   *)
(* minimal member.                                                         *)
LEMMA MinimalSubset ==
    ASSUME NEW S, IsFiniteSet(S), NEW B, B \subseteq SUBSET S, B # {}
    PROVE  \E s \in B : \A t \in B : t \subseteq s => t = s
<1>1. IsWellFoundedOn(StrictSubsetOrdering(S), FiniteSubsetsOf(S))
  BY FS_StrictSubsetOrderingWellFounded
<1>2. B \subseteq FiniteSubsetsOf(S)
  BY FS_Subset DEF FiniteSubsetsOf
<1>3. \E s \in B : \A t \in B : ~ (<<t, s>> \in StrictSubsetOrdering(S))
  BY <1>1, <1>2, WFMin
<1>4. QED BY <1>3, FS_Subset DEF StrictSubsetOrdering

(* Two solutions of the equation agree where both are defined. *)
LEMMA SumsAgree ==
    ASSUME NEW w, NEW S, IsFiniteSet(S), NEW T \in SUBSET S, NEW U \in SUBSET S,
           NEW g, NEW h, IsSum(g, w, T), IsSum(h, w, U), NEW s \in SUBSET (T \cap U)
    PROVE  g[s] = h[s]
<1> DEFINE B == {t \in SUBSET (T \cap U) : g[t] # h[t]}
<1> SUFFICES ASSUME B # {} PROVE FALSE
  OBVIOUS
<1>1. PICK t \in B : \A u \in B : u \subseteq t => u = t
  <2>1. B \subseteq SUBSET S
    OBVIOUS
  <2> HIDE DEF B
  <2>2. QED BY <2>1, MinimalSubset
<1>2. t \in SUBSET T /\ t \in SUBSET U
  BY <1>1
<1>3. g[t] = IF t = {} THEN 0 ELSE w[Pick(t)] + g[t \ {Pick(t)}]
  BY <1>2 DEF IsSum
<1>4. h[t] = IF t = {} THEN 0 ELSE w[Pick(t)] + h[t \ {Pick(t)}]
  BY <1>2 DEF IsSum
<1>5. CASE t = {}
  BY <1>1, <1>3, <1>4, <1>5
<1>6. CASE t # {}
  <2>1. Pick(t) \in t
    BY <1>6, PickInSet
  <2>2. t \ {Pick(t)} \in SUBSET (T \cap U) /\ t \ {Pick(t)} # t
    BY <2>1, <1>2
  <2>3. g[t \ {Pick(t)}] = h[t \ {Pick(t)}]
    BY <2>2, <1>1
  <2>4. QED BY <2>3, <1>3, <1>4, <1>1, <1>6
<1>7. QED BY <1>5, <1>6

(* The equation has a solution: from those of the strict subsets. *)
LEMMA SumExists ==
    ASSUME NEW w, NEW S, IsFiniteSet(S)
    PROVE  \E g : IsSum(g, w, S)
<1> DEFINE B == {t \in SUBSET S : ~ \E g : IsSum(g, w, t)}
<1> SUFFICES ASSUME B # {} PROVE FALSE
  OBVIOUS
<1>1. PICK t \in B : \A u \in B : u \subseteq t => u = t
  <2>1. B \subseteq SUBSET S
    OBVIOUS
  <2> HIDE DEF B
  <2>2. QED BY <2>1, MinimalSubset
<1>2. t \in SUBSET S /\ \A u \in SUBSET t : u # t => \E g : IsSum(g, w, u)
  BY <1>1
<1> DEFINE G(u) == CHOOSE g : IsSum(g, w, u)
<1>3. \A u \in SUBSET t : u # t => IsSum(G(u), w, u)
  BY <1>2
<1> DEFINE Top == IF t = {} THEN 0 ELSE w[Pick(t)] + G(t \ {Pick(t)})[t \ {Pick(t)}]
           F == [u \in SUBSET t |-> IF u = t THEN Top ELSE G(u)[u]]
<1> HIDE DEF G
<1>4. ASSUME NEW u \in SUBSET t
      PROVE  F[u] = IF u = {} THEN 0 ELSE w[Pick(u)] + F[u \ {Pick(u)}]
  <2>1. CASE u = {}
    <3>1. CASE u = t
      BY <3>1, <2>1
    <3>2. CASE u # t
      <4>1. IsSum(G(u), w, u)
        BY <3>2, <1>3
      <4>2. G(u)[u] = 0
        BY <4>1, <2>1 DEF IsSum
      <4>3. QED BY <4>2, <3>2, <2>1
    <3>3. QED BY <3>1, <3>2
  <2>2. CASE u # {}
    <3> DEFINE v == u \ {Pick(u)}
    <3>1. Pick(u) \in u /\ v \in SUBSET u /\ v # u /\ v # t /\ v \in SUBSET t
      BY <2>2, PickInSet
    <3>2. F[v] = G(v)[v]
      BY <3>1
    <3>3. CASE u = t
      BY <3>3, <3>2, <2>2
    <3>4. CASE u # t
      <4>1. IsSum(G(u), w, u) /\ IsSum(G(v), w, v)
        BY <3>4, <1>3, <3>1
      <4>2. G(u)[u] = w[Pick(u)] + G(u)[v]
        BY <4>1, <2>2 DEF IsSum
      <4>3. G(u)[v] = G(v)[v]
        <5>1. u \in SUBSET S /\ v \in SUBSET S /\ v \in SUBSET (u \cap v)
          BY <1>2, <3>1
        <5>2. QED BY <4>1, <5>1, SumsAgree
      <4>4. QED BY <4>2, <4>3, <3>2, <3>4, <2>2
    <3>5. QED BY <3>3, <3>4
  <2>3. QED BY <2>1, <2>2
<1>5. IsSum(F, w, t)
  BY <1>4 DEF IsSum
<1>6. QED BY <1>5, <1>1

(* A sum over nothing. *)
LEMMA SumOverEmpty == ASSUME NEW w PROVE SumOver(w, {}) = 0
<1>1. \E g : IsSum(g, w, {})
  BY SumExists, FS_EmptySet
<1>2. IsSum(CHOOSE g : IsSum(g, w, {}), w, {})
  BY <1>1
<1>3. QED BY <1>2, SumOverIsIter DEF IsSum

(* The recursion equation, for the element the library takes out first. *)
LEMMA SumOverPick ==
    ASSUME NEW w, NEW S, IsFiniteSet(S), S # {}
    PROVE  SumOver(w, S) = w[Pick(S)] + SumOver(w, S \ {Pick(S)})
<1> DEFINE T == S \ {Pick(S)}
           g == CHOOSE k : IsSum(k, w, S)
           h == CHOOSE k : IsSum(k, w, T)
<1>1. Pick(S) \in S /\ T \in SUBSET S /\ IsFiniteSet(T)
  BY PickInSet, FS_Subset
<1>2. (\E k : IsSum(k, w, S)) /\ (\E k : IsSum(k, w, T))
  BY <1>1, SumExists
<1>3. IsSum(g, w, S) /\ IsSum(h, w, T)
  BY <1>2
<1>4. SumOver(w, S) = g[S] /\ SumOver(w, T) = h[T]
  BY SumOverIsIter
<1> HIDE DEF g, h
<1>5. g[S] = w[Pick(S)] + g[T]
  BY <1>3, <1>1 DEF IsSum
<1>6. g[T] = h[T]
  <2>1. S \in SUBSET S /\ T \in SUBSET (S \cap T)
    BY <1>1
  <2>2. QED BY <2>1, <1>1, <1>3, SumsAgree
<1>7. QED BY <1>4, <1>5, <1>6

LEMMA SumOverType ==
    ASSUME NEW S, IsFiniteSet(S), NEW w, \A x \in S : w[x] \in Nat
    PROVE  SumOver(w, S) \in Nat
<1> DEFINE B == {t \in SUBSET S : SumOver(w, t) \notin Nat}
<1> SUFFICES ASSUME B # {} PROVE FALSE
  OBVIOUS
<1>1. PICK t \in B : \A u \in B : u \subseteq t => u = t
  <2>1. B \subseteq SUBSET S
    OBVIOUS
  <2> HIDE DEF B
  <2>2. QED BY <2>1, MinimalSubset
<1>2. IsFiniteSet(t) /\ t \subseteq S
  BY <1>1, FS_Subset
<1>3. CASE t = {}
  BY <1>1, <1>3, SumOverEmpty
<1>4. CASE t # {}
  <2>1. Pick(t) \in t
    BY <1>4, PickInSet
  <2>2. SumOver(w, t \ {Pick(t)}) \in Nat
    BY <2>1, <1>1
  <2>3. SumOver(w, t) = w[Pick(t)] + SumOver(w, t \ {Pick(t)})
    BY <1>2, <1>4, SumOverPick
  <2>4. w[Pick(t)] \in Nat
    BY <2>1, <1>2
  <2>5. QED BY <2>2, <2>3, <2>4, <1>1
<1>5. QED BY <1>3, <1>4

(* Any element can be taken out: the order of summation does not matter. *)
LEMMA SumOverRemove ==
    ASSUME NEW S, IsFiniteSet(S), NEW w, \A y \in S : w[y] \in Nat, NEW x \in S
    PROVE  SumOver(w, S) = w[x] + SumOver(w, S \ {x})
<1> DEFINE Wrong(t, y) == SumOver(w, t) # w[y] + SumOver(w, t \ {y})
           B == {t \in SUBSET S : \E y \in t : Wrong(t, y)}
<1> SUFFICES B = {}
  OBVIOUS
<1> SUFFICES ASSUME B # {} PROVE FALSE
  OBVIOUS
<1>1. PICK t \in B : \A u \in B : u \subseteq t => u = t
  <2>1. B \subseteq SUBSET S
    OBVIOUS
  <2> HIDE DEF B
  <2>2. QED BY <2>1, MinimalSubset
<1>2. PICK y \in t : Wrong(t, y)
  OBVIOUS
<1>3. IsFiniteSet(t) /\ t \subseteq S /\ t # {}
  BY <1>1, <1>2, FS_Subset
<1>4. PICK p : p = Pick(t)
  OBVIOUS
<1>5. p \in t /\ SumOver(w, t) = w[p] + SumOver(w, t \ {p})
  BY <1>3, <1>4, PickInSet, SumOverPick
<1>6. p # y
  BY <1>2, <1>5
<1>7. SumOver(w, t \ {p}) = w[y] + SumOver(w, (t \ {p}) \ {y})
  <2>1. t \ {p} \in SUBSET S /\ t \ {p} \subseteq t /\ t \ {p} # t /\ y \in t \ {p}
    BY <1>3, <1>5, <1>6
  <2>2. t \ {p} \notin B
    BY <2>1, <1>1
  <2>3. QED BY <2>1, <2>2
<1>8. SumOver(w, t \ {y}) = w[p] + SumOver(w, (t \ {y}) \ {p})
  <2>1. t \ {y} \in SUBSET S /\ t \ {y} \subseteq t /\ t \ {y} # t /\ p \in t \ {y}
    BY <1>3, <1>5, <1>6
  <2>2. t \ {y} \notin B
    BY <2>1, <1>1
  <2>3. QED BY <2>1, <2>2
<1>9. (t \ {p}) \ {y} = (t \ {y}) \ {p}
  OBVIOUS
<1>10. w[y] \in Nat /\ w[p] \in Nat /\ SumOver(w, (t \ {y}) \ {p}) \in Nat
  <2>1. (t \ {y}) \ {p} \in SUBSET S /\ IsFiniteSet((t \ {y}) \ {p})
    BY <1>3, FS_Subset
  <2>2. QED BY <2>1, <1>3, <1>5, SumOverType
<1>11. \A a, b, c \in Nat : a + (b + c) = b + (a + c)
  OBVIOUS
<1>12. SumOver(w, t) = w[y] + SumOver(w, t \ {y})
  BY <1>5, <1>7, <1>8, <1>9, <1>10, <1>11
<1>13. QED BY <1>2, <1>12

(* Only the values on the set count. *)
LEMMA SumOverSame ==
    ASSUME NEW S, IsFiniteSet(S), NEW v, NEW w, \A x \in S : v[x] = w[x]
    PROVE  SumOver(v, S) = SumOver(w, S)
<1> DEFINE B == {t \in SUBSET S : SumOver(v, t) # SumOver(w, t)}
<1> SUFFICES ASSUME B # {} PROVE FALSE
  OBVIOUS
<1>1. PICK t \in B : \A u \in B : u \subseteq t => u = t
  <2>1. B \subseteq SUBSET S
    OBVIOUS
  <2> HIDE DEF B
  <2>2. QED BY <2>1, MinimalSubset
<1>2. IsFiniteSet(t) /\ t \subseteq S /\ SumOver(v, t) # SumOver(w, t)
  BY <1>1, FS_Subset
<1>3. t # {}
  BY <1>2, SumOverEmpty
<1>4. PICK p : p = Pick(t)
  OBVIOUS
<1>5. /\ p \in t
      /\ SumOver(v, t) = v[p] + SumOver(v, t \ {p})
      /\ SumOver(w, t) = w[p] + SumOver(w, t \ {p})
  BY <1>2, <1>3, <1>4, PickInSet, SumOverPick
<1>6. t \ {p} \in SUBSET S /\ t \ {p} \subseteq t /\ t \ {p} # t
  BY <1>2, <1>5
<1>7. SumOver(v, t \ {p}) = SumOver(w, t \ {p})
  BY <1>1, <1>6
<1>8. QED BY <1>2, <1>5, <1>7

LEMMA SumOverAdd ==
    ASSUME NEW S, IsFiniteSet(S), NEW x, x \notin S, NEW w, \A y \in S \cup {x} : w[y] \in Nat
    PROVE  SumOver(w, S \cup {x}) = w[x] + SumOver(w, S)
<1>1. IsFiniteSet(S \cup {x}) /\ x \in S \cup {x} /\ (S \cup {x}) \ {x} = S
  BY FS_AddElement
<1>2. QED BY <1>1, SumOverRemove

(* One value changes: the sum changes by as much. *)
LEMMA SumOverChange ==
    ASSUME NEW S, IsFiniteSet(S), NEW x \in S, NEW v, NEW w,
           \A y \in S : v[y] \in Nat /\ w[y] \in Nat,
           \A y \in S \ {x} : v[y] = w[y]
    PROVE  SumOver(w, S) + v[x] = SumOver(v, S) + w[x]
<1>1. IsFiniteSet(S \ {x})
  BY FS_RemoveElement
<1>2. SumOver(v, S \ {x}) = SumOver(w, S \ {x}) /\ SumOver(v, S \ {x}) \in Nat
  BY <1>1, SumOverSame, SumOverType
<1>3. SumOver(v, S) = v[x] + SumOver(v, S \ {x}) /\ SumOver(w, S) = w[x] + SumOver(w, S \ {x})
  BY SumOverRemove
<1>4. v[x] \in Nat /\ w[x] \in Nat
  OBVIOUS
<1>5. QED BY <1>2, <1>3, <1>4

(* Induction on the naturals, in the same form. *)
LEMMA LeastNatural ==
    ASSUME NEW B, B \subseteq Nat, B # {}
    PROVE  \E n \in B : \A m \in B : n <= m
<1>1. PICK k \in B : TRUE
  OBVIOUS
<1> DEFINE Below == {0..m : m \in {i \in B : i <= k}}
<1>2. k \in Nat /\ IsFiniteSet(0..k)
  BY <1>1, FS_Interval
<1>8. PICK top : top = 0..k
  OBVIOUS
<1>3. PICK s \in Below : \A t \in Below : t \subseteq s => t = s
  <2>1. Below \subseteq SUBSET (0..k)
    BY <1>2
  <2>2. 0..k \in Below
    BY <1>1, <1>2
  <2>3. Below # {}
    BY <2>2
  <2> HIDE DEF Below
  <2>5. IsFiniteSet(top) /\ Below \subseteq SUBSET top
    BY <1>2, <1>8, <2>1
  <2>6. QED BY <2>3, <2>5, MinimalSubset
<1>4. PICK n \in {i \in B : i <= k} : s = 0..n
  BY <1>3 DEF Below
<1>5. ASSUME NEW m \in B, m < n
      PROVE  FALSE
  <2>1. 0..m \in Below
    BY <1>4, <1>5 DEF Below
  <2>2. 0..m \subseteq 0..n /\ n \in 0..n /\ n \notin 0..m
    BY <1>4, <1>5
  <2>3. QED BY <2>1, <2>2, <1>3, <1>4
<1>6. QED BY <1>4, <1>5

(* Sums over 0..n, as the ages of a window. *)
LEMMA SumUpTo ==
    ASSUME NEW n \in Nat, NEW w, \A i \in 0..n : w[i] \in Nat
    PROVE  /\ SumOver(w, 0..n) = w[n] + SumOver(w, 0..(n - 1))
           /\ SumOver(w, 0..n) \in Nat
           /\ SumOver(w, 0..(n - 1)) \in Nat
<1>1. IsFiniteSet(0..n) /\ IsFiniteSet(0..(n - 1))
  BY FS_Interval
<1>2. n \in 0..n /\ (0..n) \ {n} = 0..(n - 1)
  OBVIOUS
<1>3. PICK S : S = 0..n
  OBVIOUS
<1>4. PICK T : T = 0..(n - 1)
  OBVIOUS
<1>5. SumOver(w, S) = w[n] + SumOver(w, T)
  BY <1>1, <1>2, <1>3, <1>4, SumOverRemove
<1>6. SumOver(w, S) \in Nat /\ SumOver(w, T) \in Nat
  <2>1. T \subseteq S
    BY <1>3, <1>4
  <2>2. QED BY <2>1, <1>1, <1>3, <1>4, SumOverType
<1>7. QED BY <1>3, <1>4, <1>5, <1>6

(* Everything moves one place up, and nothing enters. *)
LEMMA SumShifted ==
    ASSUME NEW n \in Nat, NEW v, NEW w, v[0] = 0,
           \A i \in 1..n : v[i] = w[i - 1],
           \A i \in 0..(n - 1) : w[i] \in Nat
    PROVE  SumOver(v, 0..n) = SumOver(w, 0..(n - 1))
<1> DEFINE B == {k \in 0..n : SumOver(v, 0..k) # SumOver(w, 0..(k - 1))}
<1>1. SUFFICES ASSUME B # {} PROVE FALSE
  <2>1. n \in 0..n
    OBVIOUS
  <2>2. QED BY <2>1
<1>2. PICK k \in B : \A m \in B : k <= m
  <2>1. B \subseteq Nat
    OBVIOUS
  <2> HIDE DEF B
  <2>2. QED BY <1>1, <2>1, LeastNatural
<1>3. k \in 0..n /\ SumOver(v, 0..k) # SumOver(w, 0..(k - 1))
  BY <1>2
<1>4. \A i \in 0..n : v[i] \in Nat
  <2>1. ASSUME NEW i \in 0..n PROVE v[i] \in Nat
    <3>1. CASE i = 0
      BY <3>1
    <3>2. CASE i # 0
      <4>1. i \in 1..n /\ i - 1 \in 0..(n - 1)
        BY <3>2
      <4>2. QED BY <4>1
    <3>3. QED BY <3>1, <3>2
  <2>2. QED BY <2>1
<1>5. SumOver(v, 0..k) = v[k] + SumOver(v, 0..(k - 1))
  <2>1. k \in Nat /\ \A i \in 0..k : v[i] \in Nat
    BY <1>3, <1>4
  <2>2. QED BY <2>1, SumUpTo
<1>6. CASE k = 0
  <2>1. 0..(k - 1) = {}
    BY <1>6
  <2>2. SumOver(v, 0..(k - 1)) = 0 /\ SumOver(w, 0..(k - 1)) = 0
    BY <2>1, SumOverEmpty
  <2>3. QED BY <1>3, <1>5, <1>6, <2>2
<1>7. CASE k # 0
  <2>1. k - 1 \in Nat /\ k - 1 \in 0..n /\ k \in 1..n /\ k - 1 \notin B
    BY <1>2, <1>3, <1>7
  <2>2. SumOver(v, 0..(k - 1)) = SumOver(w, 0..((k - 1) - 1))
    BY <2>1
  <2>3. SumOver(w, 0..(k - 1)) = w[k - 1] + SumOver(w, 0..((k - 1) - 1))
    <3>1. \A i \in 0..(k - 1) : w[i] \in Nat
      BY <1>3
    <3>2. QED BY <2>1, <3>1, SumUpTo
  <2>4. v[k] = w[k - 1]
    BY <2>1
  <2>5. QED BY <1>3, <1>5, <2>2, <2>3, <2>4
<1>8. QED BY <1>6, <1>7

LEMMA SumOfZeros ==
    ASSUME NEW S, IsFiniteSet(S), NEW w, \A x \in S : w[x] = 0
    PROVE  SumOver(w, S) = 0
<1> DEFINE B == {t \in SUBSET S : SumOver(w, t) # 0}
<1> SUFFICES ASSUME B # {} PROVE FALSE
  OBVIOUS
<1>1. PICK t \in B : \A u \in B : u \subseteq t => u = t
  <2>1. B \subseteq SUBSET S
    OBVIOUS
  <2> HIDE DEF B
  <2>2. QED BY <2>1, MinimalSubset
<1>2. IsFiniteSet(t) /\ t \subseteq S /\ SumOver(w, t) # 0
  BY <1>1, FS_Subset
<1>3. t # {}
  BY <1>2, SumOverEmpty
<1>4. PICK p : p = Pick(t)
  OBVIOUS
<1>5. p \in t /\ SumOver(w, t) = w[p] + SumOver(w, t \ {p})
  BY <1>2, <1>3, <1>4, PickInSet, SumOverPick
<1>6. SumOver(w, t \ {p}) = 0
  <2>1. t \ {p} \in SUBSET S /\ t \ {p} \subseteq t /\ t \ {p} # t
    BY <1>2, <1>5
  <2>2. QED BY <2>1, <1>1
<1>7. QED BY <1>2, <1>5, <1>6

(* The values of a sum, grouped by a key. *)
PartOf(S, key, k) == {x \in S : key[x] = k}
Keyed(S, key, K) == \A x \in S : key[x] \in K
Weighed(S, w) == \A x \in S : w[x] \in Nat
SumsOfParts(v, K, S, key, w) == \A k \in K : v[k] = SumOver(w, PartOf(S, key, k))
CountsOfParts(v, K, S, key, Q) == \A k \in K : v[k] = Cardinality(PartOf(S, key, k) \cap Q)

LEMMA SumByKey ==
    ASSUME NEW S, IsFiniteSet(S), NEW w, \A x \in S : w[x] \in Nat,
           NEW K, IsFiniteSet(K), NEW key, \A x \in S : key[x] \in K,
           NEW v, \A k \in K : v[k] = SumOver(w, PartOf(S, key, k))
    PROVE  SumOver(v, K) = SumOver(w, S)
<1> DEFINE Part(T, k) == PartOf(T, key, k)
           V(T) == [k \in K |-> SumOver(w, Part(T, k))]
           B == {T \in SUBSET S : SumOver(V(T), K) # SumOver(w, T)}
<1>1. SUFFICES B = {}
  <2>1. \A k \in K : v[k] = V(S)[k]
    OBVIOUS
  <2>2. SumOver(v, K) = SumOver(V(S), K)
    <3> HIDE DEF V
    <3>1. QED BY <2>1, SumOverSame
  <2>3. S \notin B
    BY <1>1
  <2>4. QED BY <2>2, <2>3
<1>2. SUFFICES ASSUME B # {} PROVE FALSE
  OBVIOUS
<1>3. PICK T \in B : \A U \in B : U \subseteq T => U = T
  <2>1. B \subseteq SUBSET S
    OBVIOUS
  <2> HIDE DEF B
  <2>2. QED BY <1>2, <2>1, MinimalSubset
<1>4. T \subseteq S /\ IsFiniteSet(T)
  BY <1>3, FS_Subset
<1>5. CASE T = {}
  <2>1. \A k \in K : V(T)[k] = 0
    <3>1. \A k \in K : Part(T, k) = {}
      BY <1>5 DEF PartOf
    <3>2. QED BY <3>1, SumOverEmpty
  <2>2. SumOver(V(T), K) = 0
    <3> HIDE DEF V
    <3>1. QED BY <2>1, SumOfZeros
  <2>3. QED BY <1>3, <1>5, <2>2, SumOverEmpty
<1>6. CASE T # {}
  <2>1. PICK x \in T : TRUE
    BY <1>6
  <2> DEFINE U == T \ {x}
  <2>2. x \in S /\ U \subseteq S /\ U # T /\ IsFiniteSet(U) /\ U \subseteq T
    BY <1>4, <2>1, FS_Subset
  <2>3. SumOver(V(U), K) = SumOver(w, U)
    BY <1>3, <2>2
  <2>4. SumOver(w, T) = w[x] + SumOver(w, U)
    BY <1>4, <2>1, SumOverRemove
  <2>5. \A k \in K : /\ IsFiniteSet(Part(T, k)) /\ Part(T, k) \subseteq S
                     /\ IsFiniteSet(Part(U, k)) /\ Part(U, k) \subseteq S
    BY <1>4, <2>2, FS_Subset DEF PartOf
  <2>6. \A k \in K : V(T)[k] \in Nat /\ V(U)[k] \in Nat
    <3>1. TAKE k \in K
    <3>2. SumOver(w, Part(T, k)) \in Nat /\ SumOver(w, Part(U, k)) \in Nat
      BY <2>5, SumOverType
    <3>3. QED BY <3>2
  <2>7. PICK k0 \in K : k0 = key[x]
    BY <2>2
  <2>8. V(T)[k0] = w[x] + V(U)[k0]
    <3>1. x \in Part(T, k0) /\ Part(T, k0) \ {x} = Part(U, k0)
      BY <2>1, <2>7 DEF PartOf
    <3>2. SumOver(w, Part(T, k0)) = w[x] + SumOver(w, Part(T, k0) \ {x})
      <4> HIDE DEF Part
      <4>1. QED BY <2>5, <3>1, SumOverRemove
    <3>3. QED BY <3>1, <3>2
  <2>9. \A k \in K \ {k0} : V(U)[k] = V(T)[k]
    <3>1. \A k \in K \ {k0} : Part(T, k) = Part(U, k)
      BY <2>7 DEF PartOf
    <3>2. QED BY <3>1
  <2>10. SumOver(V(T), K) + V(U)[k0] = SumOver(V(U), K) + V(T)[k0]
    <3> HIDE DEF V
    <3>1. \A k \in K : V(U)[k] \in Nat /\ V(T)[k] \in Nat
      BY <2>6
    <3>2. PICK f, g : f = V(U) /\ g = V(T)
      OBVIOUS
    <3>3. SumOver(g, K) + f[k0] = SumOver(f, K) + g[k0]
      <4>1. \A k \in K : f[k] \in Nat /\ g[k] \in Nat
        BY <3>1, <3>2
      <4>2. \A k \in K \ {k0} : f[k] = g[k]
        BY <2>9, <3>2
      <4>3. QED BY <4>1, <4>2, SumOverChange
    <3>4. QED BY <3>2, <3>3
  <2>11. SumOver(V(T), K) \in Nat /\ SumOver(V(U), K) \in Nat
    <3> HIDE DEF V
    <3>1. QED BY <2>6, SumOverType
  <2>12. SumOver(V(T), K) = SumOver(w, T)
    <3>1. V(U)[k0] \in Nat /\ w[x] \in Nat
      BY <2>2, <2>6
    <3> HIDE DEF V, U
    <3>2. QED BY <2>3, <2>4, <2>8, <2>10, <2>11, <3>1
  <2>13. QED BY <1>3, <2>12
<1>7. QED BY <1>5, <1>6

(* A cardinality is a sum of ones. *)
LEMMA SumOfOnes ==
    ASSUME NEW S, IsFiniteSet(S), NEW w, \A x \in S : w[x] = 1
    PROVE  SumOver(w, S) = Cardinality(S)
<1> DEFINE B == {T \in SUBSET S : SumOver(w, T) # Cardinality(T)}
<1>1. SUFFICES ASSUME B # {} PROVE FALSE
  OBVIOUS
<1>2. PICK T \in B : \A U \in B : U \subseteq T => U = T
  <2>1. B \subseteq SUBSET S
    OBVIOUS
  <2> HIDE DEF B
  <2>2. QED BY <1>1, <2>1, MinimalSubset
<1>3. IsFiniteSet(T) /\ T \subseteq S
  BY <1>2, FS_Subset
<1>4. T # {}
  BY <1>2, SumOverEmpty, FS_EmptySet
<1>5. PICK x \in T : TRUE
  BY <1>4
<1>6. T \ {x} \notin B
  BY <1>2, <1>5
<1>7. SumOver(w, T \ {x}) = Cardinality(T \ {x})
  BY <1>3, <1>6
<1>8. Cardinality(T) \in Nat /\ Cardinality(T \ {x}) = Cardinality(T) - 1
  BY <1>3, <1>5, FS_RemoveElement, FS_CardinalityType
<1>9. SumOver(w, T) = w[x] + SumOver(w, T \ {x})
  BY <1>3, <1>5, SumOverRemove
<1>10. QED BY <1>2, <1>3, <1>5, <1>7, <1>8, <1>9

LEMMA CountByKey ==
    ASSUME NEW S, IsFiniteSet(S), NEW K, IsFiniteSet(K), NEW key, \A x \in S : key[x] \in K,
           NEW v, \A k \in K : v[k] = Cardinality(PartOf(S, key, k))
    PROVE  SumOver(v, K) = Cardinality(S)
<1> DEFINE w == [x \in S |-> 1]
<1>1. \A x \in S : w[x] = 1 /\ w[x] \in Nat
  OBVIOUS
<1> HIDE DEF w
<1>2. \A k \in K : v[k] = SumOver(w, PartOf(S, key, k))
  <2>1. TAKE k \in K
  <2> DEFINE P == PartOf(S, key, k)
  <2>2. IsFiniteSet(P) /\ P \subseteq S
    BY FS_Subset DEF PartOf
  <2>3. SumOver(w, P) = Cardinality(P)
    <3> HIDE DEF P
    <3>1. QED BY <1>1, <2>2, SumOfOnes
  <2>4. QED BY <2>3
<1>3. SumOver(v, K) = SumOver(w, S)
  <2>1. \A x \in S : w[x] \in Nat
    BY <1>1
  <2>2. QED BY <1>2, <2>1, SumByKey
<1>4. QED BY <1>1, <1>3, SumOfOnes

LEMMA CountDisjoint ==
    ASSUME NEW S, IsFiniteSet(S), NEW T, IsFiniteSet(T), S \cap T = {}
    PROVE  Cardinality(S \cup T) = Cardinality(S) + Cardinality(T)
<1>1. Cardinality(S \cap T) = 0
  BY FS_EmptySet
<1>2. Cardinality(S) \in Nat /\ Cardinality(T) \in Nat
  BY FS_CardinalityType
<1>3. Cardinality(S \cup T) = Cardinality(S) + Cardinality(T) - Cardinality(S \cap T)
  BY FS_Union
<1>4. QED BY <1>1, <1>2, <1>3
(* The same, for a citation to match. *)
LEMMA SumOfParts ==
    ASSUME NEW S, IsFiniteSet(S), NEW w, Weighed(S, w), NEW K, IsFiniteSet(K),
           NEW key, Keyed(S, key, K), NEW v, SumsOfParts(v, K, S, key, w)
    PROVE  SumOver(v, K) = SumOver(w, S)
BY SumByKey DEF Weighed, Keyed, SumsOfParts

(* Rows by a key: no member of Q is lost and none is counted twice. *)
LEMMA CountOfParts ==
    ASSUME NEW S, IsFiniteSet(S), NEW Q, NEW K, IsFiniteSet(K),
           NEW key, Keyed(S, key, K), NEW v, CountsOfParts(v, K, S, key, Q)
    PROVE  SumOver(v, K) = Cardinality(S \cap Q)
<1> DEFINE T == S \cap Q
<1>1. IsFiniteSet(T) /\ \A c \in T : key[c] \in K
  BY FS_Subset DEF Keyed
<1>2. \A k \in K : v[k] = Cardinality(PartOf(T, key, k))
  <2>1. TAKE k \in K
  <2>2. PartOf(T, key, k) = PartOf(S, key, k) \cap Q
    BY DEF PartOf
  <2>3. QED BY <2>2 DEF CountsOfParts
<1> HIDE DEF T
<1>3. SumOver(v, K) = Cardinality(T)
  BY <1>1, <1>2, CountByKey
<1>4. QED BY <1>3 DEF T

(* A finite set that is not empty has a member with the greatest value. *)
LEMMA HasLargest ==
    ASSUME NEW S, IsFiniteSet(S), S # {}, NEW f, \A x \in S : f[x] \in Int
    PROVE  \E x \in S : \A y \in S : f[y] <= f[x]
<1> DEFINE Tops(T) == \E x \in T : \A y \in T : f[y] <= f[x]
           B == {T \in SUBSET S : T # {} /\ ~ Tops(T)}
<1> SUFFICES B = {}
  OBVIOUS
<1>1. SUFFICES ASSUME B # {} PROVE FALSE
  OBVIOUS
<1>2. PICK T \in B : \A U \in B : U \subseteq T => U = T
  <2>1. B \subseteq SUBSET S
    OBVIOUS
  <2> HIDE DEF B
  <2>2. QED BY <1>1, <2>1, MinimalSubset
<1>3. PICK x \in T : TRUE
  BY <1>2
<1>4. CASE T \ {x} = {}
  <2>1. \A y \in T : y = x
    BY <1>4
  <2>2. f[x] \in Int
    BY <1>2, <1>3
  <2>3. QED BY <1>2, <1>3, <2>1, <2>2
<1>5. CASE T \ {x} # {}
  <2>1. T \ {x} \notin B
    BY <1>2, <1>3
  <2>2. Tops(T \ {x})
    BY <2>1, <1>2, <1>5
  <2>3. PICK z \in T \ {x} : \A y \in T \ {x} : f[y] <= f[z]
    BY <2>2
  <2>4. f[x] \in Int /\ f[z] \in Int /\ \A y \in T : f[y] \in Int
    BY <1>2, <1>3
  <2>5. CASE f[x] <= f[z]
    BY <2>3, <2>5, <1>2, <1>3
  <2>6. CASE f[z] <= f[x]
    <3>1. \A y \in T : f[y] <= f[x]
      BY <2>3, <2>4, <2>6
    <3>2. QED BY <3>1, <1>2, <1>3
  <2>7. QED BY <2>4, <2>5, <2>6
<1>6. QED BY <1>4, <1>5

(* The keys of a finite set are finite. *)
LEMMA KeysAreFinite ==
    ASSUME NEW R, IsFiniteSet(R), NEW key
    PROVE  IsFiniteSet({key[c] : c \in R})
<1> DEFINE K == {key[c] : c \in R}
           f == [c \in R |-> key[c]]
<1>1. f \in Surjection(R, K)
  BY DEF Surjection
<1>2. QED BY <1>1, FS_Surjection
=============================================================================
