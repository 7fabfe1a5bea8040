------------------------- MODULE ComputationsProofs -------------------------
(***************************************************************************)
(* Proofs about Computations.                                              *)
(*                                                                         *)
(* Of its prices, for any number of assets, calls and moments: that no     *)
(* price answered is too old, and that prices do not go back, but for the  *)
(* reasons the specification lists.  A price of an asset is held in three  *)
(* places: the cache, the hits of a call that fetches others, and the      *)
(* newest answer so far. The invariant compares any two of them; where it  *)
(* cannot, two calls were fetching the asset at once, which the entry or   *)
(* the call remembers.                                                     *)
(*                                                                         *)
(* Of its transaction history, for any size of a page: that the pages show *)
(* everything that was there when the first was read, in its order. The    *)
(* invariant is that it is still saved in that order, and that what comes  *)
(* before the cursor has been shown.                                       *)
(*                                                                         *)
(* Of what is asked once, for any input: that an amount accepted can be    *)
(* sent, that the validators agree, that a request is answered by the      *)
(* first response, that a message is signed complete and otherwise as it   *)
(* was, that conversions agree, that a transaction shows the account what  *)
(* the chain did to it, that a request is signed as its dialog shows, and  *)
(* that the dialog warns, lists the changes and lists the instructions.    *)
(* They are facts about operators, and the invariant is that only inputs   *)
(* are asked about. Those of the mapping compare sums over finite sets:    *)
(* what the lists of a transaction add up to, and what balances do.        *)
(***************************************************************************)
EXTENDS Computations, FiniteSetTheorems, SequenceTheorems, TLAPS

-----------------------------------------------------------------------------
(* Lists and numbers *)

\* The members of a finite set of numbers are the first to the last of it, in order.
LEMMA NthOf ==
  ASSUME NEW S \in SUBSET Int, IsFiniteSet(S)
  PROVE  /\ Cardinality(S) \in Nat
         /\ \A k \in 1..Cardinality(S) : Nth(S, k) \in S
         /\ \A k, l \in 1..Cardinality(S) : k < l => Nth(S, k) < Nth(S, l)
         /\ \A i \in S : \E k \in 1..Cardinality(S) : i = Nth(S, k)
         /\ \A i \in S, k \in Nat : Cardinality({j \in S : j <= i}) = k => Nth(S, k) = i
<1> DEFINE upTo(i) == {j \in S : j <= i}
           n == Cardinality(S)
           rank == [i \in S |-> Cardinality(upTo(i))]
<1>0. /\ \A i \in S : i \in Int
      /\ \A i, j \in S : i < j \/ i = j \/ j < i
  <2>1. \A i, j \in Int : i < j \/ i = j \/ j < i OBVIOUS
  <2> QED BY <2>1
<1>1. n \in Nat BY FS_CardinalityType
<1>2. \A i \in S : IsFiniteSet(upTo(i)) /\ Cardinality(upTo(i)) \in 1..n
  <2> SUFFICES ASSUME NEW i \in S PROVE IsFiniteSet(upTo(i)) /\ Cardinality(upTo(i)) \in 1..n
    OBVIOUS
  <2>1. upTo(i) \in SUBSET S /\ i \in upTo(i) OBVIOUS
  <2> HIDE DEF upTo
  <2>2. IsFiniteSet(upTo(i)) /\ Cardinality(upTo(i)) <= n BY <2>1, FS_Subset
  <2>3. Cardinality(upTo(i)) \in Nat /\ Cardinality(upTo(i)) # 0
    BY <2>1, <2>2, FS_CardinalityType, FS_EmptySet
  <2> QED BY <2>2, <2>3, <1>1
<1>3. \A i, j \in S : i < j => Cardinality(upTo(i)) < Cardinality(upTo(j))
  <2> SUFFICES ASSUME NEW i \in S, NEW j \in S, i < j
               PROVE  Cardinality(upTo(i)) < Cardinality(upTo(j))
    OBVIOUS
  <2>1. i \in Int /\ j \in Int BY <1>0
  <2>2. j \in upTo(j) /\ j \notin upTo(i) BY <2>1
  <2>3. \A h \in S : h <= i => h <= j BY <2>1, <1>0
  <2>4. upTo(i) \in SUBSET upTo(j) BY <2>3
  <2> HIDE DEF upTo
  <2>5. Cardinality(upTo(i)) <= Cardinality(upTo(j)) /\ Cardinality(upTo(i)) # Cardinality(upTo(j))
    BY <2>2, <2>4, <1>2, FS_Subset
  <2> QED BY <2>5, <1>2, <1>1
<1> HIDE DEF upTo
<1>4. \A k \in 1..n : \E i \in S : Cardinality(upTo(i)) = k
  <2>1. rank \in [S -> 1..n] BY <1>2
  <2>2. \A i, j \in S : rank[i] = rank[j] => i = j BY <1>3, <1>2, <1>1
  <2>3. rank \in Injection(S, 1..n) BY <2>1, <2>2 DEF Injection, IsInjective
  <2>4. IsFiniteSet(1..n) /\ Cardinality(1..n) = n BY <1>1, FS_Interval
  <2>5. rank \in Surjection(S, 1..n) BY <2>3, <2>4, FS_Injection
  <2> QED BY <2>5 DEF Surjection
<1>5. \A k \in 1..n : Nth(S, k) \in S /\ Cardinality(upTo(Nth(S, k))) = k
  BY <1>4 DEF Nth, upTo
<1>6. \A i \in S, k \in Nat : Cardinality(upTo(i)) = k => Nth(S, k) = i
  <2> SUFFICES ASSUME NEW i \in S PROVE Nth(S, Cardinality(upTo(i))) = i OBVIOUS
  <2>1. Cardinality(upTo(i)) \in 1..n BY <1>2
  <2> DEFINE m == Nth(S, Cardinality(upTo(i)))
  <2>2. m \in S /\ Cardinality(upTo(m)) = Cardinality(upTo(i)) BY <2>1, <1>5
  <2>3. ~ m < i /\ ~ i < m
    <3> HIDE DEF m
    <3> QED BY <2>2, <1>3, <1>2, <1>1
  <2> QED BY <2>2, <2>3, <1>0
<1>7. \A k, l \in 1..n : k < l => Nth(S, k) < Nth(S, l)
  <2> SUFFICES ASSUME NEW k \in 1..n, NEW l \in 1..n, k < l, ~ Nth(S, k) < Nth(S, l) PROVE FALSE
    OBVIOUS
  <2>1. Nth(S, k) \in S /\ Nth(S, l) \in S BY <1>5
  <2>2. Nth(S, l) < Nth(S, k) \/ Nth(S, l) = Nth(S, k) BY <2>1, <1>0
  <2>3. Cardinality(upTo(Nth(S, k))) = k /\ Cardinality(upTo(Nth(S, l))) = l BY <1>5
  <2>4. Nth(S, l) < Nth(S, k) => l < k BY <2>1, <2>3, <1>3
  <2>5. Nth(S, l) = Nth(S, k) => l = k BY <2>3
  <2>6. k \in Int /\ l \in Int BY <1>1
  <2> QED BY <2>2, <2>4, <2>5, <2>6
<1>8. \A i \in S : \E k \in 1..n : i = Nth(S, k)
  BY <1>2, <1>6, <1>1
<1> QED BY <1>1, <1>5, <1>6, <1>7, <1>8 DEF upTo

\* How t comes from a list: f tells where each of its entries was.
Picks(f, t, list, S) ==
  /\ t \in Seq(Range(list)) /\ f \in [1..Len(t) -> DOMAIN list]
  /\ \A k, l \in 1..Len(t) : k < l => f[k] < f[l]
  /\ \A k \in 1..Len(t) : t[k] = list[f[k]] /\ t[k] \in S
  /\ \A i \in DOMAIN list : list[i] \in S => \E k \in 1..Len(t) : f[k] = i

\* What filtering leaves comes from the list, from all the places that are kept.
LEMMA FilterPicks ==
  ASSUME NEW A, NEW list \in Seq(A), NEW S
  PROVE  \E f : Picks(f, Filter(list, S), list, S)
<1> DEFINE kept == {i \in DOMAIN list : list[i] \in S}
           n == Cardinality(kept)
           f == [k \in 1..n |-> Nth(kept, k)]
           t == Filter(list, S)
<1>1. Len(list) \in Nat /\ DOMAIN list = 1..Len(list) OBVIOUS
<1>2. IsFiniteSet(kept) /\ kept \in SUBSET Int
  <2>1. IsFiniteSet(1..Len(list)) BY <1>1, FS_Interval
  <2>2. kept \in SUBSET (1..Len(list)) /\ kept \in SUBSET Int BY <1>1
  <2> HIDE DEF kept
  <2> QED BY <2>1, <2>2, FS_Subset
<1>3. /\ n \in Nat
      /\ \A k \in 1..n : Nth(kept, k) \in kept
      /\ \A k, l \in 1..n : k < l => Nth(kept, k) < Nth(kept, l)
      /\ \A i \in kept : \E k \in 1..n : i = Nth(kept, k)
  <2> HIDE DEF kept
  <2> QED BY <1>2, NthOf
<1>4. t = [k \in 1..n |-> list[Nth(kept, k)]] BY DEF Filter
<1>5. t \in Seq(Range(list)) /\ Len(t) = n
  <2>1. \A k \in 1..n : list[Nth(kept, k)] \in Range(list) BY <1>3 DEF Range
  <2> QED BY <2>1, <1>3, <1>4
<1>6. Picks(f, t, list, S)
  <2> HIDE DEF n, t
  <2> QED BY <1>3, <1>4, <1>5 DEF Picks
<1> QED BY <1>6

\* Nothing else comes from the list so.
LEMMA PicksFilter ==
  ASSUME NEW A, NEW list \in Seq(A), NEW S, NEW f, NEW t, Picks(f, t, list, S)
  PROVE  t = Filter(list, S)
<1> DEFINE kept == {i \in DOMAIN list : list[i] \in S}
           n == Len(t)
           upTo(i) == {j \in kept : j <= i}
<1> USE DEF Picks
<1>1. Len(list) \in Nat /\ DOMAIN list = 1..Len(list) /\ n \in Nat /\ DOMAIN t = 1..n OBVIOUS
<1>2. IsFiniteSet(kept) /\ kept \in SUBSET Int
  <2>1. IsFiniteSet(1..Len(list)) BY <1>1, FS_Interval
  <2>2. kept \in SUBSET (1..Len(list)) /\ kept \in SUBSET Int BY <1>1
  <2> HIDE DEF kept
  <2> QED BY <2>1, <2>2, FS_Subset
<1>3. \A k, l \in 1..n : f[k] <= f[l] <=> k <= l
  <2>1. \A k \in 1..n : f[k] \in Int /\ k \in Int BY <1>1
  <2>2. \A k, l \in 1..n : k < l => f[k] < f[l] OBVIOUS
  <2> HIDE DEF Picks, n
  <2> QED BY <2>1, <2>2
<1>4. \A i : i \in kept <=> \E k \in 1..n : f[k] = i
  OBVIOUS
<1>5. \A k \in 0..n : Cardinality({f[l] : l \in 1..k}) = k
  <2> SUFFICES ASSUME NEW k \in 0..n PROVE Cardinality({f[l] : l \in 1..k}) = k OBVIOUS
  <2> DEFINE I == {f[l] : l \in 1..k}
             g == [l \in 1..k |-> f[l]]
  <2>1. g \in [1..k -> I] /\ \A a, b \in 1..k : g[a] = g[b] => a = b
    <3>1. \A a, b \in 1..k : f[a] = f[b] => a = b
      <4>1. \A a \in 1..k : a \in 1..n /\ a \in Int BY <1>1
      <4>2. \A a \in 1..n : f[a] \in Int /\ f[a] <= f[a] BY <1>1
      <4>3. \A a, b \in 1..k : f[a] = f[b] => a <= b /\ b <= a BY <4>1, <4>2, <1>3
      <4>4. \A a, b \in Int : a <= b /\ b <= a => a = b OBVIOUS
      <4> HIDE DEF n
      <4> QED BY <4>1, <4>3, <4>4
    <3>2. \A a \in 1..k : f[a] \in I OBVIOUS
    <3> HIDE DEF I
    <3> QED BY <3>1, <3>2
  <2>2. g \in Bijection(1..k, I)
    BY <2>1 DEF Bijection, Injection, Surjection, IsInjective
  <2>3. IsFiniteSet(1..k) /\ Cardinality(1..k) = k
    BY FS_Interval
  <2>4. ExistsBijection(1..k, I) BY <2>2 DEF ExistsBijection
  <2> HIDE DEF I
  <2>5. Cardinality(I) = k BY <2>4, FS_CountingElements
  <2> QED BY <2>5 DEF I
<1>6. Cardinality(kept) = n
  <2>1. kept = {f[l] : l \in 1..n} BY <1>4
  <2>2. n \in 0..n BY <1>1
  <2> HIDE DEF kept, n
  <2> QED BY <2>1, <2>2, <1>5
<1>7. \A k \in 1..n : f[k] = Nth(kept, k)
  <2> SUFFICES ASSUME NEW k \in 1..n PROVE f[k] = Nth(kept, k) OBVIOUS
  <2>1. {j \in kept : j <= f[k]} = {f[l] : l \in 1..k}
    <3>1. \A l : l \in 1..k <=> l \in 1..n /\ l <= k BY <1>1
    <3> HIDE DEF kept, n
    <3> HIDE DEF Picks
    <3>2. \A l \in 1..n : f[l] <= f[k] <=> l <= k BY <1>3
    <3>3. \A l \in 1..k : f[l] \in kept /\ f[l] <= f[k] BY <1>4, <3>1, <3>2
    <3>4. \A j \in kept : j <= f[k] => \E l \in 1..k : f[l] = j BY <1>4, <3>1, <3>2
    <3> QED BY <3>3, <3>4
  <2>2. Cardinality({j \in kept : j <= f[k]}) = k
    <3>1. k \in 0..n BY <1>1
    <3> HIDE DEF kept, n
    <3> QED BY <2>1, <3>1, <1>5
  <2>3. f[k] \in kept BY <1>4
  <2>4. k \in Nat BY <1>1
  <2> HIDE DEF kept
  <2>5. \A i \in kept, l \in Nat : Cardinality({j \in kept : j <= i}) = l => Nth(kept, l) = i
    BY <1>2, NthOf
  <2> QED BY <2>2, <2>3, <2>4, <2>5
<1>8. Filter(list, S) = [k \in 1..n |-> list[Nth(kept, k)]]
  BY <1>6 DEF Filter
<1>9. \A k \in 1..n : t[k] = Filter(list, S)[k]
  <2> HIDE DEF kept
  <2> QED BY <1>7, <1>8
<1>10. t = [k \in 1..n |-> t[k]] OBVIOUS
<1> QED BY <1>8, <1>9, <1>10

\* Filtering leaves those entries of a list that are in the set.
LEMMA FilterType ==
  ASSUME NEW A, NEW list \in Seq(A), NEW S
  PROVE  /\ Filter(list, S) \in Seq(A)
         /\ Range(Filter(list, S)) = Range(list) \cap S
<1>1. PICK f : Picks(f, Filter(list, S), list, S) BY FilterPicks
<1> DEFINE s == Filter(list, S)
<1>2. /\ DOMAIN list = 1..Len(list) /\ Len(list) \in Nat
      /\ Range(list) \subseteq A
  BY DEF Range
<1> HIDE DEF s
<1>3. /\ s \in Seq(Range(list)) /\ \A k \in 1..Len(s) : f[k] \in DOMAIN list
      /\ \A k \in 1..Len(s) : s[k] = list[f[k]] /\ s[k] \in S
      /\ \A i \in DOMAIN list : list[i] \in S => \E k \in 1..Len(s) : f[k] = i
  BY <1>1 DEF Picks, s
<1>4. DOMAIN s = 1..Len(s) BY <1>3
<1>5. Range(s) \subseteq Range(list) \cap S
  BY <1>3, <1>4 DEF Range
<1>6. Range(list) \cap S \subseteq Range(s)
  <2> SUFFICES ASSUME NEW i \in DOMAIN list, list[i] \in S PROVE list[i] \in Range(s)
    BY DEF Range
  <2>1. PICK k \in 1..Len(s) : f[k] = i BY <1>3
  <2>2. s[k] = list[i] /\ k \in DOMAIN s BY <2>1, <1>3, <1>4
  <2> QED BY <2>2 DEF Range
<1>7. s \in Seq(A)
  <2>1. \A k \in 1..Len(s) : s[k] \in A BY <1>2, <1>4, <1>5 DEF Range
  <2>2. s = [k \in 1..Len(s) |-> s[k]] /\ Len(s) \in Nat BY <1>3
  <2> QED BY <2>1, <2>2
<1> QED BY <1>5, <1>6, <1>7 DEF s

\* Lists one after the other are filtered one after the other.
LEMMA FilterConcat ==
  ASSUME NEW A, NEW a \in Seq(A), NEW b \in Seq(A), NEW S
  PROVE  Filter(a \o b, S) = Filter(a, S) \o Filter(b, S)
<1> DEFINE s == Filter(a, S)
           t == Filter(b, S)
           ab == a \o b
           st == s \o t
<1>1. PICK f : Picks(f, s, a, S) BY FilterPicks
<1>2. PICK g : Picks(g, t, b, S) BY FilterPicks
<1> DEFINE h == [k \in 1..Len(st) |-> IF k <= Len(s) THEN f[k] ELSE Len(a) + g[k - Len(s)]]
<1>3. s \in Seq(A) /\ t \in Seq(A) BY FilterType
<1> HIDE DEF s, t
<1>4. /\ ab \in Seq(A) /\ Len(ab) = Len(a) + Len(b) /\ DOMAIN ab = 1..(Len(a) + Len(b))
      /\ \A i \in DOMAIN ab : ab[i] = IF i <= Len(a) THEN a[i] ELSE b[i - Len(a)]
  OBVIOUS
<1>5. /\ st \in Seq(A) /\ Len(st) = Len(s) + Len(t) /\ DOMAIN st = 1..(Len(s) + Len(t))
      /\ \A i \in DOMAIN st : st[i] = IF i <= Len(s) THEN s[i] ELSE t[i - Len(s)]
  BY <1>3
<1>6. /\ Len(a) \in Nat /\ Len(b) \in Nat /\ Len(s) \in Nat /\ Len(t) \in Nat
      /\ DOMAIN a = 1..Len(a) /\ DOMAIN b = 1..Len(b)
  BY <1>3
<1> HIDE DEF ab, st
<1>7. /\ f \in [1..Len(s) -> 1..Len(a)] /\ g \in [1..Len(t) -> 1..Len(b)]
      /\ \A k, l \in 1..Len(s) : k < l => f[k] < f[l]
      /\ \A k, l \in 1..Len(t) : k < l => g[k] < g[l]
      /\ \A k \in 1..Len(s) : s[k] = a[f[k]] /\ s[k] \in S
      /\ \A k \in 1..Len(t) : t[k] = b[g[k]] /\ t[k] \in S
      /\ \A i \in 1..Len(a) : a[i] \in S => \E k \in 1..Len(s) : f[k] = i
      /\ \A i \in 1..Len(b) : b[i] \in S => \E k \in 1..Len(t) : g[k] = i
  BY <1>1, <1>2, <1>6 DEF Picks
<1>70. /\ \A k \in 1..Len(s) : f[k] \in 1..Len(a)
       /\ \A k \in 1..Len(t) : g[k] \in 1..Len(b)
       /\ \A k \in 1..Len(st) : k > Len(s) => k - Len(s) \in 1..Len(t)
  <2>1. \A k \in 1..Len(s) : f[k] \in 1..Len(a) BY <1>7
  <2>2. \A k \in 1..Len(t) : g[k] \in 1..Len(b) BY <1>7
  <2>3. \A n, m \in Nat : \A k \in 1..(n + m) : k > n => k - n \in 1..m OBVIOUS
  <2> QED BY <2>1, <2>2, <2>3, <1>5, <1>6
<1>8. h \in [1..Len(st) -> DOMAIN ab]
  BY <1>7, <1>4, <1>5, <1>6
<1>9. ASSUME NEW k \in 1..Len(st), NEW l \in 1..Len(st), k < l PROVE h[k] < h[l]
  <2>1. CASE l <= Len(s) BY <2>1, <1>9, <1>7, <1>5, <1>6
  <2>2. CASE k <= Len(s) /\ l > Len(s)
    <3>1. f[k] \in 1..Len(a) /\ l - Len(s) \in 1..Len(t) /\ g[l - Len(s)] \in 1..Len(b)
      <4>1. k \in 1..Len(s) /\ l - Len(s) \in 1..Len(t) BY <2>2, <1>70, <1>5, <1>6
      <4> QED BY <4>1, <1>70
    <3>2. h[k] = f[k] /\ h[l] = Len(a) + g[l - Len(s)] BY <2>2, <1>5, <1>6
    <3> QED BY <3>1, <3>2, <1>6
  <2>3. CASE k > Len(s)
    <3>1. k - Len(s) \in 1..Len(t) /\ l - Len(s) \in 1..Len(t) /\ k - Len(s) < l - Len(s)
      BY <2>3, <1>9, <1>5, <1>6
    <3>2. g[k - Len(s)] < g[l - Len(s)] /\ g[k - Len(s)] \in Int /\ g[l - Len(s)] \in Int
      <4>1. g[k - Len(s)] < g[l - Len(s)] BY <3>1, <1>7
      <4>2. g[k - Len(s)] \in 1..Len(b) /\ g[l - Len(s)] \in 1..Len(b) BY <3>1, <1>70
      <4> QED BY <4>1, <4>2
    <3> QED BY <3>2, <2>3, <1>9, <1>5, <1>6
  <2> QED BY <2>1, <2>2, <2>3, <1>6, <1>5
<1>10. ASSUME NEW k \in 1..Len(st) PROVE st[k] = ab[h[k]] /\ st[k] \in S
  <2>1. CASE k <= Len(s)
    <3>1. k \in 1..Len(s) BY <2>1, <1>6, <1>5
    <3>2. f[k] \in 1..Len(a) /\ s[k] = a[f[k]] /\ s[k] \in S BY <3>1, <1>7, <1>70
    <3>3. st[k] = s[k] /\ h[k] = f[k] BY <2>1, <1>5
    <3>4. f[k] \in DOMAIN ab /\ f[k] <= Len(a) BY <3>2, <1>4, <1>6
    <3>5. ab[f[k]] = a[f[k]] BY <3>4, <1>4
    <3> QED BY <3>2, <3>3, <3>5
  <2>2. CASE k > Len(s)
    <3>1. k - Len(s) \in 1..Len(t) BY <2>2, <1>5, <1>6
    <3>2. g[k - Len(s)] \in 1..Len(b) /\ t[k - Len(s)] = b[g[k - Len(s)]] /\ t[k - Len(s)] \in S
      BY <3>1, <1>7
    <3>3. st[k] = t[k - Len(s)] BY <2>2, <1>5, <1>6
    <3>4. h[k] = Len(a) + g[k - Len(s)] BY <2>2, <1>6, <1>5
    <3> DEFINE j == g[k - Len(s)]
    <3>50. j \in 1..Len(b) BY <3>2
    <3> HIDE DEF j
    <3>51. /\ Len(a) + j \in DOMAIN ab /\ ~ Len(a) + j <= Len(a)
           /\ (Len(a) + j) - Len(a) = j
      BY <3>50, <1>4, <1>6
    <3>52. ab[Len(a) + j] = b[j] BY <3>51, <1>4
    <3>5. ab[h[k]] = b[g[k - Len(s)]] BY <3>4, <3>52 DEF j
    <3> QED BY <3>2, <3>3, <3>5
  <2> QED BY <2>1, <2>2, <1>6, <1>5
<1>11. ASSUME NEW i \in DOMAIN ab, ab[i] \in S PROVE \E k \in 1..Len(st) : h[k] = i
  <2>1. CASE i <= Len(a)
    <3>1. i \in 1..Len(a) /\ a[i] \in S BY <2>1, <1>11, <1>4, <1>6
    <3>2. PICK k \in 1..Len(s) : f[k] = i BY <3>1, <1>7
    <3>3. k \in 1..Len(st) /\ h[k] = i BY <3>2, <1>5, <1>6
    <3> QED BY <3>3
  <2>2. CASE i > Len(a)
    <3>1. i - Len(a) \in 1..Len(b) /\ b[i - Len(a)] \in S BY <2>2, <1>11, <1>4, <1>6
    <3>2. PICK k \in 1..Len(t) : g[k] = i - Len(a) BY <3>1, <1>7
    <3>3. Len(s) + k \in 1..Len(st) /\ (Len(s) + k) - Len(s) = k /\ ~ Len(s) + k <= Len(s)
      BY <3>2, <1>5, <1>6
    <3>4. h[Len(s) + k] = Len(a) + g[k] BY <3>3
    <3>5. i \in Int BY <1>4, <1>6
    <3> QED BY <3>2, <3>3, <3>4, <3>5, <1>6
  <2> QED BY <2>1, <2>2, <1>6, <1>4
<1>12. st \in Seq(Range(ab))
  <2>1. \A k \in 1..Len(st) : st[k] \in Range(ab) BY <1>10, <1>8 DEF Range
  <2>2. st = [k \in 1..Len(st) |-> st[k]] /\ Len(st) \in Nat BY <1>5, <1>6
  <2> QED BY <2>1, <2>2
<1> HIDE DEF h
<1>13. Picks(h, st, ab, S)
  BY <1>8, <1>9, <1>10, <1>11, <1>12 DEF Picks
<1> QED BY <1>13, <1>4, PicksFilter DEF st, ab, s, t

\* Filtering twice keeps what both keep.
LEMMA FilterFilter ==
  ASSUME NEW A, NEW list \in Seq(A), NEW S, NEW T
  PROVE  Filter(Filter(list, S), T) = Filter(list, S \cap T)
<1> DEFINE s == Filter(list, S)
           t == Filter(s, T)
<1>1. s \in Seq(A) BY FilterType
<1>2. PICK f : Picks(f, s, list, S) BY FilterPicks
<1> HIDE DEF s
<1>3. PICK g : Picks(g, t, s, T) BY <1>1, FilterPicks
<1>4. t \in Seq(A) BY <1>1, FilterType
<1> HIDE DEF t
<1> DEFINE h == [k \in 1..Len(t) |-> f[g[k]]]
<1>5. DOMAIN s = 1..Len(s) /\ Len(s) \in Nat /\ DOMAIN list = 1..Len(list) /\ Len(t) \in Nat
  BY <1>1, <1>4
<1>6. /\ f \in [1..Len(s) -> 1..Len(list)] /\ g \in [1..Len(t) -> 1..Len(s)]
      /\ \A k, l \in 1..Len(s) : k < l => f[k] < f[l]
      /\ \A k, l \in 1..Len(t) : k < l => g[k] < g[l]
      /\ \A k \in 1..Len(s) : s[k] = list[f[k]] /\ s[k] \in S
      /\ \A k \in 1..Len(t) : t[k] = s[g[k]] /\ t[k] \in T
      /\ \A i \in 1..Len(list) : list[i] \in S => \E k \in 1..Len(s) : f[k] = i
      /\ \A i \in 1..Len(s) : s[i] \in T => \E k \in 1..Len(t) : g[k] = i
  BY <1>2, <1>3, <1>5 DEF Picks
<1>7. h \in [1..Len(t) -> 1..Len(list)] BY <1>6
<1>8. \A k, l \in 1..Len(t) : k < l => h[k] < h[l] BY <1>6
<1>9. \A k \in 1..Len(t) : t[k] = list[h[k]] /\ t[k] \in S \cap T BY <1>6
<1>10. ASSUME NEW i \in 1..Len(list), list[i] \in S \cap T PROVE \E k \in 1..Len(t) : h[k] = i
  <2>1. PICK j \in 1..Len(s) : f[j] = i BY <1>10, <1>6
  <2>2. s[j] \in T BY <2>1, <1>10, <1>6
  <2>3. PICK k \in 1..Len(t) : g[k] = j BY <2>2, <1>6
  <2> QED BY <2>1, <2>3
<1>11. t \in Seq(Range(list))
  <2>1. \A k \in 1..Len(t) : t[k] \in Range(list) BY <1>9, <1>7, <1>5 DEF Range
  <2>2. t = [k \in 1..Len(t) |-> t[k]] /\ Len(t) \in Nat BY <1>4
  <2> QED BY <2>1, <2>2
<1> HIDE DEF h
<1>12. Picks(h, t, list, S \cap T)
  BY <1>7, <1>8, <1>9, <1>10, <1>11, <1>5 DEF Picks
<1> QED BY <1>12, PicksFilter DEF t, s

\* Sets that have the same entries of a list filter it alike.
LEMMA FilterSame ==
  ASSUME NEW list, NEW S, NEW T, \A i \in DOMAIN list : list[i] \in S <=> list[i] \in T
  PROVE  Filter(list, S) = Filter(list, T)
<1>1. {i \in DOMAIN list : list[i] \in S} = {i \in DOMAIN list : list[i] \in T} OBVIOUS
<1> QED BY <1>1 DEF Filter

\* A list of which everything is kept stays as it is.
LEMMA FilterAll ==
  ASSUME NEW A, NEW list \in Seq(A), NEW S, \A i \in DOMAIN list : list[i] \in S
  PROVE  Filter(list, S) = list
<1> DEFINE f == [k \in 1..Len(list) |-> k]
<1>1. list \in Seq(Range(list))
  <2>1. \A k \in 1..Len(list) : list[k] \in Range(list) BY DEF Range
  <2>2. list = [k \in 1..Len(list) |-> list[k]] /\ Len(list) \in Nat OBVIOUS
  <2> QED BY <2>1, <2>2
<1>2. Picks(f, list, list, S) BY <1>1 DEF Picks
<1> QED BY <1>2, PicksFilter

\* A list of which nothing is kept becomes empty.
LEMMA FilterNone ==
  ASSUME NEW list, NEW S, \A i \in DOMAIN list : list[i] \notin S
  PROVE  Filter(list, S) = <<>>
<1>1. {i \in DOMAIN list : list[i] \in S} = {} OBVIOUS
<1>2. Cardinality({i \in DOMAIN list : list[i] \in S}) = 0 BY <1>1, FS_EmptySet
<1>3. Filter(list, S) = [k \in 1..0 |-> list[Nth({i \in DOMAIN list : list[i] \in S}, k)]]
  BY <1>2 DEF Filter
<1>4. Filter(list, S) \in Seq({}) /\ Len(Filter(list, S)) = 0
  <2>1. 1..0 = {} OBVIOUS
  <2> QED BY <1>3, <2>1
<1> QED BY <1>4

\* Names for the provers, who would look into the operators of sequences.
Joined(a, b) == a \o b
Single(x) == <<x>>

\* The entries of two lists one after the other.
LEMMA JoinedProperties ==
  ASSUME NEW A, NEW a \in Seq(A), NEW b \in Seq(A)
  PROVE  /\ Joined(a, b) \in Seq(A) /\ Len(Joined(a, b)) = Len(a) + Len(b)
         /\ \A i \in 1..(Len(a) + Len(b)) :
              Joined(a, b)[i] = IF i <= Len(a) THEN a[i] ELSE b[i - Len(a)]
BY ConcatProperties DEF Joined

\* Joined lists are filtered each.
LEMMA FilterJoined ==
  ASSUME NEW A, NEW a \in Seq(A), NEW b \in Seq(A), NEW S
  PROVE  /\ Joined(a, b) \in Seq(A)
         /\ Filter(Joined(a, b), S) = Joined(Filter(a, S), Filter(b, S))
<1>1. Joined(a, b) \in Seq(A) BY ConcatProperties DEF Joined
<1>2. Filter(Joined(a, b), S) = Joined(Filter(a, S), Filter(b, S))
  BY FilterConcat DEF Joined
<1> QED BY <1>1, <1>2

\* The empty list adds nothing.
LEMMA JoinedEmpty ==
  ASSUME NEW A, NEW a \in Seq(A)
  PROVE  Joined(<<>>, a) = a /\ Joined(a, <<>>) = a
BY ConcatEmptySeq DEF Joined

\* A list of one entry keeps it or becomes empty.
LEMMA FilterSingle ==
  ASSUME NEW A, NEW x \in A, NEW S
  PROVE  /\ Single(x) \in Seq(A) /\ DOMAIN Single(x) = {1} /\ Single(x)[1] = x
         /\ Filter(Single(x), S) = IF x \in S THEN Single(x) ELSE <<>>
<1>1. Single(x) \in Seq(A) /\ DOMAIN Single(x) = {1} /\ Single(x)[1] = x BY DEF Single
<1>2. x \in S => Filter(Single(x), S) = Single(x) BY <1>1, FilterAll
<1>3. x \notin S => Filter(Single(x), S) = <<>> BY <1>1, FilterNone
<1> QED BY <1>1, <1>2, <1>3

\* Numbers have a least one.
LEMMA Least ==
  ASSUME NEW T, T \subseteq Nat, T # {}
  PROVE  \E m \in T : \A n \in T : m <= n
<1> DEFINE D == {0..n : n \in T}
           R == StrictSubsetOrdering(Nat)
<1>1. IsWellFoundedOn(R, FiniteSubsetsOf(Nat))
  BY FS_StrictSubsetOrderingWellFounded
<1>2. D \subseteq FiniteSubsetsOf(Nat) /\ D # {}
  <2>1. \A n \in Nat : IsFiniteSet(0..n) /\ 0..n \subseteq Nat
    BY FS_Interval
  <2>2. \A n \in T : 0..n \in FiniteSubsetsOf(Nat)
    BY <2>1 DEF FiniteSubsetsOf
  <2> QED BY <2>2
<1> HIDE DEF R
<1>3. PICK x \in D : \A y \in D : ~ (<<y, x>> \in R)
  BY <1>1, <1>2, WFMin
<1>4. PICK m \in T : x = 0..m
  OBVIOUS
<1>5. \A n \in T : m <= n
  <2> SUFFICES ASSUME NEW n \in T, n < m PROVE FALSE OBVIOUS
  <2>1. <<0..n, 0..m>> \in R
    <3>1. 0..n \subseteq 0..m /\ m \in 0..m /\ m \notin 0..n OBVIOUS
    <3> QED BY <3>1 DEF R, StrictSubsetOrdering
  <2> QED BY <2>1, <1>3, <1>4
<1> QED BY <1>5

\* What holds of zero, and of the successor of every number it holds of, holds of all.
LEMMA Induct ==
  ASSUME NEW S, 0 \in S, \A n \in Nat : n \in S => n + 1 \in S
  PROVE  \A n \in Nat : n \in S
<1> DEFINE T == Nat \ S
<1> SUFFICES ASSUME T # {} PROVE FALSE OBVIOUS
<1>1. PICK m \in T : \A n \in T : m <= n
  BY Least
<1>2. m # 0 OBVIOUS
<1>3. m - 1 \in Nat /\ m - 1 \notin T BY <1>1, <1>2
<1> QED BY <1>3

-----------------------------------------------------------------------------
(* The prices *)

PSpec == PInit /\ [][PNext]_pvars

\* The prices a call had from the cache.
Hits(c) == DOMAIN call[c].prices \ call[c].asked

Cached == DOMAIN cache

\* Types, and the age of what is held.
CacheInv ==
  /\ Cached \subseteq Keys
  /\ \A k \in Cached :
       /\ cache[k].at \in Int /\ cache[k].waited \in Int /\ cache[k].expiresAt \in Int
       /\ cache[k].at <= now
       /\ cache[k].expiresAt = cache[k].at + cache[k].waited + Ttl

CallInv ==
  \A c \in PriceCalls :
    /\ call[c].asked \subseteq Keys
    /\ call[c].pending \subseteq SUBSET call[c].asked
    /\ call[c].pending = {} => call[c].asked = {} /\ DOMAIN call[c].prices = {}
    /\ call[c].asked \subseteq Unlisted \cup DOMAIN call[c].prices \cup UNION call[c].pending
    /\ call[c].since \in Int /\ call[c].since <= now
    /\ DOMAIN call[c].prices \subseteq Keys
    /\ \A k \in DOMAIN call[c].prices :
         /\ call[c].prices[k].at \in Int /\ call[c].prices[k].waited \in Int
         /\ call[c].prices[k].at <= now
    /\ \A k \in DOMAIN call[c].prices \cap call[c].asked :
         call[c].since <= call[c].prices[k].at /\ call[c].prices[k].waited = 0
    /\ \A k \in Hits(c) :
         /\ call[c].prices[k].at <= call[c].since
         /\ call[c].since <= call[c].prices[k].at + call[c].prices[k].waited + Ttl

Record(c) ==
  [asked |-> call[c].asked, pending |-> call[c].pending, prices |-> call[c].prices,
   since |-> call[c].since, overlap |-> call[c].overlap]

TypeInv ==
  /\ now \in Nat
  /\ call = [c \in PriceCalls |-> Record(c)]
  /\ latest \in [Keys -> Int]
  /\ \A k \in Keys : latest[k] <= now

\* What is in the cache is not older than what was answered, or held by a call.
EntriesAdvance ==
  \A k \in Cached :
    /\ cache[k].at >= latest[k] \/ cache[k].overlap
    /\ \A c \in PriceCalls : k \in Hits(c) =>
         cache[k].at >= call[c].prices[k].at \/ cache[k].overlap

\* What a call fetches is newer than what was answered, or held by another, when it asked;
\* if it is in the cache, or asked for by two, they overlap.
AskedAdvance ==
  \A c \in PriceCalls : \A k \in call[c].asked :
    /\ latest[k] <= call[c].since \/ k \in call[c].overlap
    /\ k \in Cached => k \in call[c].overlap /\ cache[k].overlap
    /\ \A d \in PriceCalls : k \in Hits(d) =>
         call[d].prices[k].at <= call[c].since \/ k \in call[c].overlap
    /\ \A d \in PriceCalls : d # c /\ k \in call[d].asked => k \in call[c].overlap

\* A hit is not behind at the moment it is read, unless its entry overlapped.
HitsAdvance ==
  \A c \in PriceCalls : call[c].since = now => \A k \in Hits(c) :
    /\ k \in Cached /\ ~IsExpired(cache[k])
    /\ \/ call[c].prices[k].overlap
       \/ /\ latest[k] <= call[c].prices[k].at
          /\ cache[k].at <= call[c].prices[k].at
          /\ \A d \in PriceCalls :
               /\ k \notin call[d].asked
               /\ k \in Hits(d) => call[d].prices[k].at <= call[c].prices[k].at

PInv == TypeInv /\ CacheInv /\ CallInv /\ EntriesAdvance /\ AskedAdvance /\ HitsAdvance

------------------------------------------------------------------------------
\* What the maximum of two moments is.
LEMMA MaxDoes ==
  ASSUME NEW a \in Int, NEW b \in Int
  PROVE  Max({a, b}) = IF a < b THEN b ELSE a
<1>1. \A x \in {a, b} : (\A y \in {a, b} : x >= y) <=> x = IF a < b THEN b ELSE a
  OBVIOUS
<1> QED BY <1>1 DEF Max

\* An answer moves the newest price of what it holds, and of nothing else.
LEMMA AnswerDoes ==
  ASSUME TypeInv, NEW prices, NEW waited, NEW late, NEW overlap,
         \A k \in DOMAIN prices : prices[k].at \in Int,
         Answer(prices, waited, late, overlap)
  PROVE  /\ latest' \in [Keys -> Int]
         /\ \A k \in Keys : latest'[k] # latest[k] =>
              k \in DOMAIN prices /\ latest'[k] = prices[k].at /\ latest[k] < prices[k].at
         /\ \A k \in Keys \cap DOMAIN prices : latest'[k] >= prices[k].at
         /\ DOMAIN answer' = DOMAIN prices
         /\ \A k \in DOMAIN prices :
              /\ answer'[k].age = now - prices[k].at
              /\ answer'[k].waited = waited + prices[k].waited
              /\ answer'[k].older => prices[k].at < latest[k]
              /\ k \in late => answer'[k].late
              /\ prices[k].overlap \/ k \in overlap => answer'[k].overlap
<1>1. \A k \in Keys : latest'[k] = IF k \in DOMAIN prices THEN Max({latest[k], prices[k].at}) ELSE latest[k]
  BY DEF Answer
<1>2. \A k \in Keys \cap DOMAIN prices :
        latest'[k] = IF latest[k] < prices[k].at THEN prices[k].at ELSE latest[k]
  BY <1>1, MaxDoes DEF TypeInv
<1>3. \A k \in Keys : latest'[k] \in Int
  BY <1>1, <1>2 DEF TypeInv
<1>4. latest' = [k \in Keys |-> latest'[k]]
  BY DEF Answer
<1>5. latest' \in [Keys -> Int]
  BY <1>3, <1>4
<1>6. \A k \in Keys : latest'[k] = IF k \in DOMAIN prices /\ latest[k] < prices[k].at
                                   THEN prices[k].at ELSE latest[k]
  BY <1>1, <1>2
<1>7. \A k \in Keys : latest[k] \in Int
  BY DEF TypeInv
<1>8. /\ DOMAIN answer' = DOMAIN prices
      /\ \A k \in DOMAIN prices : answer'[k] =
           [age |-> now - prices[k].at, waited |-> waited + prices[k].waited,
            older |-> prices[k].at < latest[k], late |-> k \in late,
            overlap |-> prices[k].overlap \/ k \in overlap]
  BY DEF Answer
<1>9. ASSUME NEW k \in DOMAIN prices
      PROVE  /\ answer'[k].age = now - prices[k].at
             /\ answer'[k].waited = waited + prices[k].waited
             /\ answer'[k].older => prices[k].at < latest[k]
             /\ k \in late => answer'[k].late
             /\ prices[k].overlap \/ k \in overlap => answer'[k].overlap
  <2>1. PICK older : older = (prices[k].at < latest[k])
    OBVIOUS
  <2>2. PICK isLate : isLate = (k \in late)
    OBVIOUS
  <2>3. PICK over : over = (prices[k].overlap \/ k \in overlap)
    OBVIOUS
  <2>4. answer'[k] = [age |-> now - prices[k].at, waited |-> waited + prices[k].waited,
                      older |-> older, late |-> isLate, overlap |-> over]
    BY <1>8, <2>1, <2>2, <2>3, Zenon
  <2>5. /\ answer'[k].age = now - prices[k].at
        /\ answer'[k].waited = waited + prices[k].waited
        /\ answer'[k].older = older /\ answer'[k].late = isLate /\ answer'[k].overlap = over
    BY ONLY <2>4, SMT
  <2> QED BY <2>1, <2>2, <2>3, <2>5, Zenon
<1> QED BY <1>5, <1>6, <1>7, <1>8, <1>9

\* At first nothing is held.
LEMMA InitPInv == PInit => PInv /\ PricesFresh /\ PricesAdvanceUnlessExcused
BY DEF PInit, PInv, TypeInv, Record, CacheInv, CallInv, EntriesAdvance, AskedAdvance, HitsAdvance, Idle,
       Hits, Cached, PricesFresh, PricesAdvanceUnlessExcused

\* With the clock, what was read before is no longer of the moment.
LEMMA TickKeeps == PInv /\ Tick => PInv' /\ PricesFresh' /\ PricesAdvanceUnlessExcused'
<1> SUFFICES ASSUME PInv, Tick PROVE PInv' /\ PricesFresh' /\ PricesAdvanceUnlessExcused'
  OBVIOUS
<1>1. now' = now + 1 /\ now \in Int /\ UNCHANGED <<cache, call, latest>> /\ answer' = <<>>
  BY DEF Tick, NoAnswer, PInv, TypeInv
<1>2. TypeInv' /\ CacheInv'
  BY <1>1 DEF PInv, TypeInv, Record, CacheInv, Cached
<1>3. CallInv'
  BY <1>1 DEF PInv, CallInv, Hits
<1>4. EntriesAdvance' /\ AskedAdvance'
  BY <1>1 DEF PInv, EntriesAdvance, AskedAdvance, Hits, Cached
<1>5. HitsAdvance'
  BY <1>1 DEF PInv, CallInv, HitsAdvance
<1>6. PricesFresh' /\ PricesAdvanceUnlessExcused'
  BY <1>1 DEF PricesFresh, PricesAdvanceUnlessExcused
<1> QED BY <1>2, <1>3, <1>4, <1>5, <1>6 DEF PInv

\* A call that fails is forgotten.
LEMMA FetchFailsKeeps ==
  ASSUME PInv, NEW c \in PriceCalls, FetchFails(c)
  PROVE  PInv' /\ PricesFresh' /\ PricesAdvanceUnlessExcused'
<1>1. /\ UNCHANGED <<now, cache, latest>> /\ answer' = <<>>
      /\ call' = [call EXCEPT ![c] = Idle]
  BY DEF FetchFails, NoAnswer
<1>2. /\ call' = [d \in PriceCalls |-> call'[d]]
      /\ call'[c] = Idle /\ \A d \in PriceCalls : d # c => call'[d] = call[d]
  BY <1>1 DEF PInv, TypeInv
<1>3. Hits(c)' = {} /\ call'[c].asked = {} /\ \A d \in PriceCalls : d # c => Hits(d)' = Hits(d)
  BY <1>2 DEF Hits, Idle
<1>4. TypeInv' /\ CacheInv'
  BY <1>1, <1>2 DEF PInv, TypeInv, Record, CacheInv, Cached, Idle
<1>5. CallInv'
  <2> SUFFICES ASSUME NEW d \in PriceCalls PROVE CallInv!(d)'
    BY DEF CallInv
  <2>1. CASE d # c
    BY <1>1, <1>2, <1>3, <2>1 DEF PInv, CallInv
  <2>2. CASE d = c
    BY <1>1, <1>2, <1>3, <2>2 DEF PInv, CallInv, Idle, TypeInv
  <2> QED BY <2>1, <2>2
<1>6. EntriesAdvance'
  BY <1>1, <1>2, <1>3 DEF PInv, EntriesAdvance, Cached
<1>7. AskedAdvance'
  BY <1>1, <1>2, <1>3 DEF PInv, AskedAdvance, Cached
<1>8. HitsAdvance'
  BY <1>1, <1>2, <1>3 DEF PInv, HitsAdvance, Cached, IsExpired
<1>9. PricesFresh' /\ PricesAdvanceUnlessExcused'
  BY <1>1 DEF PricesFresh, PricesAdvanceUnlessExcused
<1> QED BY <1>4, <1>5, <1>6, <1>7, <1>8, <1>9 DEF PInv

\* What is read is no older than its time to live, and what is left is what has not expired.
LEMMA ReadKeeps ==
  ASSUME PInv, NEW c \in PriceCalls, NEW keys \in SUBSET Keys, Read(c, keys)
  PROVE  PInv' /\ PricesFresh' /\ PricesAdvanceUnlessExcused'
<1> DEFINE hits == Restrict(CleanedUp, keys \cap DOMAIN CleanedUp)
           missing == keys \ DOMAIN hits
<1>1. now' = now /\ now \in Int
  BY DEF Read, PInv, TypeInv
<1>2. /\ Cached' = {k \in Cached : ~IsExpired(cache[k])}
      /\ \A k \in Cached' : cache'[k] = cache[k]
  BY DEF Read, CleanedUp, Restrict, Cached
<1>3. /\ DOMAIN hits = keys \cap Cached'
      /\ \A k \in DOMAIN hits : hits[k] = cache[k]
  BY <1>2 DEF Read, CleanedUp, Restrict, Cached
<1>4. \A k \in DOMAIN hits :
        /\ k \in Cached /\ k \in Keys /\ ~IsExpired(cache[k])
        /\ hits[k].at \in Int /\ hits[k].waited \in Int /\ hits[k].at <= now
        /\ now <= hits[k].at + hits[k].waited + Ttl
  <2> SUFFICES ASSUME NEW k \in DOMAIN hits
               PROVE  /\ k \in Cached /\ k \in Keys /\ ~IsExpired(cache[k])
                      /\ hits[k].at \in Int /\ hits[k].waited \in Int /\ hits[k].at <= now
                      /\ now <= hits[k].at + hits[k].waited + Ttl
    OBVIOUS
  <2>1. k \in Cached /\ ~IsExpired(cache[k]) /\ hits[k] = cache[k]
    BY <1>2, <1>3
  <2> HIDE DEF hits
  <2>2. /\ k \in Keys /\ cache[k].at \in Int /\ cache[k].waited \in Int /\ cache[k].at <= now
        /\ cache[k].expiresAt = cache[k].at + cache[k].waited + Ttl
    BY <2>1 DEF PInv, CacheInv
  <2>3. now <= cache[k].expiresAt
    BY <1>1, <2>1, <2>2, TtlAssumption DEF IsExpired
  <2> QED BY <2>1, <2>2, <2>3
<1>5. missing \cap Cached' = {} /\ missing \subseteq Keys
  BY <1>3
<1>6. CacheInv'
  BY <1>1, <1>2 DEF PInv, CacheInv
<1>7. call[c].asked = {} /\ DOMAIN call[c].prices = {} /\ Hits(c) = {}
  BY DEF Read, Fetching, PInv, CallInv, Hits
<1> HIDE DEF hits, missing
<1>8. CASE missing = {}
  <2>1. Answer(hits, 0, {}, {}) /\ call' = call
    BY <1>8 DEF Read, hits, missing
  <2>2. /\ latest' \in [Keys -> Int]
        /\ \A k \in Keys : latest'[k] # latest[k] =>
             k \in DOMAIN hits /\ latest'[k] = hits[k].at /\ latest[k] < hits[k].at
        /\ DOMAIN answer' = DOMAIN hits
        /\ \A k \in DOMAIN hits :
             /\ answer'[k].age = now - hits[k].at /\ answer'[k].waited = 0 + hits[k].waited
             /\ answer'[k].older => hits[k].at < latest[k]
             /\ hits[k].overlap => answer'[k].overlap
    BY <1>4, <2>1, AnswerDoes DEF PInv
  <2>3. \A d \in PriceCalls : Hits(d)' = Hits(d)
    BY <2>1 DEF Hits
  <2>4. TypeInv'
    BY <1>1, <1>4, <2>1, <2>2 DEF PInv, TypeInv, Record
  <2>5. CallInv'
    BY <1>1, <2>1, <2>3 DEF PInv, CallInv
  <2>6. EntriesAdvance'
    BY <1>2, <1>3, <2>1, <2>2, <2>3 DEF PInv, EntriesAdvance, CacheInv
  <2>7. AskedAdvance'
    BY <1>2, <1>4, <2>1, <2>2, <2>3 DEF PInv, AskedAdvance, CallInv
  <2>8. HitsAdvance'
    <3> SUFFICES ASSUME NEW d \in PriceCalls, call[d].since = now, NEW k \in Hits(d)
                 PROVE  /\ k \in Cached' /\ ~IsExpired(cache[k])'
                        /\ \/ call[d].prices[k].overlap
                           \/ /\ latest'[k] <= call[d].prices[k].at
                              /\ cache'[k].at <= call[d].prices[k].at
                              /\ \A e \in PriceCalls :
                                   /\ k \notin call[e].asked
                                   /\ k \in Hits(e) => call[e].prices[k].at <= call[d].prices[k].at
      BY <1>1, <2>1, <2>3 DEF HitsAdvance
    <3>1. k \in Keys /\ k \in Cached /\ ~IsExpired(cache[k])
      BY DEF PInv, CallInv, Hits, HitsAdvance
    <3>2. k \in Cached' /\ ~IsExpired(cache[k])'
      BY <1>1, <1>2, <3>1 DEF IsExpired
    <3>3. cache'[k] = cache[k] /\ latest'[k] \in {latest[k], cache[k].at}
      BY <1>2, <1>3, <2>2, <3>1, <3>2
    <3> QED BY <3>2, <3>3 DEF PInv, HitsAdvance
  <2>9. PricesFresh'
    BY <1>1, <1>4, <2>2, TtlAssumption DEF PricesFresh
  <2>10. PricesAdvanceUnlessExcused'
    <3>1. \A k \in DOMAIN hits : hits[k].at >= latest[k] \/ hits[k].overlap
      BY <1>3, <1>4 DEF PInv, EntriesAdvance
    <3>2. \A k \in DOMAIN hits : latest[k] \in Int
      BY <1>4 DEF PInv, TypeInv
    <3> QED BY <1>4, <2>2, <3>1, <3>2 DEF PricesAdvanceUnlessExcused
  <2> QED BY <1>6, <2>4, <2>5, <2>6, <2>7, <2>8, <2>9, <2>10 DEF PInv
<1>9. CASE missing # {}
  <2>1. /\ latest' = latest /\ answer' = <<>>
        /\ \E P \in Chunkings(missing) :
                  call' = [d \in PriceCalls |->
                    IF d = c
                    THEN [asked |-> missing, pending |-> P, prices |-> hits, since |-> now,
                          overlap |-> missing \cap UNION {call[e].asked : e \in PriceCalls}]
                    ELSE [call[d] EXCEPT !.overlap = @ \cup (missing \cap call[d].asked)]]
    BY <1>9 DEF Read, NoAnswer, hits, missing
  <2>2. PICK P \in Chunkings(missing) :
          call' = [d \in PriceCalls |->
                    IF d = c
                    THEN [asked |-> missing, pending |-> P, prices |-> hits, since |-> now,
                          overlap |-> missing \cap UNION {call[e].asked : e \in PriceCalls}]
                    ELSE [call[d] EXCEPT !.overlap = @ \cup (missing \cap call[d].asked)]]
    BY <2>1
  <2>3. P \subseteq SUBSET missing /\ UNION P = missing /\ P # {}
    BY <1>9 DEF Chunkings
  <2>4. /\ call' = [d \in PriceCalls |-> call'[d]]
        /\ call'[c].asked = missing /\ call'[c].pending = P /\ call'[c].prices = hits
        /\ call'[c].since = now
        /\ \A d \in PriceCalls : \A k \in missing \cap call[d].asked : k \in call'[c].overlap
    BY <2>2
  <2>5. ASSUME NEW d \in PriceCalls, d # c
        PROVE  /\ call'[d].asked = call[d].asked /\ call'[d].pending = call[d].pending
               /\ call'[d].prices = call[d].prices /\ call'[d].since = call[d].since
               /\ \A k : k \in call[d].overlap \/ k \in missing \cap call[d].asked => k \in call'[d].overlap
    BY <2>2, <2>5 DEF PInv, TypeInv, Record
  <2>6. Hits(c)' = DOMAIN hits
    BY <1>3, <2>4 DEF Hits, missing
  <2>7. \A d \in PriceCalls : d # c => Hits(d)' = Hits(d)
    BY <2>5 DEF Hits
  <2>8. TypeInv'
    BY <1>1, <2>1, <2>2 DEF PInv, TypeInv, Record
  <2>9. CallInv'
    <3> SUFFICES ASSUME NEW d \in PriceCalls PROVE CallInv!(d)'
      BY DEF CallInv
    <3>1. CASE d # c
      BY <1>1, <2>5, <2>7, <3>1 DEF PInv, CallInv
    <3>2. CASE d = c
      BY <1>1, <1>3, <1>4, <1>5, <2>3, <2>4, <2>6, <3>2 DEF missing
    <3> QED BY <3>1, <3>2
  <2>10. EntriesAdvance'
    BY <1>2, <1>3, <2>1, <2>4, <2>5, <2>6, <2>7 DEF PInv, EntriesAdvance, CacheInv
  <2>11. AskedAdvance'
    <3> SUFFICES ASSUME NEW d \in PriceCalls, NEW k \in call'[d].asked PROVE AskedAdvance!(d)!(k)'
      BY DEF AskedAdvance
    <3>1. CASE d # c
      <4>1. k \in call[d].asked
        BY <2>5, <3>1
      <4>2. latest'[k] <= call'[d].since \/ k \in call'[d].overlap
        BY <2>1, <2>5, <3>1, <4>1 DEF PInv, AskedAdvance
      <4>3. k \in Cached => k \in call'[d].overlap /\ cache[k].overlap
        BY <2>5, <3>1, <4>1 DEF PInv, AskedAdvance
      <4>4. ASSUME NEW e \in PriceCalls, k \in Hits(e)'
            PROVE  call'[e].prices[k].at <= call'[d].since \/ k \in call'[d].overlap
        <5>1. CASE e = c
          BY <1>4, <2>6, <4>3, <4>4, <5>1
        <5>2. CASE e # c
          BY <2>5, <2>7, <3>1, <4>1, <4>4, <5>2 DEF PInv, AskedAdvance
        <5> QED BY <5>1, <5>2
      <4>5. ASSUME NEW e \in PriceCalls, e # d, k \in call'[e].asked PROVE k \in call'[d].overlap
        <5>1. CASE e = c
          BY <2>4, <2>5, <3>1, <4>1, <4>5, <5>1
        <5>2. CASE e # c
          BY <2>5, <3>1, <4>1, <4>5, <5>2 DEF PInv, AskedAdvance
        <5> QED BY <5>1, <5>2
      <4> QED BY <1>2, <4>2, <4>3, <4>4, <4>5
    <3>2. CASE d = c
      <4>1. k \in missing /\ k \in Keys /\ k \notin Cached' /\ k \notin DOMAIN hits
        BY <1>3, <1>5, <2>4, <3>2
      <4>2. latest'[k] <= call'[d].since
        BY <2>1, <2>4, <3>2, <4>1 DEF PInv, TypeInv
      <4>3. ASSUME NEW e \in PriceCalls, k \in Hits(e)' PROVE call'[e].prices[k].at <= call'[d].since
        BY <2>4, <2>5, <2>6, <2>7, <3>2, <4>1, <4>3 DEF PInv, CallInv, Hits
      <4>4. ASSUME NEW e \in PriceCalls, e # d, k \in call'[e].asked PROVE k \in call'[d].overlap
        BY <2>4, <2>5, <3>2, <4>1, <4>4
      <4> QED BY <4>1, <4>2, <4>3, <4>4
    <3> QED BY <3>1, <3>2
  <2>12. HitsAdvance'
    <3> SUFFICES ASSUME NEW d \in PriceCalls, call'[d].since = now, NEW k \in Hits(d)'
                 PROVE  HitsAdvance!(d)!2!(k)'
      BY <1>1 DEF HitsAdvance
    <3>1. CASE d = c
      <4>1. k \in DOMAIN hits /\ k \in Cached' /\ call'[d].prices[k] = cache[k] /\ cache'[k] = cache[k]
        BY <1>2, <1>3, <2>4, <2>6, <3>1
      <4>2. ~IsExpired(cache[k])'
        BY <1>1, <1>4, <4>1 DEF IsExpired
      <4>3. ASSUME ~cache[k].overlap
            PROVE  /\ latest'[k] <= cache[k].at /\ cache'[k].at <= cache[k].at
                   /\ \A e \in PriceCalls : /\ k \notin call'[e].asked
                                            /\ k \in Hits(e)' => call'[e].prices[k].at <= cache[k].at
        <5>1. /\ k \in Keys /\ k \in Cached /\ cache[k].at \in Int /\ latest[k] \in Int
              /\ latest[k] <= cache[k].at
          BY <1>4, <4>1, <4>3 DEF PInv, TypeInv, CacheInv, EntriesAdvance
        <5>2. ASSUME NEW e \in PriceCalls PROVE k \notin call'[e].asked
          BY <1>5, <2>4, <2>5, <4>1, <4>3, <5>1 DEF PInv, AskedAdvance
        <5>3. ASSUME NEW e \in PriceCalls, k \in Hits(e)' PROVE call'[e].prices[k].at <= cache[k].at
          <6>1. CASE e = c
            BY <3>1, <4>1, <5>1, <6>1
          <6>2. CASE e # c
            BY <2>5, <2>7, <4>3, <5>1, <5>3, <6>2 DEF PInv, CallInv, Hits, EntriesAdvance
          <6> QED BY <6>1, <6>2
        <5> QED BY <2>1, <4>1, <5>1, <5>2, <5>3
      <4>4. CASE cache[k].overlap
        BY <4>1, <4>2, <4>4
      <4>5. CASE ~cache[k].overlap
        BY <4>1, <4>2, <4>3, <4>5
      <4> QED BY <4>4, <4>5
    <3>2. CASE d # c
      <4>1. k \in Hits(d) /\ call[d].since = now /\ call'[d].prices = call[d].prices
        BY <2>5, <2>7, <3>2
      <4>2. k \in Cached /\ ~IsExpired(cache[k])
        BY <4>1 DEF PInv, HitsAdvance
      <4>3. k \in Cached' /\ cache'[k] = cache[k] /\ ~IsExpired(cache[k])'
        BY <1>1, <1>2, <4>2 DEF IsExpired
      <4>4. ASSUME ~call[d].prices[k].overlap
            PROVE  /\ latest'[k] <= call[d].prices[k].at /\ cache'[k].at <= call[d].prices[k].at
                   /\ \A e \in PriceCalls :
                        /\ k \notin call'[e].asked
                        /\ k \in Hits(e)' => call'[e].prices[k].at <= call[d].prices[k].at
        <5>1. /\ latest[k] <= call[d].prices[k].at /\ cache[k].at <= call[d].prices[k].at
              /\ \A e \in PriceCalls :
                   /\ k \notin call[e].asked
                   /\ k \in Hits(e) => call[e].prices[k].at <= call[d].prices[k].at
          BY <4>1, <4>4 DEF PInv, HitsAdvance
        <5>2. ASSUME NEW e \in PriceCalls PROVE k \notin call'[e].asked
          BY <1>5, <2>4, <2>5, <4>3, <5>1
        <5>3. ASSUME NEW e \in PriceCalls, k \in Hits(e)'
              PROVE  call'[e].prices[k].at <= call[d].prices[k].at
          BY <1>3, <2>4, <2>5, <2>6, <2>7, <5>1, <5>3
        <5> QED BY <2>1, <4>3, <5>1, <5>2, <5>3
      <4>5. call'[d].prices[k] = call[d].prices[k]
        BY <4>1
      <4>6. CASE call[d].prices[k].overlap
        BY <4>3, <4>5, <4>6
      <4>7. CASE ~call[d].prices[k].overlap
        BY <4>3, <4>4, <4>5, <4>7
      <4> QED BY <4>6, <4>7
    <3> QED BY <3>1, <3>2
  <2>13. PricesFresh' /\ PricesAdvanceUnlessExcused'
    BY <2>1 DEF PricesFresh, PricesAdvanceUnlessExcused
  <2> QED BY <1>6, <2>8, <2>9, <2>10, <2>11, <2>12, <2>13 DEF PInv
<1> QED BY <1>8, <1>9

\* What a call fetched is newer than what others held when it asked, and what it had from
\* the cache was the newest then, or overlapped.
LEMMA FetchedKeeps ==
  ASSUME PInv, NEW c \in PriceCalls, Fetched(c)
  PROVE  PInv' /\ PricesFresh' /\ PricesAdvanceUnlessExcused'
<1>1. PICK chunk \in call[c].pending, at \in call[c].since..now : Fetched(c)!1!(chunk, at)
  BY DEF Fetched
<1> DEFINE prices == [k \in (chunk \ Unlisted) \cup DOMAIN call[c].prices |->
                        IF k \in chunk \ Unlisted
                          THEN [at |-> at, waited |-> 0, overlap |-> FALSE]
                          ELSE call[c].prices[k]]
           late == {k \in DOMAIN prices \ call[c].asked : call[c].since < now}
<1>2. now' = now /\ now \in Int
  BY DEF Fetched, PInv, TypeInv
<1>3. /\ call[c].since \in Int /\ call[c].since <= now /\ chunk \subseteq call[c].asked
      /\ at \in Int /\ call[c].since <= at /\ at <= now
      /\ call[c].asked \subseteq Keys /\ DOMAIN call[c].prices \subseteq Keys
      /\ call[c].pending \subseteq SUBSET call[c].asked
      /\ call[c].asked \subseteq Unlisted \cup DOMAIN call[c].prices \cup UNION call[c].pending
  BY <1>2 DEF PInv, CallInv
<1>4. /\ DOMAIN prices = (chunk \ Unlisted) \cup DOMAIN call[c].prices
      /\ DOMAIN prices \ call[c].asked = Hits(c) /\ DOMAIN prices \subseteq Keys
  BY <1>3 DEF Hits
<1>5. ASSUME NEW k \in Hits(c)
      PROVE  /\ prices[k] = call[c].prices[k] /\ k \in Keys
             /\ prices[k].at \in Int /\ prices[k].waited \in Int /\ prices[k].at <= call[c].since
             /\ call[c].since <= prices[k].at + prices[k].waited + Ttl
  <2>1. prices[k] = call[c].prices[k] /\ k \in DOMAIN call[c].prices
    BY <1>3 DEF Hits
  <2> QED BY <2>1 DEF PInv, CallInv
<1>6. ASSUME NEW k \in DOMAIN prices \cap call[c].asked
      PROVE  /\ prices[k].at \in Int /\ prices[k].waited = 0
             /\ call[c].since <= prices[k].at /\ prices[k].at <= now
  <2>1. CASE k \in chunk \ Unlisted
    BY <1>3, <2>1
  <2>2. CASE k \notin chunk \ Unlisted
    <3>1. prices[k] = call[c].prices[k] /\ k \in DOMAIN call[c].prices \cap call[c].asked
      BY <2>2
    <3> QED BY <3>1 DEF PInv, CallInv
  <2> QED BY <2>1, <2>2
<1>7. CASE call[c].pending # {chunk}
  <2>1. /\ call' = [call EXCEPT ![c].pending = @ \ {chunk}, ![c].prices = prices]
        /\ answer' = <<>> /\ UNCHANGED <<latest, cache>>
    BY <1>1, <1>7 DEF NoAnswer
  <2> HIDE DEF prices, late
  <2>2. /\ call'[c].asked = call[c].asked /\ call'[c].pending = call[c].pending \ {chunk}
        /\ call'[c].prices = prices /\ call'[c].since = call[c].since
        /\ call'[c].overlap = call[c].overlap
        /\ call'[c] = Record(c)'
    <3>1. c \in DOMAIN call /\ call[c] = Record(c)
      BY DEF PInv, TypeInv
    <3>2. call'[c] = [[call[c] EXCEPT !.pending = call[c].pending \ {chunk}] EXCEPT !.prices = prices]
      BY <2>1, <3>1
    <3>3. [call[c] EXCEPT !.pending = call[c].pending \ {chunk}] =
            [asked |-> call[c].asked, pending |-> call[c].pending \ {chunk},
             prices |-> call[c].prices, since |-> call[c].since, overlap |-> call[c].overlap]
      BY <3>1 DEF Record
    <3>4. call'[c] = [asked |-> call[c].asked, pending |-> call[c].pending \ {chunk},
                      prices |-> prices, since |-> call[c].since, overlap |-> call[c].overlap]
      BY <3>2, <3>3
    <3> QED BY <3>4 DEF Record
  <2>3. \A d \in PriceCalls : d # c => call'[d] = call[d]
    BY <2>1 DEF PInv, TypeInv
  <2>4. /\ \A d \in PriceCalls : /\ call'[d].asked = call[d].asked /\ call'[d].since = call[d].since
                                 /\ call'[d].overlap = call[d].overlap /\ Hits(d)' = Hits(d)
        /\ \A d \in PriceCalls : \A k \in Hits(d) : call'[d].prices[k] = call[d].prices[k]
    <3>1. Hits(c)' = Hits(c)
      BY <1>4, <2>2 DEF Hits
    <3>2. \A d \in PriceCalls : d # c => Hits(d)' = Hits(d)
      BY <2>3 DEF Hits
    <3>3. \A k \in Hits(c) : call'[c].prices[k] = call[c].prices[k]
      BY <1>5, <2>2
    <3> QED BY <2>2, <2>3, <3>1, <3>2, <3>3
  <2>5. TypeInv'
    <3>1. call' = [d \in PriceCalls |-> call'[d]]
      BY <2>1 DEF PInv, TypeInv
    <3>2. \A d \in PriceCalls : call'[d] = Record(d)'
      BY <2>2, <2>3 DEF PInv, TypeInv, Record
    <3>3. call' = [d \in PriceCalls |-> Record(d)']
      BY <3>1, <3>2
    <3> QED BY <1>2, <2>1, <3>3 DEF PInv, TypeInv
  <2>6. CacheInv'
    BY <1>2, <2>1 DEF PInv, CacheInv, Cached
  <2>7. CallInv'
    <3> SUFFICES ASSUME NEW d \in PriceCalls PROVE CallInv!(d)'
      BY DEF CallInv
    <3>1. CASE d # c
      BY <1>2, <2>3, <2>4, <3>1 DEF PInv, CallInv
    <3>2. CASE d = c
      <4>1. call[c].pending \ {chunk} # {}
        BY <1>7
      <4>2. call[c].asked \subseteq Unlisted \cup DOMAIN prices \cup UNION (call[c].pending \ {chunk})
        BY <1>3, <1>4
      <4> QED BY <1>2, <1>3, <1>4, <1>5, <1>6, <2>2, <2>4, <3>2, <4>1, <4>2
    <3> QED BY <3>1, <3>2
  <2> DEFINE Same == /\ UNCHANGED <<now, latest, cache>>
                     /\ \A d \in PriceCalls :
                          /\ call'[d].asked = call[d].asked /\ call'[d].since = call[d].since
                          /\ call'[d].overlap = call[d].overlap
                          /\ \A k : k \in Hits(d)' <=> k \in Hits(d)
                          /\ \A k \in Hits(d) : call'[d].prices[k] = call[d].prices[k]
  <2>0. Same
    BY <1>2, <2>1, <2>4
  <2>8. EntriesAdvance'
    BY <2>0 DEF PInv, EntriesAdvance, Cached
  <2>9. AskedAdvance'
    BY <2>0 DEF PInv, AskedAdvance, Cached
  <2>10. HitsAdvance'
    BY <2>0 DEF PInv, HitsAdvance, Cached, IsExpired
  <2>11. PricesFresh' /\ PricesAdvanceUnlessExcused'
    BY <2>1 DEF PricesFresh, PricesAdvanceUnlessExcused
  <2> QED BY <2>5, <2>6, <2>7, <2>8, <2>9, <2>10, <2>11 DEF PInv
<1>8. CASE call[c].pending = {chunk}
  <2>1. /\ call' = [call EXCEPT ![c] = Idle]
        /\ cache' = MSet(Stored(c, prices), call[c].overlap)
        /\ Answer(prices, now - call[c].since, late, call[c].overlap)
    BY <1>1, <1>8
  <2>2. \A k \in Hits(c) : call[c].since < now => k \in late
    BY <1>4
  <2>3. call[c].asked \ Unlisted \subseteq DOMAIN prices
    BY <1>3, <1>4, <1>8
  <2> HIDE DEF prices, late
  <2>4. \A k \in DOMAIN prices : prices[k].at \in Int /\ prices[k].at <= now
    BY <1>2, <1>3, <1>4, <1>5, <1>6
  <2>5. /\ latest' \in [Keys -> Int]
        /\ \A k \in Keys : latest'[k] # latest[k] =>
             k \in DOMAIN prices /\ latest'[k] = prices[k].at /\ latest[k] < prices[k].at
        /\ DOMAIN answer' = DOMAIN prices
        /\ \A k \in DOMAIN prices :
             /\ answer'[k].age = now - prices[k].at
             /\ answer'[k].waited = now - call[c].since + prices[k].waited
             /\ answer'[k].older => prices[k].at < latest[k]
             /\ k \in late => answer'[k].late
             /\ prices[k].overlap \/ k \in call[c].overlap => answer'[k].overlap
    BY <2>1, <2>4, AnswerDoes DEF PInv
  <2>6. /\ call' = [d \in PriceCalls |-> call'[d]]
        /\ call'[c] = Idle /\ \A d \in PriceCalls : d # c => call'[d] = call[d]
    BY <2>1 DEF PInv, TypeInv
  <2>7. Hits(c)' = {} /\ call'[c].asked = {} /\ \A d \in PriceCalls : d # c => Hits(d)' = Hits(d)
    BY <2>6 DEF Hits, Idle
  <2>8. /\ Cached' = (call[c].asked \ Unlisted) \cup Cached
        /\ \A k \in Cached' : k \notin call[c].asked \ Unlisted => cache'[k] = cache[k]
        /\ \A k \in call[c].asked \ Unlisted : cache'[k] =
             [at |-> prices[k].at, waited |-> now - prices[k].at, expiresAt |-> now + Ttl,
              overlap |-> k \in call[c].overlap]
    BY <2>1 DEF MSet, Stored, Restrict, Cached
  <2>9. ASSUME NEW k \in call[c].asked \ Unlisted
        PROVE  /\ cache'[k].at = prices[k].at /\ cache'[k].waited = now - prices[k].at
               /\ cache'[k].expiresAt = now + Ttl
               /\ k \in call[c].overlap => cache'[k].overlap
               /\ call[c].since <= prices[k].at /\ prices[k].at \in Int /\ prices[k].at <= now
    <3>1. PICK over : over = (k \in call[c].overlap)
      OBVIOUS
    <3>2. cache'[k] = [at |-> prices[k].at, waited |-> now - prices[k].at,
                       expiresAt |-> now + Ttl, overlap |-> over]
      BY <2>8, <3>1, Zenon
    <3>3. /\ cache'[k].at = prices[k].at /\ cache'[k].waited = now - prices[k].at
          /\ cache'[k].expiresAt = now + Ttl /\ cache'[k].overlap = over
      BY ONLY <3>2, SMT
    <3>4. k \in call[c].overlap => cache'[k].overlap
      BY <3>1, <3>3, Zenon
    <3> QED BY <1>6, <2>3, <3>3, <3>4
  <2>10. TypeInv'
    <3>1. \A d \in PriceCalls : call'[d] = Record(d)'
      BY <2>6 DEF PInv, TypeInv, Record, Idle
    <3>2. call' = [d \in PriceCalls |-> Record(d)']
      BY <2>6, <3>1
    <3>3. \A k \in Keys : latest'[k] <= now
      BY <2>4, <2>5 DEF PInv, TypeInv
    <3> QED BY <1>2, <2>5, <3>2, <3>3 DEF PInv, TypeInv
  <2>11. CacheInv'
    <3> SUFFICES ASSUME NEW k \in Cached' PROVE k \in Keys /\ CacheInv!2!(k)'
      BY DEF CacheInv
    <3>1. CASE k \in call[c].asked \ Unlisted
      BY <1>2, <1>3, <2>9, <3>1, TtlAssumption
    <3>2. CASE k \notin call[c].asked \ Unlisted
      BY <1>2, <2>8, <3>2 DEF PInv, CacheInv
    <3> QED BY <3>1, <3>2
  <2>12. CallInv'
    <3> SUFFICES ASSUME NEW d \in PriceCalls PROVE CallInv!(d)'
      BY DEF CallInv
    <3>1. CASE d # c
      BY <1>2, <2>6, <2>7, <3>1 DEF PInv, CallInv
    <3>2. CASE d = c
      BY <1>2, <2>6, <2>7, <3>2 DEF PInv, TypeInv, Idle
    <3> QED BY <3>1, <3>2
  <2>13. EntriesAdvance'
    <3> SUFFICES ASSUME NEW k \in Cached' PROVE EntriesAdvance!(k)'
      BY DEF EntriesAdvance
    <3>1. k \in Keys /\ latest[k] \in Int
      BY <2>11 DEF PInv, TypeInv, CacheInv
    <3>2. CASE k \in call[c].asked \ Unlisted
      <4>1. CASE k \in call[c].overlap
        BY <2>9, <3>2, <4>1
      <4>2. CASE k \notin call[c].overlap
        <5>1. latest[k] <= call[c].since
          BY <3>2, <4>2 DEF PInv, AskedAdvance
        <5>2. cache'[k].at >= latest'[k]
          BY <1>3, <2>5, <2>9, <3>1, <3>2, <5>1
        <5>3. ASSUME NEW d \in PriceCalls, k \in Hits(d)' PROVE cache'[k].at >= call'[d].prices[k].at
          <6>1. d # c /\ k \in Hits(d) /\ call'[d] = call[d]
            BY <2>6, <2>7, <5>3
          <6>2. call[d].prices[k].at <= call[c].since /\ call[d].prices[k].at \in Int
            BY <3>2, <4>2, <6>1 DEF PInv, AskedAdvance, CallInv, Hits
          <6> QED BY <1>3, <2>9, <3>2, <6>1, <6>2
        <5> QED BY <5>2, <5>3
      <4> QED BY <4>1, <4>2
    <3>3. CASE k \notin call[c].asked \ Unlisted
      <4>1. k \in Cached /\ cache'[k] = cache[k]
        BY <2>8, <3>3
      <4>2. cache[k].at >= latest'[k] \/ cache[k].overlap
        <5>1. CASE latest'[k] = latest[k]
          BY <4>1, <5>1 DEF PInv, EntriesAdvance
        <5>2. CASE latest'[k] # latest[k] /\ k \in call[c].asked
          BY <4>1, <5>2 DEF PInv, AskedAdvance
        <5>3. CASE latest'[k] # latest[k] /\ k \notin call[c].asked
          <6>1. k \in Hits(c) /\ latest'[k] = call[c].prices[k].at
            BY <1>4, <1>5, <2>5, <3>1, <5>3
          <6> QED BY <4>1, <6>1 DEF PInv, EntriesAdvance
        <5> QED BY <5>1, <5>2, <5>3
      <4>3. ASSUME NEW d \in PriceCalls, k \in Hits(d)'
            PROVE  cache[k].at >= call'[d].prices[k].at \/ cache[k].overlap
        BY <2>6, <2>7, <4>1, <4>3 DEF PInv, EntriesAdvance
      <4> QED BY <4>1, <4>2, <4>3
    <3> QED BY <3>2, <3>3
  <2>14. AskedAdvance'
    <3> SUFFICES ASSUME NEW d \in PriceCalls, NEW k \in call'[d].asked PROVE AskedAdvance!(d)!(k)'
      BY DEF AskedAdvance
    <3>1. d # c /\ call'[d] = call[d] /\ k \in call[d].asked /\ k \in Keys
      BY <2>6, <2>7 DEF PInv, CallInv
    <3>2. latest'[k] <= call[d].since \/ k \in call[d].overlap
      <4>1. CASE latest'[k] = latest[k]
        BY <3>1, <4>1 DEF PInv, AskedAdvance
      <4>2. CASE latest'[k] # latest[k] /\ k \in call[c].asked
        BY <3>1, <4>2 DEF PInv, AskedAdvance
      <4>3. CASE latest'[k] # latest[k] /\ k \notin call[c].asked
        <5>1. k \in Hits(c) /\ latest'[k] = call[c].prices[k].at
          BY <1>4, <1>5, <2>5, <3>1, <4>3
        <5> QED BY <3>1, <5>1 DEF PInv, AskedAdvance
      <4> QED BY <4>1, <4>2, <4>3
    <3>3. k \in Cached' => k \in call[d].overlap /\ cache'[k].overlap
      <4>1. CASE k \in call[c].asked \ Unlisted
        BY <2>9, <3>1, <4>1 DEF PInv, AskedAdvance
      <4>2. CASE k \notin call[c].asked \ Unlisted
        BY <2>8, <3>1, <4>2 DEF PInv, AskedAdvance
      <4> QED BY <4>1, <4>2
    <3>4. ASSUME NEW e \in PriceCalls, k \in Hits(e)'
          PROVE  call'[e].prices[k].at <= call[d].since \/ k \in call[d].overlap
      BY <2>6, <2>7, <3>1, <3>4 DEF PInv, AskedAdvance
    <3>5. ASSUME NEW e \in PriceCalls, e # d, k \in call'[e].asked PROVE k \in call[d].overlap
      BY <2>6, <2>7, <3>1, <3>5 DEF PInv, AskedAdvance
    <3> QED BY <3>1, <3>2, <3>3, <3>4, <3>5
  <2>15. HitsAdvance'
    <3> SUFFICES ASSUME NEW d \in PriceCalls, call'[d].since = now, NEW k \in Hits(d)'
                 PROVE  HitsAdvance!(d)!2!(k)'
      BY <1>2 DEF HitsAdvance
    <3>1. d # c /\ call'[d] = call[d] /\ k \in Hits(d) /\ k \in Keys
      BY <2>6, <2>7 DEF PInv, CallInv, Hits
    <3>2. k \in Cached /\ ~IsExpired(cache[k]) /\ k \in Cached'
      BY <2>8, <3>1 DEF PInv, HitsAdvance
    <3>3. ~IsExpired(cache[k])'
      <4>1. CASE k \in call[c].asked \ Unlisted
        BY <1>2, <2>9, <4>1, TtlAssumption DEF IsExpired
      <4>2. CASE k \notin call[c].asked \ Unlisted
        BY <1>2, <2>8, <3>2, <4>2 DEF IsExpired
      <4> QED BY <4>1, <4>2
    <3>4. ASSUME ~call[d].prices[k].overlap
          PROVE  /\ latest'[k] <= call[d].prices[k].at /\ cache'[k].at <= call[d].prices[k].at
                 /\ \A e \in PriceCalls :
                      /\ k \notin call'[e].asked
                      /\ k \in Hits(e)' => call'[e].prices[k].at <= call[d].prices[k].at
      <4>1. /\ latest[k] <= call[d].prices[k].at /\ cache[k].at <= call[d].prices[k].at
            /\ \A e \in PriceCalls :
                 /\ k \notin call[e].asked
                 /\ k \in Hits(e) => call[e].prices[k].at <= call[d].prices[k].at
        BY <1>2, <3>1, <3>4 DEF PInv, HitsAdvance
      <4>2. cache'[k] = cache[k]
        BY <2>8, <3>2, <4>1
      <4>3. latest'[k] <= call[d].prices[k].at
        <5>1. CASE latest'[k] = latest[k]
          BY <4>1, <5>1
        <5>2. CASE latest'[k] # latest[k]
          <6>1. k \in Hits(c) /\ latest'[k] = call[c].prices[k].at
            BY <1>4, <1>5, <2>5, <3>1, <4>1, <5>2
          <6> QED BY <4>1, <6>1
        <5> QED BY <5>1, <5>2
      <4> QED BY <2>6, <2>7, <4>1, <4>2, <4>3
    <3> QED BY <3>1, <3>2, <3>3, <3>4
  <2>16. PricesFresh'
    <3> SUFFICES ASSUME NEW k \in DOMAIN prices PROVE answer'[k].age <= Ttl + answer'[k].waited
      BY <2>5 DEF PricesFresh
    <3>1. answer'[k].age = now - prices[k].at /\ answer'[k].waited = now - call[c].since + prices[k].waited
      BY <2>5
    <3>2. CASE k \in call[c].asked
      BY <1>2, <1>3, <1>6, <3>1, <3>2, TtlAssumption
    <3>3. CASE k \notin call[c].asked
      BY <1>2, <1>3, <1>4, <1>5, <3>1, <3>3, TtlAssumption
    <3> QED BY <3>2, <3>3
  <2>17. PricesAdvanceUnlessExcused'
    <3> SUFFICES ASSUME NEW k \in DOMAIN prices, prices[k].at < latest[k]
                 PROVE  prices[k].overlap \/ k \in call[c].overlap \/ k \in late
      BY <2>5 DEF PricesAdvanceUnlessExcused
    <3>1. prices[k].at \in Int /\ k \in Keys /\ latest[k] \in Int
      BY <1>4, <2>4 DEF PInv, TypeInv
    <3>2. CASE k \in call[c].asked
      <4>1. call[c].since <= prices[k].at
        BY <1>6, <3>2
      <4>2. latest[k] <= call[c].since \/ k \in call[c].overlap
        BY <3>2 DEF PInv, AskedAdvance
      <4> QED BY <1>3, <3>1, <4>1, <4>2
    <3>3. CASE k \notin call[c].asked /\ call[c].since < now
      BY <1>4, <2>2, <3>3
    <3>4. CASE k \notin call[c].asked /\ call[c].since = now
      <4>1. k \in Hits(c) /\ prices[k] = call[c].prices[k]
        BY <1>4, <1>5, <3>4
      <4>2. prices[k].overlap \/ latest[k] <= prices[k].at
        BY <3>4, <4>1 DEF PInv, HitsAdvance
      <4> QED BY <3>1, <4>2
    <3> QED BY <1>2, <1>3, <3>2, <3>3, <3>4
  <2> QED BY <2>10, <2>11, <2>12, <2>13, <2>14, <2>15, <2>16, <2>17 DEF PInv
<1> QED BY <1>7, <1>8

\* Each step keeps the invariant, and so does none.
LEMMA StepKeeps ==
  ASSUME PInv, PricesFresh, PricesAdvanceUnlessExcused, [PNext]_pvars
  PROVE  PInv' /\ PricesFresh' /\ PricesAdvanceUnlessExcused'
<1>1. CASE Tick
  BY <1>1, TickKeeps
<1>2. ASSUME NEW c \in PriceCalls, GetMultipleSpotPrices(c)
      PROVE  PInv' /\ PricesFresh' /\ PricesAdvanceUnlessExcused'
  <2>1. PICK keys \in SUBSET Assets \ {{}} : Read(c, keys)
    BY <1>2 DEF GetMultipleSpotPrices
  <2>2. keys \in SUBSET Keys
    BY DEF Keys
  <2> QED BY <2>1, <2>2, ReadKeeps
<1>3. ASSUME NEW c \in PriceCalls, GetHistoricalPrices(c)
      PROVE  PInv' /\ PricesFresh' /\ PricesAdvanceUnlessExcused'
  <2>1. PICK k \in Histories : Read(c, {k})
    BY <1>3 DEF GetHistoricalPrices
  <2>2. {k} \in SUBSET Keys
    BY DEF Keys
  <2> QED BY <2>1, <2>2, ReadKeeps
<1>4. ASSUME NEW c \in PriceCalls, Fetched(c) \/ FetchFails(c)
      PROVE  PInv' /\ PricesFresh' /\ PricesAdvanceUnlessExcused'
  BY <1>4, FetchedKeeps, FetchFailsKeeps
<1>5. CASE UNCHANGED pvars
  <2>1. UNCHANGED <<now, cache, call, answer, latest>>
    BY <1>5 DEF pvars
  <2>2. TypeInv' /\ CacheInv' /\ CallInv'
    BY <2>1 DEF PInv, TypeInv, Record, CacheInv, Cached, CallInv, Hits
  <2>3. EntriesAdvance' /\ AskedAdvance'
    BY <2>1 DEF PInv, EntriesAdvance, AskedAdvance, Hits, Cached
  <2>4. HitsAdvance'
    BY <2>1 DEF PInv, HitsAdvance, Hits, Cached, IsExpired
  <2> QED BY <2>1, <2>2, <2>3, <2>4 DEF PInv, PricesFresh, PricesAdvanceUnlessExcused
<1> QED BY <1>1, <1>2, <1>3, <1>4, <1>5 DEF PNext

\* The two properties hold with the invariant at every moment.
LEMMA AlwaysPInv == PSpec => [](PInv /\ PricesFresh /\ PricesAdvanceUnlessExcused)
BY InitPInv, StepKeeps, PTL DEF PSpec

\* The composition takes the steps of the prices, or leaves them alone.
LEMMA SpecPrices == Spec => PSpec
<1>1. Init => PInit
  BY DEF Init
<1>2. [Next]_vars => [PNext]_pvars
  BY DEF Next, vars, PriceStep, HistoryStep, AskAmount, AskTransport, AskMessage, AskRate, AskMapping,
         AskRequest, AskDialog, AskInstructions, Asking
<1> QED BY <1>1, <1>2, PTL DEF Spec, PSpec

\* getMultipleSpotPrices and getHistoricalPrices answer no price older than its time to live
\* allows, but for the time that calls took to fetch (PriceApiClient, InMemoryCache).
THEOREM PricesStayFresh == Spec => []PricesFresh
BY SpecPrices, AlwaysPInv, PTL

\* No caller of PriceApiClient is answered an older price of an asset than was answered before,
\* unless two calls fetched it at once, or it was read before another chunk was waited for.
THEOREM PricesAdvance == Spec => []PricesAdvanceUnlessExcused
BY SpecPrices, AlwaysPInv, PTL

-----------------------------------------------------------------------------
(* The history *)

\* What the state holds of a transaction.
Entries == [id : Signatures, timestamp : 0..MaxStamp]

\* No transaction is saved twice.
Distinct(list) == \A i, j \in DOMAIN list : list[i].id = list[j].id => i = j

\* Types.
HistoryTypes ==
  /\ saved \in Seq(Entries)
  /\ cursor \in Signatures \cup {First, Finished}
  /\ shown \in Seq(Signatures)
  /\ wanted \in Seq(Signatures)
  /\ moved \in BOOLEAN

\* Before a position, what was wanted has been shown.
ShownBefore(p) ==
  Filter(shown, Range(wanted)) = Filter(SubSeq(Ids(saved), 1, p - 1), Range(wanted))

\* The cursor is the transaction the next page starts with; what was saved when the first page
\* was read is still there in its order, and before the cursor all of it has been shown.
HistoryInv ==
  /\ HistoryTypes
  /\ Distinct(saved)
  /\ cursor \in Signatures => \E p \in DOMAIN saved : saved[p].id = cursor
  /\ cursor = First => shown = <<>> /\ ~moved
  /\ cursor # First /\ ~moved =>
       /\ Filter(Ids(saved), Range(wanted)) = wanted
       /\ IF cursor = Finished THEN Filter(shown, Range(wanted)) = wanted
          ELSE \E p \in DOMAIN saved : saved[p].id = cursor /\ ShownBefore(p)

\* The signatures of a list of transactions.
LEMMA IdsType ==
  ASSUME NEW list \in Seq(Entries)
  PROVE  /\ Ids(list) \in Seq(Signatures)
         /\ Len(Ids(list)) = Len(list) /\ DOMAIN list = 1..Len(list) /\ Len(list) \in Nat
         /\ \A i \in DOMAIN list : Ids(list)[i] = list[i].id /\ list[i].id \in Signatures
<1>1. DOMAIN list = 1..Len(list) /\ Len(list) \in Nat /\ \A i \in DOMAIN list : list[i] \in Entries
  OBVIOUS
<1>2. \A i \in DOMAIN list : list[i].id \in Signatures BY <1>1 DEF Entries
<1>3. Ids(list) = [i \in 1..Len(list) |-> list[i].id] BY <1>1 DEF Ids
<1> QED BY <1>1, <1>2, <1>3

\* Sorting rearranges.
LEMMA SortedRearranges ==
  ASSUME NEW list \in Seq(Entries)
  PROVE  \E order \in [DOMAIN list -> DOMAIN list] :
           /\ \A i \in DOMAIN list : \E k \in DOMAIN list : order[k] = i
           /\ \A k, l \in DOMAIN list : order[k] = order[l] => k = l
           /\ Sorted(list) = [k \in DOMAIN list |-> list[order[k]]]
<1> DEFINE D == DOMAIN list
           n == Len(list)
           before(i, j) == \/ list[i].timestamp > list[j].timestamp
                           \/ (list[i].timestamp = list[j].timestamp /\ i < j)
           B(i) == {j \in D : before(j, i)}
           rank(i) == Cardinality(B(i))
           order == [k \in D |-> CHOOSE i \in D : rank(i) = k - 1]
           position == [i \in D |-> rank(i) + 1]
<1>1. D = 1..n /\ n \in Nat /\ IsFiniteSet(D) /\ Cardinality(D) = n
  <2>1. D = 1..n /\ n \in Nat OBVIOUS
  <2>2. IsFiniteSet(1..n) /\ Cardinality(1..n) = n BY <2>1, FS_Interval
  <2> QED BY <2>1, <2>2
<1>2. \A i \in D : list[i].timestamp \in Int /\ i \in Int
  <2>1. \A i \in D : list[i] \in Entries /\ i \in Int OBVIOUS
  <2>2. 0..MaxStamp \subseteq Int OBVIOUS
  <2> QED BY <2>1, <2>2 DEF Entries
<1>3. \A i \in D : ~ before(i, i) BY <1>2
<1>4. \A i, j \in D : i = j \/ before(i, j) \/ before(j, i)
  <2>1. \A a, b \in Int : a = b \/ a > b \/ b > a OBVIOUS
  <2> QED BY <2>1, <1>2
<1>5. \A i, j, k \in D : before(i, j) /\ before(j, k) => before(i, k)
  <2> SUFFICES ASSUME NEW i \in D, NEW j \in D, NEW k \in D, before(i, j), before(j, k)
               PROVE  before(i, k)
    OBVIOUS
  <2> QED BY <1>2
<1> HIDE DEF before, D, n
<1>6. \A i \in D : B(i) \in SUBSET D /\ i \notin B(i) BY <1>3
<1>7. \A i \in D : IsFiniteSet(B(i)) /\ rank(i) \in 0..(n - 1)
  <2> SUFFICES ASSUME NEW i \in D PROVE IsFiniteSet(B(i)) /\ rank(i) \in 0..(n - 1) OBVIOUS
  <2>1. B(i) \in SUBSET D /\ B(i) # D BY <1>6
  <2> HIDE DEF B
  <2>2. IsFiniteSet(B(i)) /\ Cardinality(B(i)) <= n /\ Cardinality(B(i)) # n
    BY <2>1, <1>1, FS_Subset
  <2>3. Cardinality(B(i)) \in Nat BY <2>2, FS_CardinalityType
  <2> QED BY <2>2, <2>3, <1>1
<1>8. \A i, j \in D : before(i, j) => rank(i) < rank(j)
  <2> SUFFICES ASSUME NEW i \in D, NEW j \in D, before(i, j) PROVE rank(i) < rank(j) OBVIOUS
  <2>1. B(i) \in SUBSET B(j) /\ i \in B(j) /\ i \notin B(i) BY <1>5, <1>6
  <2> HIDE DEF B
  <2>2. Cardinality(B(i)) <= Cardinality(B(j)) /\ Cardinality(B(i)) # Cardinality(B(j))
    BY <2>1, <1>7, FS_Subset
  <2> QED BY <2>2, <1>7, <1>1
<1>90. \A i \in D : rank(i) \in Nat /\ rank(i) + 1 \in 1..n /\ (rank(i) + 1) - 1 = rank(i)
  <2>1. \A r \in 0..(n - 1) : r \in Nat /\ r + 1 \in 1..n /\ (r + 1) - 1 = r BY <1>1
  <2> HIDE DEF rank
  <2> QED BY <2>1, <1>7
<1>9. \A i, j \in D : rank(i) = rank(j) => i = j
  <2> SUFFICES ASSUME NEW i \in D, NEW j \in D, rank(i) = rank(j), i # j PROVE FALSE OBVIOUS
  <2>1. before(i, j) \/ before(j, i) BY <1>4
  <2>2. rank(i) < rank(j) \/ rank(j) < rank(i) BY <2>1, <1>8
  <2>3. rank(i) \in Int /\ rank(j) \in Int BY <1>90
  <2> HIDE DEF rank
  <2> QED BY <2>2, <2>3
<1> HIDE DEF rank
<1>10. \A k \in D : \E i \in D : rank(i) = k - 1
  <2>1. \A i \in D : position[i] = rank(i) + 1 OBVIOUS
  <2>2. \A i \in D : rank(i) \in Nat /\ rank(i) + 1 \in 1..n BY <1>90
  <2>3. \A i, j \in D : rank(i) + 1 = rank(j) + 1 => i = j BY <2>2, <1>9
  <2>4. position \in [D -> D] BY <2>2, <1>1
  <2>5. position \in Injection(D, D) BY <2>4, <2>3, <2>1 DEF Injection, IsInjective
  <2>6. position \in Surjection(D, D) BY <2>5, <1>1, FS_Injection
  <2>7. \A k \in D : \E i \in D : rank(i) + 1 = k BY <2>6 DEF Surjection
  <2> QED BY <2>7, <1>90
<1>11. \A k \in D : order[k] \in D /\ rank(order[k]) = k - 1 BY <1>10
<1>12. Sorted(list) = [k \in D |-> list[order[k]]]
  BY DEF Sorted, rank, before, D
<1> HIDE DEF order
<1>13. \A k, l \in D : order[k] = order[l] => k = l BY <1>11, <1>1
<1>14. \A i \in D : \E k \in D : order[k] = i
  <2> SUFFICES ASSUME NEW i \in D PROVE \E k \in D : order[k] = i OBVIOUS
  <2>1. rank(i) + 1 \in D /\ (rank(i) + 1) - 1 = rank(i) BY <1>90, <1>1
  <2>2. rank(order[rank(i) + 1]) = rank(i) /\ order[rank(i) + 1] \in D BY <2>1, <1>11
  <2> QED BY <2>1, <2>2, <1>9
<1>15. order \in [D -> D] BY <1>11 DEF order
<1> QED BY <1>12, <1>13, <1>14, <1>15 DEF D

\* Saving a transaction keeps those there are, each once.
LEMMA SavedKeeps ==
  ASSUME NEW list \in Seq(Entries), Distinct(list), NEW tx \in Entries
  PROVE  /\ Saved(list, tx) \in Seq(Entries)
         /\ Distinct(Saved(list, tx))
         /\ Range(Ids(Saved(list, tx))) = Range(Ids(list)) \cup {tx.id}
<1> DEFINE I == {i \in 1..Len(list) : list[i].id = tx.id}
           at == IF I # {} THEN Min(I) ELSE 0
           put == IF at = 0 THEN Append(list, tx) ELSE ReplaceAt(list, at, tx)
<1>1. /\ DOMAIN list = 1..Len(list) /\ Len(list) \in Nat
      /\ \A i \in DOMAIN list : list[i] \in Entries
  OBVIOUS
<1>2. Saved(list, tx) = Sorted(put) BY DEF Saved, SelectInSeq
<1>3. /\ put \in Seq(Entries) /\ Distinct(put)
      /\ {put[i].id : i \in DOMAIN put} = {list[i].id : i \in DOMAIN list} \cup {tx.id}
  <2>1. CASE I = {}
    <3>1. at = 0 /\ put = Append(list, tx) BY <2>1
    <3>2. \A i \in DOMAIN list : list[i].id # tx.id BY <2>1, <1>1
    <3>3. /\ put \in Seq(Entries) /\ DOMAIN put = 1..(Len(list) + 1)
          /\ \A i \in 1..Len(list) : put[i] = list[i]
          /\ put[Len(list) + 1] = tx
      BY <3>1
    <3> HIDE DEF put, at, I
    <3>4. Distinct(put) BY <3>2, <3>3, <1>1 DEF Distinct
    <3>5. \A i \in DOMAIN put : put[i].id \in {list[j].id : j \in DOMAIN list} \cup {tx.id}
      BY <3>3, <1>1
    <3>6. /\ \A j \in DOMAIN list : list[j].id \in {put[i].id : i \in DOMAIN put}
          /\ tx.id \in {put[i].id : i \in DOMAIN put}
      <4>1. \A j \in DOMAIN list : j \in DOMAIN put /\ put[j].id = list[j].id BY <3>3, <1>1
      <4>2. Len(list) + 1 \in DOMAIN put BY <3>3, <1>1
      <4> QED BY <4>1, <4>2, <3>3
    <3> QED BY <3>3, <3>4, <3>5, <3>6
  <2>2. CASE I # {}
    <3>1. PICK i \in DOMAIN list : list[i].id = tx.id BY <2>2, <1>1
    <3>2. I = {i} BY <3>1, <1>1 DEF Distinct
    <3>3. Min(I) = i BY <3>2, <1>1 DEF Min
    <3>4. at = i /\ i # 0 BY <3>3, <2>2, <1>1
    <3>5. put = [list EXCEPT ![i] = tx] BY <3>4 DEF ReplaceAt
    <3> HIDE DEF put, at, I
    <3>6. put \in Seq(Entries) /\ DOMAIN put = DOMAIN list BY <3>5, <1>1
    <3>7. \A j \in DOMAIN list : put[j].id = list[j].id BY <3>5, <3>1
    <3>8. Distinct(put) BY <3>6, <3>7 DEF Distinct
    <3> QED BY <3>6, <3>7, <3>8, <3>1
  <2> QED BY <2>1, <2>2
<1> HIDE DEF put
<1>4. PICK order \in [DOMAIN put -> DOMAIN put] :
        /\ \A i \in DOMAIN put : \E k \in DOMAIN put : order[k] = i
        /\ \A k, l \in DOMAIN put : order[k] = order[l] => k = l
        /\ Sorted(put) = [k \in DOMAIN put |-> put[order[k]]]
  BY <1>3, SortedRearranges
<1>5. /\ Sorted(put) \in Seq(Entries) /\ DOMAIN Sorted(put) = DOMAIN put
      /\ \A k \in DOMAIN put : Sorted(put)[k] = put[order[k]]
  <2>1. \A i \in DOMAIN put : put[i] \in Entries BY <1>3
  <2>2. DOMAIN put = 1..Len(put) /\ Len(put) \in Nat BY <1>3
  <2>3. \A k \in 1..Len(put) : put[order[k]] \in Entries BY <1>4, <2>1, <2>2
  <2> QED BY <1>4, <2>2, <2>3
<1>6. Distinct(Sorted(put)) BY <1>3, <1>4, <1>5 DEF Distinct
<1>7. {Sorted(put)[k].id : k \in DOMAIN put} = {put[i].id : i \in DOMAIN put}
  <2>1. \A k \in DOMAIN put : order[k] \in DOMAIN put /\ Sorted(put)[k].id = put[order[k]].id
    BY <1>4, <1>5
  <2>2. \A i \in DOMAIN put : \E k \in DOMAIN put : Sorted(put)[k].id = put[i].id
    BY <1>4, <2>1
  <2>3. \A k \in DOMAIN put : Sorted(put)[k].id \in {put[i].id : i \in DOMAIN put} BY <2>1
  <2>4. \A i \in DOMAIN put : put[i].id \in {Sorted(put)[k].id : k \in DOMAIN put} BY <2>2
  <2> QED BY <2>3, <2>4
<1>8. Range(Ids(Sorted(put))) = {Sorted(put)[k].id : k \in DOMAIN put} BY <1>5 DEF Range, Ids
<1>9. Range(Ids(list)) = {list[i].id : i \in DOMAIN list} BY DEF Range, Ids
<1> QED BY <1>2, <1>3, <1>5, <1>6, <1>7, <1>8, <1>9

\* The parts of a list before and after an entry.
Before(list, q) == SubSeq(list, 1, q - 1)
After(list, q) == SubSeq(list, q + 1, Len(list))

\* A list is what is before an entry, the entry, and what is after it.
LEMMA Around ==
  ASSUME NEW A, NEW list \in Seq(A), NEW q \in DOMAIN list
  PROVE  /\ Before(list, q) \in Seq(A) /\ After(list, q) \in Seq(A)
         /\ Single(list[q]) \in Seq(A)
         /\ list = Joined(Joined(Before(list, q), Single(list[q])), After(list, q))
<1>1. Len(list) \in Nat /\ q \in 1..Len(list)
  OBVIOUS
<1>2. \A i \in 1..Len(list) : list[i] \in A OBVIOUS
<1>3. Before(list, q) \in Seq(A) /\ After(list, q) \in Seq(A)
  <2>1. \A i \in 1..(q - 1) : list[i] \in A BY <1>1, <1>2
  <2>2. \A i \in (q + 1)..Len(list) : list[i] \in A BY <1>1, <1>2
  <2> QED BY <2>1, <2>2, <1>1, SubSeqProperties DEF Before, After
<1>4. Joined(Before(list, q), Single(list[q])) = SubSeq(list, 1, q)
  <2>1. 1 \in 1..Len(list) /\ q \in 1..Len(list) BY <1>1
  <2> QED BY <2>1, SubSeqRecursiveSecond DEF Joined, Before, Single
<1>5. Joined(SubSeq(list, 1, q), After(list, q)) = list
  <2>1. /\ 1 \in 1..(Len(list) + 1) /\ q \in (1 - 1)..Len(list) /\ Len(list) \in q..Len(list)
    BY <1>1
  <2>2. Joined(SubSeq(list, 1, q), After(list, q)) = SubSeq(list, 1, Len(list))
    BY <2>1, ConcatAdjacentSubSeq DEF Joined, After
  <2> QED BY <2>2, SubSeqFull
<1>6. Single(list[q]) \in Seq(A) BY <1>1, <1>2 DEF Single
<1> QED BY <1>3, <1>4, <1>5, <1>6

\* The entries of a list, an entry and a list.
LEMMA JoinedThree ==
  ASSUME NEW A, NEW f \in Seq(A), NEW x \in A, NEW g \in Seq(A)
  PROVE  LET all == Joined(Joined(f, Single(x)), g)
         IN  /\ all \in Seq(A) /\ Len(all) = (Len(f) + 1) + Len(g)
             /\ \A i \in 1..Len(f) : all[i] = f[i]
             /\ all[Len(f) + 1] = x
<1> DEFINE c == Single(x)
           fc == Joined(f, c)
           all == Joined(fc, g)
<1>1. c \in Seq(A) /\ Len(c) = 1 /\ c[1] = x BY DEF Single
<1>2. Len(f) \in Nat /\ Len(g) \in Nat OBVIOUS
<1> HIDE DEF c
<1>3. /\ fc \in Seq(A) /\ Len(fc) = Len(f) + Len(c)
      /\ \A i \in 1..(Len(f) + Len(c)) : fc[i] = IF i <= Len(f) THEN f[i] ELSE c[i - Len(f)]
  BY <1>1, JoinedProperties
<1> HIDE DEF fc
<1>4. fc[Len(f) + 1] = x /\ \A i \in 1..Len(f) : fc[i] = f[i]
  <2>1. /\ Len(f) + 1 \in 1..(Len(f) + 1) /\ ~ Len(f) + 1 <= Len(f) /\ (Len(f) + 1) - Len(f) = 1
        /\ \A i \in 1..Len(f) : i \in 1..(Len(f) + 1) /\ i <= Len(f)
    BY <1>2
  <2> QED BY <2>1, <1>3, <1>1
<1>5. /\ all \in Seq(A) /\ Len(all) = Len(fc) + Len(g)
      /\ \A i \in 1..(Len(fc) + Len(g)) : all[i] = IF i <= Len(fc) THEN fc[i] ELSE g[i - Len(fc)]
  <2>1. fc \in Seq(A) BY <1>3
  <2> QED BY <2>1, JoinedProperties
<1> HIDE DEF all
<1>6. /\ \A i \in 1..Len(f) : i \in 1..(Len(fc) + Len(g)) /\ i <= Len(fc)
      /\ Len(f) + 1 \in 1..(Len(fc) + Len(g)) /\ Len(f) + 1 <= Len(fc)
  BY <1>1, <1>2, <1>3
<1>7. (\A i \in 1..Len(f) : all[i] = f[i]) /\ all[Len(f) + 1] = x
  BY <1>4, <1>5, <1>6
<1>8. Len(all) = (Len(f) + 1) + Len(g) BY <1>1, <1>3, <1>5
<1> QED BY <1>5, <1>7, <1>8 DEF all, fc, c

\* Lists of which the part before a single entry is known, when nothing occurs twice.
LEMMA PartBefore ==
  ASSUME NEW A, NEW f \in Seq(A), NEW x \in A, NEW g \in Seq(A), NEW p \in Nat
  PROVE  LET all == Joined(Joined(f, Single(x)), g)
         IN  (\A i, j \in DOMAIN all : all[i] = all[j] => i = j) /\ p \in DOMAIN all /\ all[p] = x
               => Before(all, p) = f
<1> DEFINE all == Joined(Joined(f, Single(x)), g)
<1>2. Len(f) \in Nat /\ Len(g) \in Nat OBVIOUS
<1>4. /\ all \in Seq(A) /\ Len(all) = (Len(f) + 1) + Len(g)
      /\ \A i \in 1..Len(f) : all[i] = f[i]
      /\ all[Len(f) + 1] = x
  BY JoinedThree
<1> HIDE DEF all
<1>6. Len(f) + 1 \in DOMAIN all
  <2>1. DOMAIN all = 1..((Len(f) + 1) + Len(g)) BY <1>4
  <2>2. Len(f) + 1 \in 1..((Len(f) + 1) + Len(g)) BY <1>2
  <2> QED BY <2>1, <2>2
<1>9. SubSeq(all, 1, Len(f)) = f
  <2>2. \A i \in 1..Len(f) : all[i] = f[i] BY <1>4
  <2>3. \A i \in 1..Len(f) : all[i] \in A BY <2>2
  <2>4. /\ SubSeq(all, 1, Len(f)) \in Seq(A) /\ Len(SubSeq(all, 1, Len(f))) = Len(f)
        /\ \A i \in 1..Len(f) : SubSeq(all, 1, Len(f))[i] = all[1 + i - 1]
    BY <2>3, <1>2, SubSeqProperties
  <2>5. \A i \in 1..Len(f) : SubSeq(all, 1, Len(f))[i] = f[i]
    BY <2>2, <2>4
  <2> QED BY <2>4, <2>5, SeqEqual
<1>10. (Len(f) + 1) - 1 = Len(f) BY <1>2
<1>11. Before(all, Len(f) + 1) = f BY <1>9, <1>10 DEF Before
<1>12. ASSUME \A i, j \in DOMAIN all : all[i] = all[j] => i = j, p \in DOMAIN all, all[p] = x
       PROVE  Before(all, p) = f
  <2>1. p = Len(f) + 1 BY <1>4, <1>6, <1>12
  <2> QED BY <2>1, <1>11
<1> QED BY <1>12 DEF all

\* What comes before an entry that stays, among those that stay.
LEMMA BeforeStays ==
  ASSUME NEW A, NEW old \in Seq(A), NEW new \in Seq(A),
         \A i, j \in DOMAIN old : old[i] = old[j] => i = j,
         Filter(new, Range(old)) = old,
         NEW p \in DOMAIN old, NEW q \in DOMAIN new, new[q] = old[p]
  PROVE  Before(old, p) = Filter(Before(new, q), Range(old))
<1> DEFINE R == Range(old)
           P == Before(new, q)
           Q == After(new, q)
           C == Single(new[q])
           PC == Joined(P, C)
<1>1. P \in Seq(A) /\ Q \in Seq(A) /\ C \in Seq(A) /\ new = Joined(PC, Q)
  BY Around
<1>2. Filter(C, R) = C
  <2>1. new[q] \in R BY DEF Range
  <2>2. DOMAIN C = {1} /\ C[1] = new[q] BY DEF Single
  <2> HIDE DEF C
  <2> QED BY <2>1, <2>2, <1>1, FilterAll
<1>3. new[q] \in A OBVIOUS
<1> HIDE DEF R, P, Q, C
<1>4. PC \in Seq(A) /\ Filter(PC, R) = Joined(Filter(P, R), C)
  BY <1>1, <1>2, FilterJoined
<1> HIDE DEF PC
<1>5. Filter(new, R) = Joined(Filter(PC, R), Filter(Q, R))
  BY <1>1, <1>4, FilterJoined
<1>6. old = Joined(Joined(Filter(P, R), Single(new[q])), Filter(Q, R))
  BY <1>4, <1>5 DEF C, R
<1>7. Filter(P, R) \in Seq(A) /\ Filter(Q, R) \in Seq(A) BY <1>1, FilterType
<1>8. Before(old, p) = Filter(P, R)
  <2> HIDE DEF R, P, Q
  <2> QED BY <1>3, <1>6, <1>7, PartBefore
<1> QED BY <1>8 DEF P, R

\* Saving a transaction keeps the invariant: unless it moved others, what was wanted and comes
\* before the cursor is what came before it.
LEMMA SaveKeeps == HistoryInv /\ Save => HistoryInv'
<1> SUFFICES ASSUME HistoryInv, Save PROVE HistoryInv' OBVIOUS
<1> USE DEF HistoryInv, HistoryTypes
<1> DEFINE old == Ids(saved)
           new == Ids(saved')
           W == Range(wanted)
<1>1. PICK id \in Signatures, timestamp \in 0..MaxStamp :
        saved' = Saved(saved, [id |-> id, timestamp |-> timestamp])
  BY DEF Save
<1>2. [id |-> id, timestamp |-> timestamp] \in Entries BY DEF Entries
<1>3. /\ saved' \in Seq(Entries) /\ Distinct(saved')
      /\ Range(new) = Range(old) \cup {id}
  BY <1>1, <1>2, SavedKeeps
<1>4. UNCHANGED <<cursor, shown, wanted>> BY DEF Save
<1>5. moved' = (cursor # First /\ (moved \/ Filter(new, Range(old)) # old)) BY DEF Save
<1>6. old \in Seq(Signatures) /\ new \in Seq(Signatures)
  BY <1>3, IdsType
<1>7. ASSUME cursor' # First, ~moved'
      PROVE  /\ Filter(new, W) = wanted
             /\ IF cursor' = Finished THEN Filter(shown, W) = wanted
                ELSE \E q \in DOMAIN saved' : saved'[q].id = cursor' /\ ShownBefore(q)'
  <2>1. ~moved /\ cursor # First /\ Filter(new, Range(old)) = old BY <1>7, <1>4, <1>5
  <2>2. Filter(old, W) = wanted BY <2>1
  <2> HIDE DEF W
  <2>3. W = Range(old) \cap W
    BY <2>2, <1>6, FilterType DEF W
  <2>4. \A list \in Seq(Signatures) : Filter(Filter(list, Range(old)), W) = Filter(list, W)
    BY <2>3, FilterFilter
  <2>5. Filter(new, W) = wanted BY <2>1, <2>2, <2>4, <1>6
  <2>6. CASE cursor = Finished BY <2>6, <2>1, <2>5, <1>4 DEF W
  <2>7. CASE cursor # Finished
    <3>1. PICK p \in DOMAIN saved : saved[p].id = cursor /\ ShownBefore(p)
      BY <2>7, <2>1
    <3>2. p \in DOMAIN old /\ old[p] = cursor BY <3>1, IdsType
    <3>3. cursor \in Range(new) BY <3>2, <1>3 DEF Range
    <3>4. PICK q \in DOMAIN new : new[q] = cursor BY <3>3 DEF Range
    <3>5. q \in DOMAIN saved' /\ saved'[q].id = cursor' BY <3>4, <1>3, <1>4, IdsType
    <3>6. \A i, j \in DOMAIN old : old[i] = old[j] => i = j
      BY IdsType DEF Distinct
    <3>7. SubSeq(old, 1, p - 1) = Filter(SubSeq(new, 1, q - 1), Range(old))
      <4> HIDE DEF HistoryInv, HistoryTypes, old, new
      <4> QED BY <3>2, <3>4, <3>6, <2>1, <1>6, BeforeStays DEF Before
    <3>8. SubSeq(new, 1, q - 1) \in Seq(Signatures)
      <4>1. q \in 1..Len(new) /\ Len(new) \in Nat BY <3>4, <1>6
      <4>2. \A i \in 1..Len(new) : new[i] \in Signatures BY <1>6
      <4>3. \A i \in 1..(q - 1) : new[i] \in Signatures BY <4>1, <4>2
      <4> QED BY <4>1, <4>3, SubSeqProperties
    <3>9. Filter(SubSeq(old, 1, p - 1), W) = Filter(SubSeq(new, 1, q - 1), W)
      BY <3>7, <3>8, <2>4
    <3>10. ShownBefore(q)' BY <3>1, <3>9, <1>4 DEF ShownBefore, W
    <3> QED BY <3>5, <3>10, <2>5, <2>7, <1>4
  <2> QED BY <2>6, <2>7
<1>7a. ASSUME cursor' \in Signatures PROVE \E q \in DOMAIN saved' : saved'[q].id = cursor'
  <2>1. PICK p \in DOMAIN saved : saved[p].id = cursor BY <1>7a, <1>4
  <2>2. p \in DOMAIN old /\ old[p] = cursor BY <2>1, IdsType
  <2>3. cursor \in Range(new) BY <2>2, <1>3 DEF Range
  <2>4. PICK q \in DOMAIN new : new[q] = cursor BY <2>3 DEF Range
  <2>5. q \in DOMAIN saved' /\ saved'[q].id = cursor' BY <2>4, <1>3, <1>4, IdsType
  <2> QED BY <2>5
<1>8. cursor' = First => shown' = <<>> /\ ~moved' BY <1>4, <1>5
<1>9. moved' \in BOOLEAN BY <1>5
<1> QED BY <1>3, <1>4, <1>7, <1>7a, <1>8, <1>9

\* A page: the entries from a position on.
LEMMA Page ==
  ASSUME NEW list \in Seq(Entries), NEW p \in 1..(Len(list) + 1), NEW e \in (p - 1)..Len(list)
  PROVE  /\ Ids(SubSeq(list, p, e)) = SubSeq(Ids(list), p, e)
         /\ SubSeq(Ids(list), 1, p - 1) \in Seq(Signatures)
         /\ SubSeq(Ids(list), p, e) \in Seq(Signatures)
         /\ SubSeq(Ids(list), 1, e) = SubSeq(Ids(list), 1, p - 1) \o SubSeq(Ids(list), p, e)
<1> DEFINE ids == Ids(list)
<1>1. /\ ids \in Seq(Signatures) /\ Len(ids) = Len(list) /\ Len(list) \in Nat
      /\ DOMAIN list = 1..Len(list)
      /\ \A i \in DOMAIN list : ids[i] = list[i].id /\ list[i].id \in Signatures
  BY IdsType
<1>2. p \in Int /\ e \in Int /\ p - 1 \in Int BY <1>1
<1>3. \A i \in p..e : ids[i] \in Signatures /\ list[i] \in Entries /\ i \in DOMAIN list
  BY <1>1
<1>4. \A i \in 1..(p - 1) : ids[i] \in Signatures BY <1>1
<1>5. SubSeq(ids, p, e) \in Seq(Signatures) /\ SubSeq(ids, 1, p - 1) \in Seq(Signatures)
  BY <1>2, <1>3, <1>4, SubSeqProperties
<1>6. SubSeq(ids, 1, e) = SubSeq(ids, 1, p - 1) \o SubSeq(ids, p, e)
  <2>1. /\ 1 \in 1..(Len(ids) + 1) /\ p - 1 \in (1 - 1)..Len(ids) /\ e \in (p - 1)..Len(ids)
        /\ (p - 1) + 1 = p
    BY <1>1
  <2> HIDE DEF ids
  <2>2. SubSeq(ids, 1, p - 1) \o SubSeq(ids, (p - 1) + 1, e) = SubSeq(ids, 1, e)
    BY <2>1, <1>1, ConcatAdjacentSubSeq
  <2> QED BY <2>1, <2>2
<1>7. Ids(SubSeq(list, p, e)) = SubSeq(ids, p, e)
  <2> DEFINE s == SubSeq(list, p, e)
             t == SubSeq(ids, p, e)
  <2>1. /\ s \in Seq(Entries) /\ Len(s) = IF p <= e THEN e - p + 1 ELSE 0
        /\ \A i \in 1..(e - p + 1) : s[i] = list[p + i - 1]
    BY <1>2, <1>3, SubSeqProperties
  <2>2. /\ t \in Seq(Signatures) /\ Len(t) = IF p <= e THEN e - p + 1 ELSE 0
        /\ \A i \in 1..(e - p + 1) : t[i] = ids[p + i - 1]
    BY <1>2, <1>3, SubSeqProperties
  <2> HIDE DEF s, t, ids
  <2>3. Ids(s) \in Seq(Signatures) /\ Len(Ids(s)) = Len(s) /\ \A i \in 1..Len(s) : Ids(s)[i] = s[i].id
    BY <2>1, IdsType
  <2>4. \A i \in 1..(e - p + 1) : p + i - 1 \in DOMAIN list BY <1>1, <1>2
  <2>5. Len(s) = Len(t) /\ 1..Len(s) \subseteq 1..(e - p + 1) BY <2>1, <2>2, <1>2
  <2>6. \A i \in 1..Len(s) : Ids(s)[i] = t[i]
    BY <2>1, <2>2, <2>3, <2>4, <2>5, <1>1
  <2> QED BY <2>2, <2>3, <2>5, <2>6, SeqEqual DEF s, t
<1> QED BY <1>5, <1>6, <1>7

\* Where a page starts and ends.
LEMMA PageBounds ==
  ASSUME NEW list \in Seq(Entries), NEW start \in Nat, start <= Len(list)
  PROVE  \E end \in start..Len(list) :
           /\ Slice(list, start, start + Limit) = SubSeq(list, start + 1, end)
           /\ HasMore(list, start) => end = start + Limit /\ end + 1 \in DOMAIN list
           /\ ~ HasMore(list, start) => end = Len(list)
<1> DEFINE end == Min({start + Limit, Len(list)})
<1>1. Len(list) \in Nat /\ DOMAIN list = 1..Len(list) OBVIOUS
<1>2. start + Limit \in Nat /\ start <= start + Limit /\ ~ start < 0
  BY HistoryAssumption
<1>3. \A a, b \in Nat : Min({a, b}) = IF a <= b THEN a ELSE b
  <2> SUFFICES ASSUME NEW a \in Nat, NEW b \in Nat PROVE Min({a, b}) = IF a <= b THEN a ELSE b
    OBVIOUS
  <2> QED BY DEF Min
<1>4. end = IF start + Limit <= Len(list) THEN start + Limit ELSE Len(list)
  BY <1>1, <1>2, <1>3
<1>5. Slice(list, start, start + Limit) = SubSeq(list, start + 1, end)
  BY <1>2 DEF Slice
<1> HIDE DEF end
<1>5a. \A n, s, e, m \in Nat : s <= n /\ s <= m /\ e = (IF m <= n THEN m ELSE n) =>
         e \in s..n /\ (m < n => e = m /\ e + 1 \in 1..n) /\ (~ m < n => e = n)
  OBVIOUS
<1>5b. end \in Nat BY <1>1, <1>2, <1>4
<1>6. /\ end \in start..Len(list)
      /\ start + Limit < Len(list) => end = start + Limit /\ end + 1 \in 1..Len(list)
      /\ ~ (start + Limit < Len(list)) => end = Len(list)
  BY <1>1, <1>2, <1>4, <1>5a, <1>5b
<1>7. HasMore(list, start) => end = start + Limit /\ end + 1 \in DOMAIN list
  BY <1>1, <1>6 DEF HasMore
<1>8. ~ HasMore(list, start) => end = Len(list)
  BY <1>6 DEF HasMore
<1> QED BY <1>5, <1>6, <1>7, <1>8

\* Where the next page starts.
LEMMA StartAt ==
  ASSUME NEW list \in Seq(Entries), Distinct(list), NEW p \in DOMAIN list, list[p].id # First
  PROVE  StartIndex(list, list[p].id) = p - 1
<1> DEFINE ids == Ids(list)
           I == {i \in 1..Len(ids) : ids[i] = list[p].id}
<1>1. /\ Len(ids) = Len(list) /\ DOMAIN list = 1..Len(list) /\ Len(list) \in Nat
      /\ \A i \in DOMAIN list : ids[i] = list[i].id
  BY IdsType
<1>2. I = {p} BY <1>1 DEF Distinct
<1>3. Min(I) = p BY <1>2, <1>1 DEF Min
<1>4. StartIndex(list, list[p].id) = (IF I # {} THEN Min(I) ELSE 0) - 1
  BY DEF StartIndex, SelectInSeq
<1> QED BY <1>2, <1>3, <1>4

\* Reading a page keeps the invariant.
LEMMA ListKeeps == HistoryInv /\ ListAccountTransactions => HistoryInv'
<1> SUFFICES ASSUME HistoryInv, ListAccountTransactions PROVE HistoryInv' OBVIOUS
<1> USE DEF HistoryInv, HistoryTypes
<1> DEFINE ids == Ids(saved)
           start == StartIndex(saved, cursor)
           W == Range(wanted')
<1>1. /\ cursor # Finished /\ UNCHANGED <<saved, moved>>
      /\ shown' = shown \o Ids(Slice(saved, start, start + Limit))
      /\ cursor' = NextOf(saved, start)
      /\ wanted' = IF cursor = First THEN ids ELSE wanted
  BY DEF ListAccountTransactions
<1>2. ids \in Seq(Signatures) /\ Len(ids) = Len(saved) /\ DOMAIN saved = 1..Len(saved) /\ Len(saved) \in Nat
      /\ \A i \in DOMAIN saved : ids[i] = saved[i].id /\ saved[i].id \in Signatures
  BY IdsType
<1>3. First \notin Signatures /\ Finished \notin Signatures /\ Limit \in Nat BY HistoryAssumption
<1>4. /\ start \in Nat /\ start <= Len(saved)
      /\ ~moved => Filter(ids, W) = wanted' /\ Filter(shown, W) = Filter(SubSeq(ids, 1, start), W)
  <2>1. CASE cursor = First
    <3>1. start = 0 BY <2>1 DEF StartIndex
    <3>2. shown = <<>> /\ wanted' = ids BY <2>1, <1>1
    <3>3. SubSeq(ids, 1, 0) = <<>> BY <1>2, SubSeqEmpty
    <3>4. Filter(ids, W) = ids
      <4>1. \A i \in DOMAIN ids : ids[i] \in W BY <3>2 DEF Range
      <4> HIDE DEF W, ids
      <4> QED BY <4>1, <1>2, FilterAll
    <3> HIDE DEF ids, W, start
    <3>5. start \in Nat /\ start <= Len(saved) BY <3>1, <1>2
    <3>6. SubSeq(ids, 1, start) = shown BY <3>1, <3>2, <3>3
    <3>7. Filter(shown, W) = Filter(SubSeq(ids, 1, start), W) BY <3>6
    <3> QED BY <3>2, <3>4, <3>5, <3>7
  <2>2. CASE cursor # First
    <3>1. cursor \in Signatures BY <2>2, <1>1
    <3>2. PICK p \in DOMAIN saved : saved[p].id = cursor /\ (~moved => ShownBefore(p))
      BY <3>1, <2>2, <1>1
    <3>3. start = p - 1 BY <3>1, <3>2, <1>3, StartAt
    <3>4. wanted' = wanted BY <2>2, <1>1
    <3>5. ~moved => Filter(shown, W) = Filter(SubSeq(ids, 1, start), W)
      BY <3>2, <3>3, <3>4 DEF ShownBefore
    <3>6. ~moved => Filter(ids, W) = wanted' BY <2>2, <3>4
    <3>7. start \in Nat /\ start <= Len(saved)
      <4> HIDE DEF start
      <4> QED BY <3>3, <1>2
    <3> QED BY <3>5, <3>6, <3>7
  <2> QED BY <2>1, <2>2
<1> HIDE DEF start
<1>5. PICK end \in start..Len(saved) :
        /\ Slice(saved, start, start + Limit) = SubSeq(saved, start + 1, end)
        /\ HasMore(saved, start) => end = start + Limit /\ end + 1 \in DOMAIN saved
        /\ ~ HasMore(saved, start) => end = Len(saved)
  BY <1>4, PageBounds
<1>6. /\ Ids(SubSeq(saved, start + 1, end)) = SubSeq(ids, start + 1, end)
      /\ SubSeq(ids, 1, start) \in Seq(Signatures)
      /\ SubSeq(ids, start + 1, end) \in Seq(Signatures)
      /\ SubSeq(ids, 1, end) = Joined(SubSeq(ids, 1, start), SubSeq(ids, start + 1, end))
  <2>1. start + 1 \in 1..(Len(saved) + 1) /\ end \in ((start + 1) - 1)..Len(saved) /\ (start + 1) - 1 = start
    BY <1>2, <1>4, <1>5
  <2> QED BY <2>1, Page DEF Joined
<1> DEFINE before == SubSeq(ids, 1, start)
           page == SubSeq(ids, start + 1, end)
<1>7. shown' = Joined(shown, page) BY <1>1, <1>5, <1>6 DEF Joined
<1>8. shown \in Seq(Signatures) /\ page \in Seq(Signatures) /\ before \in Seq(Signatures)
  BY <1>6
<1>9. Joined(before, page) = SubSeq(ids, 1, end) BY <1>6
<1> HIDE DEF before, page, W, ids
<1>10. shown' \in Seq(Signatures) /\ Filter(shown', W) = Joined(Filter(shown, W), Filter(page, W))
  BY <1>7, <1>8, FilterJoined
<1>11. ~moved => Filter(shown', W) = Filter(SubSeq(ids, 1, end), W)
  <2>1. Filter(Joined(before, page), W) = Joined(Filter(before, W), Filter(page, W))
    BY <1>8, FilterJoined
  <2> QED BY <2>1, <1>4, <1>9, <1>10 DEF before
<1>12. wanted' \in Seq(Signatures) BY <1>1, <1>2
<1>13. CASE HasMore(saved, start)
  <2>1. cursor' = saved[end + 1].id /\ end + 1 \in DOMAIN saved
    BY <1>13, <1>1, <1>5 DEF NextOf
  <2>2. cursor' \in Signatures BY <2>1, <1>2
  <2>3. (end + 1) - 1 = end BY <1>4, <1>5, <1>2
  <2>4. ~moved' => ShownBefore(end + 1)' BY <1>1, <1>11, <2>3 DEF ShownBefore, W, ids
  <2>5. end + 1 \in DOMAIN saved' /\ saved'[end + 1].id = cursor' BY <2>1, <1>1
  <2>6. ~moved' => Filter(Ids(saved'), Range(wanted')) = wanted' BY <1>1, <1>4 DEF W, ids
  <2>7. Distinct(saved') /\ saved' \in Seq(Entries) /\ moved' \in BOOLEAN BY <1>1
  <2> QED BY <1>3, <1>10, <1>12, <2>2, <2>4, <2>5, <2>6, <2>7
<1>14. CASE ~ HasMore(saved, start)
  <2>1. cursor' = Finished BY <1>14, <1>1 DEF NextOf
  <2>2. SubSeq(ids, 1, end) = ids
    <3>1. end = Len(ids) BY <1>14, <1>5, <1>2
    <3> QED BY <3>1, <1>2, SubSeqFull
  <2>3. ~moved' => Filter(Ids(saved'), Range(wanted')) = wanted' /\ Filter(shown', Range(wanted')) = wanted'
    BY <1>1, <1>4, <1>11, <2>2 DEF W, ids
  <2>4. Distinct(saved') /\ saved' \in Seq(Entries) /\ moved' \in BOOLEAN BY <1>1
  <2>5. Finished # First BY DEF First, Finished
  <2> QED BY <1>3, <1>10, <1>12, <2>1, <2>3, <2>4, <2>5
<1> QED BY <1>13, <1>14

\* Every step keeps the invariant.
LEMMA HistoryKept == HistoryInv /\ (HNext \/ UNCHANGED hvars) => HistoryInv'
<1>1. HistoryInv /\ Reread => HistoryInv'
  <2> SUFFICES ASSUME HistoryInv, Reread PROVE HistoryInv' OBVIOUS
  <2>1. UNCHANGED saved /\ cursor' = First /\ shown' = <<>> /\ wanted' = <<>> /\ moved' = FALSE
    BY DEF Reread
  <2>2. First \notin Signatures BY HistoryAssumption
  <2>3. Distinct(saved') /\ saved' \in Seq(Entries) BY <2>1 DEF HistoryInv, HistoryTypes
  <2>4. <<>> \in Seq(Signatures) OBVIOUS
  <2>5. HistoryTypes' BY <2>1, <2>3, <2>4 DEF HistoryTypes
  <2>6. cursor' \notin Signatures /\ cursor' = First /\ shown' = <<>> /\ ~moved' BY <2>1, <2>2
  <2> QED BY <2>3, <2>5, <2>6 DEF HistoryInv
<1>2. HistoryInv /\ UNCHANGED hvars => HistoryInv'
  BY DEF HistoryInv, HistoryTypes, ShownBefore, hvars
<1> QED BY <1>1, <1>2, SaveKeeps, ListKeeps DEF HNext

\* It holds at first.
LEMMA HistoryStarts == HInit => HistoryInv
<1>1. First \notin Signatures BY HistoryAssumption
<1> SUFFICES ASSUME HInit PROVE HistoryInv OBVIOUS
<1>2. /\ saved = <<>> /\ cursor = First /\ shown = <<>> /\ wanted = <<>> /\ moved = FALSE
  BY DEF HInit
<1>3. <<>> \in Seq(Signatures) /\ <<>> \in Seq(Entries) OBVIOUS
<1>4. HistoryTypes BY <1>2, <1>3 DEF HistoryTypes
<1>5. Distinct(saved)
  <2>1. DOMAIN saved = {} BY <1>2
  <2> QED BY <2>1 DEF Distinct
<1> QED BY <1>1, <1>2, <1>4, <1>5 DEF HistoryInv

\* When the last page has been shown, so has everything that was wanted.
LEMMA HistoryMeans == HistoryInv => PagesCoverUnlessMoved
BY DEF HistoryInv, PagesCoverUnlessMoved, First, Finished

\* The history on its own, of which the composition takes the steps or leaves it alone.
HSpec == HInit /\ [][HNext]_hvars

\* The invariant holds at every moment.
LEMMA AlwaysHistory == HSpec => []HistoryInv
BY HistoryStarts, HistoryKept, PTL DEF HSpec

\* Prices and questions leave the history alone.
LEMMA SpecHistory == Spec => HSpec
<1>1. Init => HInit
  BY DEF Init
<1>2. [Next]_vars => [HNext]_hvars
  BY DEF Next, vars, PriceStep, HistoryStep, AskAmount, AskTransport, AskMessage, AskRate, AskMapping,
         AskRequest, AskDialog, AskInstructions, Asking
<1> QED BY <1>1, <1>2, PTL DEF Spec, HSpec

\* Someone who reads page after page of listAccountTransactions is shown every transaction that
\* was saved when the first page was read, in its order and once, unless a transaction that was
\* saved meanwhile moved one of them (TransactionsService.save, Keyring).
THEOREM PagesCover == Spec => []PagesCoverUnlessMoved
<1>1. Spec => []HistoryInv
  BY SpecHistory, AlwaysHistory
<1> QED BY <1>1, HistoryMeans, PTL

-----------------------------------------------------------------------------
(* The amounts *)

\* Division by a number that is not 0 rounds down.
LEMMA Quotient ==
  ASSUME NEW a \in Nat, NEW d \in Nat \ {0}
  PROVE  /\ a \div d \in Nat
         /\ d * (a \div d) <= a
         /\ a < d * ((a \div d) + 1)
  OBVIOUS

\* What is less when scaled is less.
LEMMA Scales ==
  ASSUME NEW d \in Nat \ {0}, NEW x \in Nat, NEW y \in Nat, d * x < d * y
  PROVE  x < y
  OBVIOUS

\* Whole lamports survive being typed.
LEMMA Roundtrip ==
  ASSUME NEW a \in Nat, NEW d \in Nat \ {0}
  PROVE  (a * d) \div d = a
  OBVIOUS

\* Rounding down to lamports and then to units of the token, or to units at once, is the same
\* but for less than a unit.
LEMMA TwoSteps ==
  ASSUME NEW t \in Nat, NEW f \in Nat \ {0}, NEW u \in Nat \ {0}
  PROVE  LET built == t \div (f * u) IN
         /\ built \in Nat
         /\ built * u <= t \div f
         /\ t \div f - built * u \in 0..(u - 1)
<1> DEFINE q == t \div (f * u)
           a == t \div f
<1>1. f * u \in Nat \ {0}
  OBVIOUS
<1>2. q \in Nat /\ (f * u) * q <= t /\ t < (f * u) * (q + 1)
  BY <1>1, Quotient
<1>3. a \in Nat /\ f * a <= t /\ t < f * (a + 1)
  BY Quotient
<1> HIDE DEF q, a
<1>4. u * q \in Nat /\ f * (u * q) < f * (a + 1)
  BY <1>2, <1>3
<1>5. u * q < a + 1
  BY <1>3, <1>4, Scales
<1>6. u * (q + 1) \in Nat /\ f * a < f * (u * (q + 1))
  BY <1>2, <1>3
<1>7. a < u * (q + 1)
  BY <1>3, <1>6, Scales
<1>8. q * u = u * q /\ u * (q + 1) = u * q + u
  BY <1>2
<1> QED BY <1>2, <1>3, <1>4, <1>5, <1>7, <1>8 DEF q, a

\* Rounding up gives at most one more than rounding down.
LEMMA RoundedUp ==
  ASSUME NEW p \in Nat, NEW m \in Nat \ {0}
  PROVE  (p + m - 1) \div m \in {p \div m, (p \div m) + 1}
<1>1. p \div m \in Nat /\ m * (p \div m) <= p /\ p < m * ((p \div m) + 1)
  BY Quotient
<1> DEFINE q == p \div m
           r == (p + m - 1) \div m
<1>2. r \in Nat /\ m * r <= p + m - 1 /\ p + m - 1 < m * (r + 1)
  BY Quotient
<1> HIDE DEF q, r
<1>3. q \in Nat /\ m * q <= p /\ p < m * (q + 1)
  BY <1>1 DEF q
<1>4. m * r < m * (q + 2)
  BY <1>2, <1>3
<1>5. m * q < m * (r + 1)
  BY <1>2, <1>3
<1>6. r < q + 2 /\ q < r + 1
  BY <1>2, <1>3, <1>4, <1>5, Scales
<1> QED BY <1>2, <1>3, <1>6 DEF q, r

\* The chain takes the fee that is counted, or one lamport more (calculateCostsInLamports).
LEMMA Fees ==
  ASSUME NEW kind \in {"native", "token"}
  PROVE  /\ Amounts!Fee(kind) \in Nat
         /\ Amounts!ChainFee(kind) \in {Amounts!Fee(kind), Amounts!Fee(kind) + 1}
<1> DEFINE p == UnitLimit[kind] * UnitPrice
<1>1. p \in Nat
  BY AmountsAssumption
<1>2. p \div Micro \in Nat /\ (p + Micro - 1) \div Micro \in {p \div Micro, (p \div Micro) + 1}
  BY <1>1, Quotient, RoundedUp, AmountsAssumption
<1>3. SigningFee \in Nat
  BY AmountsAssumption
<1> QED BY <1>2, <1>3 DEF Amounts!Fee, Amounts!PriorityFee, Amounts!ChainFee

\* An amount that the form or SendService accepts is executed and moves what was typed, unless
\* an excuse applies.
LEMMA Sendable ==
  ASSUME NEW s \in Situations, NEW typed \in Typed
  PROVE  Amounts!AcceptedIsSendableUnlessExcused(s, typed)
<1> DEFINE amount == typed \div Fine
           fee == Amounts!Fee(s.kind)
           chainFee == Amounts!ChainFee(s.kind)
<1>1. s.lamports \in Nat /\ s.balance \in Nat /\ s.unit \in Nat \ {0} /\ s.kind \in {"native", "token"}
      /\ s.newcomer \in BOOLEAN /\ s.feeKnown \in BOOLEAN
  BY AmountsAssumption
<1>2. amount \in Nat
  BY Quotient, AmountsAssumption
<1>3. fee \in Nat /\ chainFee \in {fee, fee + 1}
  BY <1>1, Fees
<1>4. Rent \in Nat /\ TokenRent \in Nat
  BY AmountsAssumption
<1> HIDE DEF fee, chainFee, amount
<1>5. CASE s.kind = "native"
  <2>1. s.balance = s.lamports
    BY <1>5, AmountsAssumption
  <2> DEFINE paid == chainFee + amount
  <2>2. paid \in Nat
    BY <1>2, <1>3
  <2>3. SUFFICES ASSUME NEW byForm \in BOOLEAN,
                        amount + fee + Rent <= s.lamports,
                        fee # chainFee => amount + fee + Rent # s.lamports,
                        s.newcomer => amount >= Rent
                 PROVE  Amounts!Executes(s, amount)
    <3>1. Amounts!Build(s, typed) = amount /\ Amounts!SolToLamports(typed) = amount
      BY <1>5 DEF Amounts!Build, Amounts!BuildSol, Amounts!SolToLamports, amount
    <3>2. Amounts!FormAccepts(s, typed) /\ ~Amounts!Excused(s, typed, TRUE) =>
            /\ amount + fee + Rent <= s.lamports
            /\ fee # chainFee => amount + fee + Rent # s.lamports
            /\ s.newcomer => amount >= Rent
      BY <1>5, <2>1, <3>1 DEF Amounts!FormAccepts, Amounts!FormFee, Amounts!Excused, fee, chainFee
    <3>3. Amounts!ServiceAccepts(s, typed) /\ ~Amounts!Excused(s, typed, FALSE) =>
            /\ amount + fee + Rent <= s.lamports
            /\ fee # chainFee => amount + fee + Rent # s.lamports
            /\ s.newcomer => amount >= Rent
      BY <1>1, <1>2, <1>4, <1>5, <3>1 DEF Amounts!ServiceAccepts, Amounts!Excused, fee, chainFee
    <3> QED BY <1>5, <2>3, <3>1, <3>2, <3>3 DEF Amounts!AcceptedIsSendableUnlessExcused
  <2>4. paid <= s.lamports /\ s.lamports - paid >= Rent
    BY <1>1, <1>2, <1>3, <1>4, <2>3
  <2>5. amount # -1
    BY <1>2
  <2>6. Amounts!ChainFee(s.kind) + (IF s.kind = "native" THEN amount ELSE 0)
          + (IF s.kind = "token" /\ s.newcomer THEN TokenRent ELSE 0) = paid
    BY <1>5, <2>2 DEF chainFee
  <2> HIDE DEF paid
  <2> QED BY <1>5, <2>3, <2>4, <2>5, <2>6 DEF Amounts!Executes, Amounts!RentExempt, Amounts!Failed
<1>6. CASE s.kind = "token"
  <2> DEFINE built == typed \div (Fine * s.unit)
  <2>1. built \in Nat /\ built * s.unit <= amount /\ amount - built * s.unit \in 0..(s.unit - 1)
    BY <1>1, TwoSteps, AmountsAssumption DEF amount
  <2> HIDE DEF built
  <2>2. built * s.unit \in Nat
    BY <1>1, <2>1
  <2>3. SUFFICES ASSUME amount <= s.balance, fee + Rent <= s.lamports,
                        fee # chainFee => fee + Rent # s.lamports,
                        s.newcomer => s.lamports >= chainFee + TokenRent + Rent
                 PROVE  Amounts!Executes(s, built)
    <3>1. s.unit # Whole =>
            Amounts!Build(s, typed) = built /\ Amounts!SolToLamports(typed) = amount
      BY <1>6 DEF Amounts!Build, Amounts!BuildSpl, Amounts!SolToLamports, Amounts!ToTokenUnits,
          built, amount
    <3>2. ASSUME NEW byForm \in BOOLEAN, ~Amounts!Excused(s, typed, byForm)
          PROVE  /\ s.unit # Whole
                 /\ byForm => s.feeKnown
                 /\ fee # chainFee => fee + Rent # s.lamports
                 /\ s.newcomer => s.lamports >= chainFee + TokenRent + Rent
      BY <1>1, <1>3, <1>4, <1>6, <3>2 DEF Amounts!Excused, fee, chainFee
    <3>3. Amounts!FormAccepts(s, typed) /\ s.feeKnown /\ s.unit # Whole =>
            amount <= s.balance /\ fee + Rent <= s.lamports
      BY <1>6, <3>1 DEF Amounts!FormAccepts, Amounts!FormFee, fee
    <3>4. Amounts!ServiceAccepts(s, typed) /\ s.unit # Whole =>
            amount <= s.balance /\ fee + Rent <= s.lamports
      BY <1>6, <3>1 DEF Amounts!ServiceAccepts, fee
    <3> QED BY <1>6, <2>1, <2>3, <3>1, <3>2, <3>3, <3>4 DEF Amounts!AcceptedIsSendableUnlessExcused
  <2> DEFINE paid == chainFee + (IF s.newcomer THEN TokenRent ELSE 0)
  <2>4. paid <= s.lamports /\ s.lamports - paid >= Rent
    BY <1>1, <1>3, <1>4, <2>3
  <2>5. built # -1 /\ built * s.unit <= s.balance
    BY <1>1, <1>2, <2>1, <2>2, <2>3
  <2> QED BY <1>1, <1>3, <1>6, <2>4, <2>5 DEF Amounts!Executes, Amounts!RentExempt, Amounts!Failed, chainFee
<1> QED BY <1>1, <1>5, <1>6

\* The form, SendService and the max button do not contradict each other.
LEMMA Agree ==
  ASSUME NEW s \in Situations, NEW typed \in Typed
  PROVE  Amounts!ValidatorsAgree(s, typed)
<1> DEFINE amount == Amounts!SolToLamports(typed)
           fee == Amounts!Fee("native")
           left == s.balance - fee - Rent - 1
<1>1. s.lamports \in Nat /\ s.balance \in Nat /\ amount \in Nat /\ fee \in Nat /\ Rent \in Nat
      /\ Fine \in Nat \ {0}
  BY Quotient, Fees, AmountsAssumption DEF Amounts!SolToLamports
<1>2. s.kind = "native" => s.balance = s.lamports
  BY AmountsAssumption
<1>3. s.kind \in {"native", "token"}
  BY AmountsAssumption
<1>4. Amounts!FormAccepts(s, typed) /\ s.feeKnown => Amounts!ServiceAccepts(s, typed)
  <2> SUFFICES ASSUME Amounts!FormAccepts(s, typed), s.feeKnown
               PROVE  Amounts!ServiceAccepts(s, typed)
    OBVIOUS
  <2> QED BY <1>1, <1>2, <1>3 DEF Amounts!FormAccepts, Amounts!FormFee, Amounts!ServiceAccepts
<1>5. ASSUME Amounts!FormAccepts(s, typed), s.feeKnown, s.kind = "native",
             amount + fee + Rent < s.balance
      PROVE  /\ Amounts!FormAccepts(s, Amounts!MaxAmount(s))
             /\ Amounts!SolToLamports(Amounts!MaxAmount(s)) >= amount
  <2>1. left \in Nat /\ left >= amount /\ amount >= Rent /\ amount # 0 /\ s.lamports # 0
    BY <1>1, <1>5 DEF Amounts!FormAccepts
  <2>2. Amounts!MaxAmount(s) = left * Fine
    BY <1>5, <2>1 DEF Amounts!MaxAmount
  <2>3. Amounts!SolToLamports(Amounts!MaxAmount(s)) = left
    BY <1>1, <2>1, <2>2, Roundtrip DEF Amounts!SolToLamports
  <2> QED BY <1>1, <1>5, <2>1, <2>3 DEF Amounts!FormAccepts, Amounts!FormFee
<1> QED BY <1>4, <1>5 DEF Amounts!ValidatorsAgree

-----------------------------------------------------------------------------
(* The transports *)

\* The least number of a set is one of it.
LEMMA LeastIs ==
  ASSUME NEW T, T \subseteq Nat, T # {}
  PROVE  Transport!Min(T) \in T /\ \A n \in T : Transport!Min(T) <= n
BY Least DEF Transport!Min

\* Powers of two are positive numbers and grow.
LEMMA Power ==
  ASSUME NEW n \in Nat
  PROVE  2^n \in Nat /\ \A m \in Nat : n <= m => 2^n <= 2^m
<1>1. ASSUME NEW m \in Nat
      PROVE  IsFiniteSet(SUBSET (1..m)) /\ Cardinality(SUBSET (1..m)) = 2^m /\ 2^m \in Nat
  <2>1. IsFiniteSet(1..m) /\ Cardinality(1..m) = m BY FS_Interval
  <2>2. IsFiniteSet(SUBSET (1..m)) /\ Cardinality(SUBSET (1..m)) = 2^m BY <2>1, FS_SUBSET
  <2> QED BY <2>2, FS_CardinalityType
<1>2. ASSUME NEW m \in Nat, n <= m PROVE 2^n <= 2^m
  <2>1. SUBSET (1..n) \subseteq SUBSET (1..m) BY <1>2
  <2>2. Cardinality(SUBSET (1..n)) <= Cardinality(SUBSET (1..m)) BY <1>1, <2>1, FS_Subset
  <2> QED BY <1>1, <2>2
<1> QED BY <1>1, <1>2

\* The delays grow up to their limit.
LEMMA Delays ==
  ASSUME NEW a \in Nat \ {0}
  PROVE  /\ Transport!RetryDelay(a) \in Nat /\ Transport!RetryDelay(a) <= MaxDelay
         /\ \A b \in Nat : a < b => Transport!RetryDelay(a) <= Transport!RetryDelay(b)
<1>1. BaseDelay \in Nat /\ MaxDelay \in Nat BY TransportAssumption
<1>2. ASSUME NEW x \in Nat, NEW y \in Nat PROVE Transport!Min({x, y}) = IF x <= y THEN x ELSE y
  BY DEF Transport!Min
<1>3. \A b \in Nat \ {0} :
        /\ BaseDelay * 2^(b - 1) \in Nat
        /\ Transport!RetryDelay(b) = IF BaseDelay * 2^(b - 1) <= MaxDelay THEN BaseDelay * 2^(b - 1) ELSE MaxDelay
  <2> SUFFICES ASSUME NEW b \in Nat \ {0}
               PROVE  /\ BaseDelay * 2^(b - 1) \in Nat
                      /\ Transport!RetryDelay(b) = IF BaseDelay * 2^(b - 1) <= MaxDelay THEN BaseDelay * 2^(b - 1) ELSE MaxDelay
    OBVIOUS
  <2>1. b - 1 \in Nat OBVIOUS
  <2>2. 2^(b - 1) \in Nat BY <2>1, Power
  <2>3. \A x, y \in Nat : x * y \in Nat OBVIOUS
  <2>4. BaseDelay * 2^(b - 1) \in Nat BY <1>1, <2>2, <2>3
  <2> QED BY <1>1, <1>2, <2>4 DEF Transport!RetryDelay
<1>4. ASSUME NEW b \in Nat, a < b PROVE Transport!RetryDelay(a) <= Transport!RetryDelay(b)
  <2>1. a - 1 \in Nat /\ b - 1 \in Nat /\ a - 1 <= b - 1 /\ b \in Nat \ {0} BY <1>4
  <2>2. 2^(a - 1) \in Nat /\ 2^(b - 1) \in Nat /\ 2^(a - 1) <= 2^(b - 1) BY <2>1, Power
  <2>3. \A x, y, z \in Nat : x <= y => z * x <= z * y OBVIOUS
  <2>4. BaseDelay * 2^(a - 1) <= BaseDelay * 2^(b - 1) BY <1>1, <2>2, <2>3
  <2> DEFINE x == BaseDelay * 2^(a - 1)
             y == BaseDelay * 2^(b - 1)
  <2>5. /\ x \in Nat /\ y \in Nat /\ x <= y
        /\ Transport!RetryDelay(a) = IF x <= MaxDelay THEN x ELSE MaxDelay
        /\ Transport!RetryDelay(b) = IF y <= MaxDelay THEN y ELSE MaxDelay
    BY <1>3, <2>1, <2>4
  <2> HIDE DEF x, y
  <2> QED BY <1>1, <2>5
<1>5. Transport!RetryDelay(a) \in Nat /\ Transport!RetryDelay(a) <= MaxDelay
  <2> DEFINE x == BaseDelay * 2^(a - 1)
  <2>1. x \in Nat /\ Transport!RetryDelay(a) = IF x <= MaxDelay THEN x ELSE MaxDelay
    BY <1>3
  <2> HIDE DEF x
  <2> QED BY <1>1, <2>1
<1> QED BY <1>4, <1>5

\* A round asks URL after URL until one responds.
LEMMA Round ==
  ASSUME NEW n \in Nat \ {0}, NEW round \in [1..n -> Transport!Outcomes]
  PROVE  LET f == Transport!Failover(round)
         IN  /\ f.tried \in 1..n /\ f.what = round[f.tried]
             /\ f.what \in Transport!Responses <=> \E u \in 1..n : round[u] \in Transport!Responses
             /\ \A u \in 1..n : u < f.tried => round[u] \notin Transport!Responses
             /\ f.what \notin Transport!Responses => f.tried = n
             /\ f.url = IF f.what = "error" THEN f.tried ELSE 0
<1> DEFINE responded == {u \in 1..n : round[u] \in Transport!Responses}
           last == IF responded = {} THEN n ELSE Transport!Min(responded)
           f == Transport!Failover(round)
<1>1. Len(round) = n OBVIOUS
<1>2. f = [what |-> round[last], tried |-> last, url |-> IF round[last] = "error" THEN last ELSE 0]
  BY <1>1 DEF Transport!Failover
<1>3. responded # {} => last \in responded /\ \A u \in responded : last <= u
  <2>1. responded \subseteq Nat OBVIOUS
  <2> HIDE DEF responded
  <2> QED BY <2>1, LeastIs
<1>4. responded = {} => last = n OBVIOUS
<1> HIDE DEF last, f
<1>5. f.tried = last /\ f.what = round[last] /\ f.url = IF round[last] = "error" THEN last ELSE 0
  BY <1>2
<1>6. CASE responded = {} BY <1>4, <1>5, <1>6 DEF f
<1>7. CASE responded # {} BY <1>3, <1>5, <1>7 DEF f
<1> QED BY <1>6, <1>7

\* The rounds of a request: none before the last responds.
LEMMA Rounds ==
  ASSUME NEW n \in Nat \ {0}, NEW outcomes \in [1..MaxAttempts -> [1..n -> Transport!Outcomes]]
  PROVE  LET r == Transport!Retrying(outcomes)
             f(a) == Transport!Failover(outcomes[a])
         IN  /\ r.rounds \in 1..MaxAttempts
             /\ r.what = f(r.rounds).what /\ r.url = f(r.rounds).url
             /\ \A a \in 1..MaxAttempts : a < r.rounds => f(a).what \notin Transport!Responses
             /\ r.what \notin Transport!Responses => r.rounds = MaxAttempts
             /\ r.asked = Transport!Requests(outcomes, r.rounds)
             /\ r.slept = [a \in 1..(r.rounds - 1) |-> Transport!RetryDelay(a)]
<1> DEFINE f(a) == Transport!Failover(outcomes[a])
           responded == {a \in 1..MaxAttempts : f(a).what \in Transport!Responses}
           last == IF responded = {} THEN MaxAttempts ELSE Transport!Min(responded)
           r == Transport!Retrying(outcomes)
<1>1. r = [what |-> f(last).what, url |-> f(last).url, rounds |-> last,
           asked |-> Transport!Requests(outcomes, last),
           slept |-> [a \in 1..(last - 1) |-> Transport!RetryDelay(a)]]
  BY DEF Transport!Retrying
<1>2. MaxAttempts \in Nat \ {0} BY TransportAssumption
<1>3. responded # {} => last \in responded /\ \A a \in responded : last <= a
  <2>1. responded \subseteq Nat OBVIOUS
  <2> HIDE DEF responded
  <2> QED BY <2>1, LeastIs
<1>4. responded = {} => last = MaxAttempts OBVIOUS
<1> HIDE DEF last, r
<1>5. /\ r.rounds = last /\ r.what = f(last).what /\ r.url = f(last).url
      /\ r.asked = Transport!Requests(outcomes, last)
      /\ r.slept = [a \in 1..(last - 1) |-> Transport!RetryDelay(a)]
  BY <1>1
<1>6. last \in 1..MaxAttempts BY <1>2, <1>3, <1>4
<1>7. \A a \in 1..MaxAttempts : a < last => f(a).what \notin Transport!Responses
  BY <1>3, <1>6
<1>8. f(last).what \notin Transport!Responses => last = MaxAttempts
  BY <1>3, <1>4
<1> HIDE DEF f
<1> QED BY <1>5, <1>6, <1>7, <1>8 DEF r, f

\* A request is answered by the first response, in the order in which attempts ask URLs.
LEMMA Answering ==
  ASSUME NEW outcomes \in [1..MaxAttempts -> [1..Urls -> Transport!Outcomes]]
  PROVE  Transport!AnsweredByTheFirst(outcomes)
<1> DEFINE n == Len(outcomes[1])
           places == (1..MaxAttempts) \X (1..n)
           outcome(p) == outcomes[p[1]][p[2]]
           R == Transport!Responses
           responses == {p \in places : outcome(p) \in R}
           sent == Transport!Retrying(outcomes)
           result == Transport!Request(outcomes)
           last == sent.rounds
           f(a) == Transport!Failover(outcomes[a])
<1>1. MaxAttempts \in Nat \ {0} /\ Urls \in Nat \ {0} BY TransportAssumption
<1>2. n = Urls
  <2>1. outcomes[1] \in [1..Urls -> Transport!Outcomes] BY <1>1
  <2> QED BY <2>1, <1>1
<1>3. /\ last \in 1..MaxAttempts /\ sent.what = f(last).what /\ sent.url = f(last).url
      /\ \A a \in 1..MaxAttempts : a < last => f(a).what \notin R
      /\ sent.what \notin R => last = MaxAttempts
      /\ sent.asked = Transport!Requests(outcomes, last)
      /\ sent.slept = [a \in 1..(last - 1) |-> Transport!RetryDelay(a)]
  BY <1>1, Rounds
<1>4. \A a \in 1..MaxAttempts :
        /\ f(a).tried \in 1..n /\ f(a).what = outcomes[a][f(a).tried]
        /\ f(a).what \in R <=> \E u \in 1..n : outcomes[a][u] \in R
        /\ \A u \in 1..n : u < f(a).tried => outcomes[a][u] \notin R
        /\ f(a).what \notin R => f(a).tried = n
        /\ f(a).url = IF f(a).what = "error" THEN f(a).tried ELSE 0
  <2> SUFFICES ASSUME NEW a \in 1..MaxAttempts
               PROVE  /\ f(a).tried \in 1..n /\ f(a).what = outcomes[a][f(a).tried]
                      /\ f(a).what \in R <=> \E u \in 1..n : outcomes[a][u] \in R
                      /\ \A u \in 1..n : u < f(a).tried => outcomes[a][u] \notin R
                      /\ f(a).what \notin R => f(a).tried = n
                      /\ f(a).url = IF f(a).what = "error" THEN f(a).tried ELSE 0
    OBVIOUS
  <2>1. outcomes[a] \in [1..n -> Transport!Outcomes] BY <1>2
  <2> HIDE DEF n
  <2> QED BY <1>1, <1>2, <2>1, Round
<1>5. result = [thrown |-> sent.what \notin R,
                answer |-> IF sent.what \in R THEN sent.what ELSE "Error",
                tracked |-> IF sent.what = "answer" THEN <<>> ELSE <<sent.url>>,
                rounds |-> last, asked |-> sent.asked, slept |-> sent.slept]
  BY DEF Transport!Request
<1>6. /\ result.thrown <=> sent.what \notin R
      /\ result.answer = (IF sent.what \in R THEN sent.what ELSE "Error")
      /\ result.tracked = (IF sent.what = "answer" THEN <<>> ELSE <<sent.url>>)
      /\ result.rounds = last /\ result.asked = sent.asked /\ result.slept = sent.slept
  <2> HIDE DEF sent, result
  <2> QED BY <1>5
<1> HIDE DEF result, f, n
<1>7. result.asked = {p \in (1..last) \X (1..n) : p[2] <= f(p[1]).tried}
  BY <1>3, <1>6 DEF Transport!Requests, f, n
<1> HIDE DEF sent
<1>8. n \in Nat /\ n # 0 /\ last \in Nat /\ 1 <= last /\ last <= MaxAttempts BY <1>1, <1>2, <1>3
<1> HIDE DEF last
<1>9. result.asked = {p \in places : ~\E q \in responses : Transport!Before(q, p)}
  <2>1. ASSUME NEW p \in places, p \in result.asked, NEW q \in responses, Transport!Before(q, p)
        PROVE  FALSE
    <3>1. p[1] \in 1..last /\ p[2] \in 1..n /\ p[2] <= f(p[1]).tried BY <2>1, <1>7
    <3>2. q[1] \in 1..MaxAttempts /\ q[2] \in 1..n /\ outcomes[q[1]][q[2]] \in R OBVIOUS
    <3>3. f(q[1]).what \in R BY <3>2, <1>4
    <3>4. ~ q[1] < last BY <3>2, <3>3, <1>3
    <3>5. q[1] = p[1] /\ q[2] < p[2] BY <2>1, <3>1, <3>2, <3>4, <1>8 DEF Transport!Before
    <3>6. f(q[1]).tried \in 1..n BY <3>2, <1>4
    <3>7. q[2] < f(q[1]).tried BY <3>1, <3>2, <3>5, <3>6, <1>8
    <3> QED BY <3>2, <3>7, <1>4
  <2>2. ASSUME NEW p \in places, ~\E q \in responses : Transport!Before(q, p)
        PROVE  p \in result.asked
    <3>1. p[1] \in 1..MaxAttempts /\ p[2] \in 1..n /\ p = <<p[1], p[2]>> OBVIOUS
    <3>2. \A a \in 1..MaxAttempts : f(a).what \in R => <<a, f(a).tried>> \in responses
      BY <1>4
    <3>3. last \in 1..MaxAttempts BY <1>8
    <3>4. p[1] <= last
      <4> SUFFICES ASSUME last < p[1] PROVE FALSE BY <3>1, <1>8
      <4>1. last # MaxAttempts BY <3>1, <1>8, <1>1
      <4>2. f(last).what \in R BY <4>1, <1>3
      <4>3. Transport!Before(<<last, f(last).tried>>, p) BY DEF Transport!Before
      <4> QED BY <2>2, <3>2, <3>3, <4>2, <4>3
    <3>5. p[2] <= f(p[1]).tried
      <4>1. f(p[1]).tried \in 1..n BY <3>1, <1>4
      <4> SUFFICES ASSUME f(p[1]).tried < p[2] PROVE FALSE BY <4>1, <3>1, <1>8
      <4>2. f(p[1]).tried # n BY <3>1, <4>1, <1>8
      <4>3. f(p[1]).what \in R BY <3>1, <4>2, <1>4
      <4>4. Transport!Before(<<p[1], f(p[1]).tried>>, p) BY DEF Transport!Before
      <4> QED BY <2>2, <3>1, <3>2, <4>3, <4>4
    <3>6. p[1] \in 1..last BY <3>1, <3>4, <1>8
    <3> QED BY <3>1, <3>5, <3>6, <1>7
  <2>3. ASSUME NEW p \in result.asked PROVE p \in places
    <3>1. p \in (1..last) \X (1..n) BY <1>7
    <3>2. \A a \in 1..last : a \in 1..MaxAttempts BY <1>8, <1>1
    <3> QED BY <3>1, <3>2
  <2> QED BY <2>1, <2>2, <2>3
<1>10. result.thrown <=> responses = {}
  <2>1. ASSUME sent.what \in R PROVE responses # {}
    <3>1. f(last).what \in R /\ last \in 1..MaxAttempts BY <2>1, <1>3
    <3>2. <<last, f(last).tried>> \in responses BY <3>1, <1>4
    <3> QED BY <3>2
  <2>2. ASSUME sent.what \notin R, NEW p \in responses PROVE FALSE
    <3>1. p[1] \in 1..MaxAttempts /\ p[2] \in 1..n /\ outcomes[p[1]][p[2]] \in R OBVIOUS
    <3>2. f(p[1]).what \in R BY <3>1, <1>4
    <3>3. last = MaxAttempts /\ f(last).what \notin R BY <2>2, <1>3
    <3>4. p[1] < last BY <3>1, <3>2, <3>3, <1>1
    <3> QED BY <3>1, <3>2, <3>4, <1>3
  <2> QED BY <2>1, <2>2, <1>6
<1>11. ASSUME NEW p \in responses, p \in result.asked PROVE result.answer = outcome(p)
  <2>1. p[1] \in 1..last /\ p[2] \in 1..n /\ p[2] <= f(p[1]).tried /\ outcomes[p[1]][p[2]] \in R
        /\ p[1] \in 1..MaxAttempts
    BY <1>7, <1>11
  <2>2. f(p[1]).what \in R BY <2>1, <1>4
  <2>3. p[1] = last BY <2>1, <2>2, <1>3, <1>8
  <2>4. f(p[1]).tried \in 1..n /\ ~ p[2] < f(p[1]).tried BY <2>1, <1>4
  <2>5. p[2] = f(p[1]).tried BY <2>1, <2>4, <1>8
  <2>6. sent.what = outcomes[p[1]][p[2]] BY <2>1, <2>3, <2>5, <1>3, <1>4
  <2> QED BY <2>1, <2>6, <1>6
<1>12. Len(result.tracked) = (IF result.answer = "answer" THEN 0 ELSE 1)
  <2>1. result.answer = "answer" <=> sent.what = "answer" BY <1>6 DEF Transport!Responses
  <2>2. Len(<<>>) = 0 /\ Len(<<sent.url>>) = 1 OBVIOUS
  <2> QED BY <2>1, <2>2, <1>6
<1>13. result.thrown /\ outcomes[MaxAttempts][n] = "error" => result.tracked = <<n>>
  <2> SUFFICES ASSUME sent.what \notin R, outcomes[MaxAttempts][n] = "error"
               PROVE  result.tracked = <<n>>
    BY <1>6
  <2>1. last = MaxAttempts /\ last \in 1..MaxAttempts BY <1>3
  <2>2. f(last).what \notin R BY <1>3
  <2>3. f(last).tried = n BY <2>1, <2>2, <1>4
  <2>4. f(last).what = "error" BY <2>1, <2>3, <1>4
  <2>5. sent.url = n /\ sent.what = "error" BY <2>1, <2>3, <2>4, <1>3, <1>4
  <2> QED BY <2>5, <1>6
<1>14. /\ Len(result.slept) = result.rounds - 1 /\ DOMAIN result.slept = 1..(last - 1)
       /\ \A a \in 1..(last - 1) : result.slept[a] = Transport!RetryDelay(a)
  <2>1. last - 1 \in Nat BY <1>8
  <2>2. result.slept = [a \in 1..(last - 1) |-> Transport!RetryDelay(a)] BY <1>3, <1>6
  <2>3. Len(result.slept) = last - 1
    <3> DEFINE k == last - 1
    <3>1. result.slept = [a \in 1..k |-> Transport!RetryDelay(a)] /\ k \in Nat BY <2>1, <2>2
    <3> HIDE DEF k
    <3>2. Len(result.slept) = k BY <3>1
    <3> QED BY <3>2 DEF k
  <2> QED BY <2>2, <2>3, <1>6
<1>15. \A a \in DOMAIN result.slept : result.slept[a] <= MaxDelay
  <2>1. \A a \in 1..(last - 1) : a \in Nat \ {0} OBVIOUS
  <2> QED BY <2>1, <1>14, Delays
<1>16. \A a, b \in DOMAIN result.slept : a < b => result.slept[a] <= result.slept[b]
  <2>1. \A a \in 1..(last - 1) : a \in Nat \ {0} /\ a \in Nat OBVIOUS
  <2> QED BY <2>1, <1>14, Delays
<1>17. result.slept = <<>> <=> \A p \in result.asked : p[1] = 1
  <2>1. result.slept = <<>> <=> last = 1
    <3>1. DOMAIN <<>> = {} OBVIOUS
    <3>2. last # 1 => 1 \in 1..(last - 1) BY <1>8
    <3>3. last = 1 => 1..(last - 1) = {} OBVIOUS
    <3>4. last = 1 => result.slept = <<>>
      <4>1. [a \in {} |-> Transport!RetryDelay(a)] = <<>> OBVIOUS
      <4> QED BY <4>1, <3>3, <1>3, <1>6
    <3> QED BY <3>1, <3>2, <3>4, <1>14
  <2>2. <<last, 1>> \in result.asked
    <3>1. last \in 1..MaxAttempts /\ last \in 1..last /\ 1 \in 1..n BY <1>8
    <3>2. f(last).tried \in 1..n BY <3>1, <1>4
    <3>3. 1 <= f(last).tried BY <3>2
    <3> QED BY <3>1, <3>3, <1>7
  <2>3. last = 1 => \A p \in result.asked : p[1] = 1
    BY <1>7
  <2> QED BY <2>1, <2>2, <2>3
<1> HIDE DEF places, responses
<1> QED BY <1>9, <1>10, <1>11, <1>12, <1>13, <1>14, <1>15, <1>16, <1>17
    DEF Transport!AnsweredByTheFirst, result, n, places, responses

-----------------------------------------------------------------------------
(* The messages *)

\* The lists of a dapp's message are filtered as others are.
LEMMA MessageFilters ==
  /\ \A list, S : Message!Filter(list, S) = Filter(list, S)
  /\ \A list : Message!Range(list) = Range(list)
<1>1. \A S : Message!Cardinality(S) = Cardinality(S) BY DEF Message!Cardinality, Cardinality, IsFiniteSet, Message!IsFiniteSet
<1>2. \A S, k : Message!Nth(S, k) = Nth(S, k) BY <1>1 DEF Message!Nth, Nth
<1>3. \A list, S : Message!Filter(list, S) = Filter(list, S) BY <1>1, <1>2 DEF Message!Filter, Filter
<1> QED BY <1>3 DEF Message!Range, Range

\* The instructions among some that are of a kind, and those that are of none of some kinds.
KindIn(A, kind) == {i \in A : i.kind = kind}
NoKindIn(A, kinds) == {i \in A : i.kind \notin kinds}

\* Only and Without filter by the kinds of the instructions.
LEMMA KindsOf ==
  \A A, m, list : m.instructions = list /\ list \in Seq(A) =>
    /\ \A kind : Message!Only(m, kind) = Filter(list, KindIn(A, kind))
    /\ \A kinds : Message!Without(m, kinds) = Filter(list, NoKindIn(A, kinds))
<1> SUFFICES ASSUME NEW A, NEW list \in Seq(A), NEW m, m.instructions = list
             PROVE  /\ \A kind : Message!Only(m, kind) = Filter(list, KindIn(A, kind))
                    /\ \A kinds : Message!Without(m, kinds) = Filter(list, NoKindIn(A, kinds))
  OBVIOUS
<1>1. \A i \in DOMAIN list : list[i] \in A /\ list[i] \in Range(list) BY DEF Range
<1>2. ASSUME NEW kind PROVE Message!Only(m, kind) = Filter(list, KindIn(A, kind))
  <2>1. Filter(list, {i \in Range(list) : i.kind = kind}) = Filter(list, KindIn(A, kind))
    BY <1>1, FilterSame DEF KindIn
  <2> QED BY <2>1, MessageFilters DEF Message!Only
<1>3. ASSUME NEW kinds PROVE Message!Without(m, kinds) = Filter(list, NoKindIn(A, kinds))
  <2>1. Filter(list, {i \in Range(list) : i.kind \notin kinds}) = Filter(list, NoKindIn(A, kinds))
    BY <1>1, FilterSame DEF NoKindIn
  <2> QED BY <2>1, MessageFilters DEF Message!Without
<1> QED BY <1>2, <1>3

\* Whether a list has an instruction of a kind, and the instructions that preparing adds.
Occurs(list, kind) == \E i \in DOMAIN list : list[i].kind = kind
PriceAdded == [kind |-> "price", value |-> DefaultPrice]
LimitOf(estimate) == [kind |-> "limit", value |-> estimate.units]
\* A message, and what completing it and limiting its compute units make of it.
MessageOf(payer, lifetime, list) == [feePayer |-> payer, lifetime |-> lifetime, instructions |-> list]

\* The lifetime a message is signed with.
Lasting(lifetime) == IF lifetime \in {Unset} \cup Nonces THEN LatestBlockhash ELSE lifetime

Completed(payer, lifetime, list) ==
  MessageOf(IF payer = Unset THEN Signer ELSE payer,
           Lasting(lifetime),
           IF Occurs(list, "price") THEN list ELSE Joined(Single(PriceAdded), list))
Limited(m, estimate) ==
  [m EXCEPT !.instructions = Joined(Message!Without(m, {"limit"}), Single(LimitOf(estimate)))]

\* What preparing a message makes of each of its parts.
PreparedFrom(payer, lifetime, list, estimate, m) ==
  /\ m.instructions = list /\ m.feePayer = payer /\ m.lifetime = lifetime
  /\ \A kind : Message!Has(m, kind) <=> Occurs(list, kind)
  /\ Message!ShouldSetComputeUnitLimit(m) <=> ~Occurs(list, "limit") \/ ~Occurs(list, "price")
  /\ Message!Prepare(m, estimate) =
       IF Message!ShouldSetComputeUnitLimit(m) /\ estimate.what # "error"
       THEN Limited(Completed(payer, lifetime, list), estimate)
       ELSE Completed(payer, lifetime, list)

\* Preparing works part by part.
LEMMA PreparedParts ==
  ASSUME NEW payer, NEW lifetime, NEW list, NEW estimate
  PROVE  PreparedFrom(payer, lifetime, list, estimate, MessageOf(payer, lifetime, list))
<1> DEFINE m == MessageOf(payer, lifetime, list)
           filled == MessageOf(IF payer = Unset THEN Signer ELSE payer,
                              Lasting(lifetime), list)
           priced == IF Occurs(list, "price") THEN list ELSE Joined(Single(PriceAdded), list)
           complete == MessageOf(IF payer = Unset THEN Signer ELSE payer,
                                Lasting(lifetime), priced)
<1>1. m.instructions = list /\ m.feePayer = payer /\ m.lifetime = lifetime /\ filled.instructions = list
  BY DEF MessageOf
<1>2. Message!SetLifetimeIfMissing(Message!SetFeePayerIfMissing(m)) = filled
  <2> DEFINE p == IF payer = Unset THEN Signer ELSE payer
             l == Lasting(lifetime)
  <2>1. Message!SetFeePayerIfMissing(m) = [m EXCEPT !.feePayer = p]
    BY <1>1 DEF Message!SetFeePayerIfMissing
  <2>2. \A x : [m EXCEPT !.feePayer = x] = MessageOf(x, lifetime, list) BY DEF MessageOf
  <2>3. MessageOf(p, lifetime, list).lifetime = lifetime BY DEF MessageOf
  <2>4. Message!SetLifetimeIfMissing(MessageOf(p, lifetime, list)) =
          [MessageOf(p, lifetime, list) EXCEPT !.lifetime = l]
    BY <2>3 DEF Message!SetLifetimeIfMissing, Message!HasBlockhash, Lasting
  <2>5. \A x, y : [MessageOf(x, lifetime, list) EXCEPT !.lifetime = y] = MessageOf(x, y, list)
    BY DEF MessageOf
  <2> HIDE DEF m, p, l
  <2>6. Message!SetFeePayerIfMissing(m) = MessageOf(p, lifetime, list) BY <2>1, <2>2
  <2>7. Message!SetLifetimeIfMissing(MessageOf(p, lifetime, list)) = MessageOf(p, l, list)
    BY <2>4, <2>5
  <2> QED BY <2>6, <2>7 DEF p, l
<1>3. \A kind : (Message!Has(m, kind) <=> Occurs(list, kind)) /\ (Message!Has(filled, kind) <=> Occurs(list, kind))
  BY <1>1 DEF Message!Has, Occurs
<1>4. Message!SetComputeUnitPriceIfMissing(filled) = complete
  <2>1. CASE Occurs(list, "price") BY <2>1, <1>3 DEF Message!SetComputeUnitPriceIfMissing
  <2>2. CASE ~Occurs(list, "price")
    <3>1. Message!SetComputeUnitPriceIfMissing(filled) =
            [filled EXCEPT !.instructions = Joined(Single(PriceAdded), list)]
      BY <2>2, <1>1, <1>3 DEF Message!SetComputeUnitPriceIfMissing, PriceAdded, Joined, Single
    <3> DEFINE after == Joined(Single(PriceAdded), list)
    <3>2. [filled EXCEPT !.instructions = after] = MessageOf(filled.feePayer, filled.lifetime, after)
      <4> HIDE DEF after
      <4> QED BY DEF MessageOf
    <3> QED BY <2>2, <3>1, <3>2 DEF MessageOf
  <2> QED BY <2>1, <2>2
<1>5. Message!ShouldSetComputeUnitLimit(m) <=> ~Occurs(list, "limit") \/ ~Occurs(list, "price")
  BY <1>3 DEF Message!ShouldSetComputeUnitLimit
<1> HIDE DEF complete, filled, m
<1>6. Message!Prepare(m, estimate) =
        IF Message!ShouldSetComputeUnitLimit(m) /\ estimate.what # "error"
        THEN Limited(complete, estimate)
        ELSE complete
  BY <1>2, <1>4 DEF Message!Prepare, Message!EstimateAndOverrideComputeUnitLimit, LimitOf, Joined, Single,
         Limited
<1>7. complete = Completed(payer, lifetime, list) BY DEF complete, Completed
<1> QED BY <1>1, <1>3, <1>5, <1>6, <1>7 DEF m, PreparedFrom

\* A kind occurs when filtering for it leaves something.
LEMMA OccursFiltered ==
  ASSUME NEW A, NEW list \in Seq(A), NEW kind
  PROVE  Occurs(list, kind) <=> Filter(list, KindIn(A, kind)) # <<>>
<1> DEFINE K == KindIn(A, kind)
           t == Filter(list, K)
<1>1. \A i \in DOMAIN list : list[i] \in A /\ (list[i] \in K <=> list[i].kind = kind) BY DEF KindIn
<1>2. ASSUME Occurs(list, kind), t = <<>> PROVE FALSE
  <2>1. PICK i \in DOMAIN list : list[i] \in K BY <1>1, <1>2 DEF Occurs
  <2>2. list[i] \in Range(list) BY DEF Range
  <2>2a. Range(t) = Range(list) \cap K
    <3> HIDE DEF K
    <3> QED BY FilterType
  <2>2b. list[i] \in Range(t)
    <3> HIDE DEF K, t
    <3> QED BY <2>1, <2>2, <2>2a
  <2>3. Range(<<>>) = {} BY DEF Range
  <2> HIDE DEF t
  <2> QED BY <1>2, <2>2b, <2>3
<1>3. ASSUME ~Occurs(list, kind) PROVE t = <<>>
  <2>1. \A i \in DOMAIN list : list[i] \notin K BY <1>1, <1>3 DEF Occurs
  <2> QED BY <2>1, FilterNone
<1> QED BY <1>2, <1>3

\* Preparing any message completes it, keeps the rest of it, and changes nothing the second
\* time, whatever estimating brings.
LEMMA Preparing ==
  ASSUME NEW m \in Messages, NEW estimate
  PROVE  Message!PreparedUnlessExcused(m, estimate)
<1> DEFINE L == m.instructions
           P == PriceAdded
           U == LimitOf(estimate)
           A == Range(L) \cup {P, U}
           Kind(kind) == KindIn(A, kind)
           Not(kinds) == NoKindIn(A, kinds)
           payer == IF m.feePayer = Unset THEN Signer ELSE m.feePayer
           lifetime == Lasting(m.lifetime)
           C == IF Occurs(L, "price") THEN L ELSE Joined(Single(P), L)
           complete == MessageOf(payer, lifetime, C)
           limited == ~Occurs(L, "limit") \/ ~Occurs(L, "price")
           kept == Filter(C, Not({"limit"}))
           S == IF limited /\ estimate.what # "error" THEN Joined(kept, Single(U)) ELSE C
           signed == MessageOf(payer, lifetime, S)
<1>1. /\ m = MessageOf(m.feePayer, m.lifetime, L) /\ L \in Seq(A)
      /\ Unset # Signer /\ LatestBlockhash \notin {Unset} \cup Nonces
  <2>1. m \in [feePayer : {m.feePayer}, lifetime : {m.lifetime}, instructions : Seq(Range(m.instructions))]
        /\ Unset # Signer /\ LatestBlockhash \notin {Unset} \cup Nonces
    BY MessagesAssumption
  <2>2. m = [feePayer |-> m.feePayer, lifetime |-> m.lifetime, instructions |-> m.instructions]
        /\ L \in Seq(Range(L))
    BY <2>1
  <2>3. \A i \in 1..Len(L) : L[i] \in Range(L) /\ L[i] \in A BY <2>2
  <2>4. L \in Seq(A) BY <2>2, <2>3
  <2> QED BY <2>1, <2>2, <2>4 DEF MessageOf
<1>2. P \in A /\ U \in A /\ P.kind = "price" /\ U.kind = "limit" BY DEF PriceAdded, LimitOf
<1>3. \A i \in DOMAIN L : L[i] \in A /\ (L[i] \in Kind(L[i].kind)) BY <1>1 DEF KindIn
<1> HIDE DEF A, L, P, U
<1>4. \A T : Filter(Single(P), T) = (IF P \in T THEN Single(P) ELSE <<>>)
             /\ Filter(Single(U), T) = (IF U \in T THEN Single(U) ELSE <<>>)
             /\ Single(P) \in Seq(A) /\ Single(U) \in Seq(A)
  BY <1>2, FilterSingle
<1>5. C \in Seq(A)
      /\ \A T : Filter(C, T) = IF Occurs(L, "price") THEN Filter(L, T)
                               ELSE Joined(Filter(Single(P), T), Filter(L, T))
  <2>1. Joined(Single(P), L) \in Seq(A)
        /\ \A T : Filter(Joined(Single(P), L), T) = Joined(Filter(Single(P), T), Filter(L, T))
    BY <1>1, <1>4, FilterJoined
  <2> QED BY <2>1, <1>1
<1>6. \A T : Filter(L, T) \in Seq(A) /\ Filter(C, T) \in Seq(A) BY <1>1, <1>5, FilterType
<1> HIDE DEF C
<1>7. S \in Seq(A)
      /\ \A T : Filter(S, T) = IF limited /\ estimate.what # "error"
                               THEN Joined(Filter(C, Not({"limit"}) \cap T), Filter(Single(U), T))
                               ELSE Filter(C, T)
  <2>1. kept \in Seq(A) BY <1>6
  <2>2. \A T : Filter(kept, T) = Filter(C, Not({"limit"}) \cap T) BY <1>5, FilterFilter
  <2> HIDE DEF kept
  <2>3. Joined(kept, Single(U)) \in Seq(A)
        /\ \A T : Filter(Joined(kept, Single(U)), T) = Joined(Filter(kept, T), Filter(Single(U), T))
    BY <2>1, <1>4, FilterJoined
  <2> QED BY <2>2, <2>3, <1>5
<1>8. \A x : Joined(<<>>, Single(x)) = Single(x) /\ Single(x) # <<>>
  BY JoinedEmpty, FilterSingle DEF Single, Joined
<1>9. \A T : /\ Joined(<<>>, Filter(L, T)) = Filter(L, T)
             /\ Joined(Filter(C, T), <<>>) = Filter(C, T)
  BY <1>6, JoinedEmpty
<1>10. /\ P \in Kind("price") /\ P \notin Kind("limit") /\ P \notin Not({"limit", "price"})
       /\ U \in Kind("limit") /\ U \notin Kind("price") /\ U \notin Not({"limit", "price"})
       /\ Not({"limit"}) \cap Not({"limit", "price"}) = Not({"limit", "price"})
       /\ Not({"limit"}) \cap Kind("price") = Kind("price")
       /\ Not({"limit"}) \cap Kind("limit") = {}
  BY <1>2 DEF KindIn, NoKindIn
<1>11. Filter(C, {}) = <<>> BY FilterNone
<1>12. \A kind : Occurs(L, kind) <=> Filter(L, Kind(kind)) # <<>> BY <1>1, OccursFiltered
<1>13. \A kind : Occurs(S, kind) <=> Filter(S, Kind(kind)) # <<>> BY <1>7, OccursFiltered
<1> DEFINE both == {"limit", "price"}
<1> HIDE DEF S
<1>14. /\ Filter(C, Not(both)) = Filter(L, Not(both))
       /\ Filter(C, Kind("price")) = IF Occurs(L, "price") THEN Filter(L, Kind("price")) ELSE Single(P)
       /\ Filter(C, Kind("limit")) = Filter(L, Kind("limit"))
  <2>1. Joined(Single(P), <<>>) = Single(P) BY <1>4, JoinedEmpty
  <2> HIDE DEF Kind, Not, both
  <2> QED BY <2>1, <1>4, <1>5, <1>9, <1>10, <1>12 DEF both
<1>15. /\ Filter(S, Not(both)) = Filter(L, Not(both))
       /\ Filter(S, Kind("price")) = Filter(C, Kind("price"))
       /\ Filter(S, Kind("limit")) = IF limited /\ estimate.what # "error" THEN Single(U)
                                     ELSE Filter(L, Kind("limit"))
  <2> HIDE DEF Kind, Not, limited
  <2> QED BY <1>4, <1>7, <1>8, <1>9, <1>10, <1>11, <1>14
<1> HIDE DEF Kind, Not, both, limited
<1>16. /\ m.instructions = L
       /\ \A kind : Message!Has(m, kind) <=> Occurs(L, kind)
       /\ Message!ShouldSetComputeUnitLimit(m) <=> limited
       /\ Message!Prepare(m, estimate) =
            IF Message!ShouldSetComputeUnitLimit(m) /\ estimate.what # "error"
            THEN Limited(complete, estimate) ELSE complete
  <2>1. complete = Completed(m.feePayer, m.lifetime, L) BY DEF C, P, Completed
  <2>2. PreparedFrom(m.feePayer, m.lifetime, L, estimate, MessageOf(m.feePayer, m.lifetime, L))
    BY PreparedParts
  <2>3. PreparedFrom(m.feePayer, m.lifetime, L, estimate, m) BY <2>2, <1>1
  <2> HIDE DEF complete
  <2> QED BY <2>1, <2>3 DEF PreparedFrom, limited
<1>17. Message!Prepare(m, estimate) = signed
  <2>1. complete.instructions = C /\ (\A x : [complete EXCEPT !.instructions = x] = MessageOf(payer, lifetime, x))
    BY DEF MessageOf
  <2>2. Message!Without(complete, {"limit"}) = kept
    <3>1. complete.instructions = C /\ C \in Seq(A) BY <2>1, <1>5
    <3> HIDE DEF complete
    <3> QED BY <3>1, KindsOf DEF Not
  <2>3. signed = IF limited /\ estimate.what # "error"
                 THEN MessageOf(payer, lifetime, Joined(kept, Single(U))) ELSE complete
    BY DEF S
  <2> HIDE DEF complete, kept, signed
  <2> QED BY <1>16, <2>1, <2>2, <2>3 DEF U, Limited
<1>18. /\ signed.instructions = S /\ signed.feePayer = payer /\ signed.lifetime = lifetime
       /\ \A kind : Message!Has(signed, kind) <=> Occurs(S, kind)
       /\ Message!ShouldSetComputeUnitLimit(signed) <=> ~Occurs(S, "limit") \/ ~Occurs(S, "price")
       /\ Message!Prepare(signed, estimate) =
            IF Message!ShouldSetComputeUnitLimit(signed) /\ estimate.what # "error"
            THEN Limited(Completed(payer, lifetime, S), estimate) ELSE Completed(payer, lifetime, S)
  <2> HIDE DEF payer, lifetime
  <2>1. PreparedFrom(payer, lifetime, S, estimate, signed) BY PreparedParts
  <2> HIDE DEF signed
  <2> QED BY <2>1 DEF PreparedFrom
<1>19. payer # Unset /\ lifetime \notin {Unset} \cup Nonces BY <1>1 DEF Lasting
<1> HIDE DEF payer, lifetime, signed
<1>20. /\ \A kind : Message!Only(m, kind) = Filter(L, Kind(kind)) /\ Message!Only(signed, kind) = Filter(S, Kind(kind))
       /\ \A kinds : Message!Without(m, kinds) = Filter(L, Not(kinds)) /\ Message!Without(signed, kinds) = Filter(S, Not(kinds))
  BY <1>1, <1>7, <1>16, <1>18, KindsOf DEF Kind, Not
<1>21. ASSUME ~(limited /\ estimate.what = "error") PROVE Message!Prepare(signed, estimate) = signed
  <2>1. Occurs(S, "limit") /\ Occurs(S, "price")
    <3>1. CASE limited
      BY <3>1, <1>21, <1>8, <1>12, <1>13, <1>14, <1>15
    <3>2. CASE ~limited
      BY <3>2, <1>12, <1>13, <1>14, <1>15 DEF limited
    <3> QED BY <3>1, <3>2
  <2>2. ~Message!ShouldSetComputeUnitLimit(signed) BY <2>1, <1>18
  <2> QED BY <2>1, <2>2, <1>18, <1>19 DEF signed, Completed, Lasting
<1>22. Message!PartiallySign([signed |-> FALSE, message |-> m], estimate) = signed
       /\ Message!PartiallySign([signed |-> TRUE, message |-> m], estimate) = m
  BY <1>17 DEF Message!PartiallySign
<1>23. Single(P) = <<[kind |-> "price", value |-> DefaultPrice]>>
       /\ Single(U) = <<[kind |-> "limit", value |-> estimate.units]>>
  BY DEF Single, P, U, PriceAdded, LimitOf
<1>24. /\ signed.feePayer = (IF m.feePayer = Unset THEN Signer ELSE m.feePayer)
       /\ Message!HasBlockhash(signed)
       /\ m.lifetime = Unset \/ m.lifetime \in Nonces \/ signed.lifetime = m.lifetime
  BY <1>18, <1>19 DEF payer, lifetime, Lasting, Message!HasBlockhash
<1>25. Message!Without(signed, {"limit", "price"}) = Message!Without(m, {"limit", "price"})
  BY <1>15, <1>20 DEF both
<1>26. Message!Only(signed, "price") =
         IF ~Message!Has(m, "price") THEN <<[kind |-> "price", value |-> DefaultPrice]>>
         ELSE Message!Only(m, "price")
  BY <1>14, <1>15, <1>16, <1>20, <1>23
<1>27. Message!Only(signed, "limit") =
         IF limited /\ estimate.what # "error" THEN <<[kind |-> "limit", value |-> estimate.units]>>
         ELSE Message!Only(m, "limit")
  BY <1>15, <1>20, <1>23
<1>28. limited <=> ~Message!Has(m, "price") \/ ~Message!Has(m, "limit")
  BY <1>16 DEF limited
<1> QED BY <1>16, <1>21, <1>22, <1>24, <1>25, <1>26, <1>27, <1>28 DEF Message!PreparedUnlessExcused

-----------------------------------------------------------------------------
(* The rates *)

\* Products of natural numbers in any order.
LEMMA Products ==
  ASSUME NEW x \in Nat, NEW y \in Nat
  PROVE  x * y \in Nat /\ x * y = y * x /\ x * 1 = x /\ 1 * x = x
  OBVIOUS

\* Factors may change places.
LEMMA Reorder ==
  ASSUME NEW x \in Nat, NEW y \in Nat, NEW z \in Nat
  PROVE  (x * y) * z = x * (y * z)
  OBVIOUS

\* A price in dollars is a fraction of natural numbers; a dollar's worth is its inverse.
LEMMA RateOf ==
  ASSUME NEW prices \in PriceTables, NEW a \in DOMAIN prices
  PROVE  LET rate == Rates!UsdRate(prices, a)
             worth == Rates!DollarsWorth(prices, a) IN
         /\ rate = <<rate[1], rate[2]>> /\ rate[1] \in Nat /\ rate[2] \in Nat \ {0}
         /\ (rate = Rates!Missing) <=> (prices[a] = 0)
         /\ prices[a] # 0 => /\ rate[1] # 0
                             /\ worth = <<rate[2], rate[1]>>
BY RatesAssumption DEF Rates!UsdRate, Rates!DollarsWorth, Rates!Missing

\* Conversions and market data do not contradict each other, by cross-multiplication.
LEMMA Agreeing ==
  ASSUME NEW prices \in PriceTables, NEW spot \in SpotData,
         NEW a \in DOMAIN prices, NEW b \in DOMAIN prices, NEW c \in DOMAIN prices
  PROVE  Rates!ConversionsAgree(prices, spot, a, b, c)
<1> DEFINE rate(x, y) == Rates!Conversion(prices, x, y)
           data(unit) == Rates!TokenMarketData(prices, spot, a, unit)
           r(x) == Rates!UsdRate(prices, x)
           priced == prices[a] # 0 /\ prices[b] # 0
<1>1. \A x \in DOMAIN prices :
        /\ r(x)[1] \in Nat /\ r(x)[2] \in Nat \ {0}
        /\ (r(x) = Rates!Missing) <=> (prices[x] = 0)
        /\ prices[x] # 0 => r(x)[1] # 0 /\ Rates!DollarsWorth(prices, x) = <<r(x)[2], r(x)[1]>>
  BY RateOf
<1> HIDE DEF r
<1>2. \A x, y \in DOMAIN prices :
        rate(x, y) = IF prices[x] = 0 \/ prices[y] = 0 THEN <<>>
                     ELSE <<r(x)[1] * r(y)[2], r(x)[2] * r(y)[1]>>
  BY <1>1 DEF Rates!Conversion, Rates!Null, Rates!Div, r
<1>3. \A x \in DOMAIN prices :
        data(x) = IF a \in Fiat \/ spot = <<>> \/ prices[x] = 0 THEN <<>>
                  ELSE [cap |-> IF spot.cap = <<>> THEN <<>>
                                ELSE <<spot.cap[1] * r(x)[2], spot.cap[2] * r(x)[1]>>,
                        supply |-> spot.supply]
  BY <1>1 DEF Rates!TokenMarketData, Rates!MarketData, Rates!Null, Rates!Div, r
<1> HIDE DEF rate, data
<1> DEFINE A1 == r(a)[1] A2 == r(a)[2] B1 == r(b)[1] B2 == r(b)[2] C1 == r(c)[1] C2 == r(c)[2]
<1>4. A1 \in Nat /\ A2 \in Nat /\ B1 \in Nat /\ B2 \in Nat /\ C1 \in Nat /\ C2 \in Nat
  BY <1>1
<1>5. (rate(a, b) # Rates!Null) <=> priced
  <2> HIDE DEF A1, A2, B1, B2, C1, C2
  <2> DEFINE x == r(a)[1] * r(b)[2]
             y == r(a)[2] * r(b)[1]
  <2>1. rate(a, b) = IF priced THEN <<x, y>> ELSE <<>>
    BY <1>2
  <2> HIDE DEF x, y
  <2> QED BY <2>1 DEF Rates!Null
<1>6. priced => Rates!Same(Rates!Times(Rates!DollarsWorth(prices, a), rate(a, b)),
                           Rates!DollarsWorth(prices, b))
  <2>1. (A2 * (A1 * B2)) * B1 = (A1 * (A2 * B1)) * B2
    <3> HIDE DEF A1, A2, B1, B2
    <3> QED BY <1>4
  <2> QED BY <1>1, <1>2, <2>1 DEF Rates!Same, Rates!Times
<1>7. (priced /\ rate(b, c) # Rates!Null) =>
        Rates!Same(Rates!Times(rate(a, b), rate(b, c)), rate(a, c))
  <2>1. ((A1 * B2) * (B1 * C2)) * (A2 * C1) = ((A2 * B1) * (B2 * C1)) * (A1 * C2)
    <3> HIDE DEF A1, A2, B1, B2, C1, C2
    <3> QED BY <1>4
  <2> QED BY <1>2, <2>1 DEF Rates!Same, Rates!Times, Rates!Null
<1>8. (data(b) # Rates!Null /\ data(c) # Rates!Null) =>
        /\ rate(b, c) # Rates!Null
        /\ data(b).cap # Rates!Null =>
             Rates!Same(Rates!Times(data(b).cap, rate(b, c)), data(c).cap)
  <2> SUFFICES ASSUME data(b) # Rates!Null, data(c) # Rates!Null
               PROVE  /\ rate(b, c) # Rates!Null
                      /\ data(b).cap # Rates!Null =>
                           Rates!Same(Rates!Times(data(b).cap, rate(b, c)), data(c).cap)
    OBVIOUS
  <2>1. prices[b] # 0 /\ prices[c] # 0 /\ spot # <<>>
    BY <1>3 DEF Rates!Null
  <2>2. rate(b, c) = <<B1 * C2, B2 * C1>>
    BY <1>2, <2>1
  <2>3. ASSUME data(b).cap # Rates!Null
        PROVE  Rates!Same(Rates!Times(data(b).cap, rate(b, c)), data(c).cap)
    <3>1. spot.cap # <<>>
      BY <1>3, <2>1, <2>3 DEF Rates!Null
    <3> DEFINE n == spot.cap[1] d == spot.cap[2]
    <3>2. n \in Nat /\ d \in Nat
      BY <2>1, <3>1, RatesAssumption
    <3>3. data(b).cap = <<n * B2, d * B1>> /\ data(c).cap = <<n * C2, d * C1>>
      BY <1>3, <2>1, <3>1 DEF Rates!Null
    <3>4. ((n * B2) * (B1 * C2)) * (d * C1) = ((d * B1) * (B2 * C1)) * (n * C2)
      <4> HIDE DEF B1, B2, C1, C2, n, d
      <4> QED BY <1>4, <3>2
    <3> QED BY <2>2, <3>3, <3>4 DEF Rates!Same, Rates!Times
  <2> QED BY <2>2, <2>3 DEF Rates!Null
<1>9. (a \notin Fiat /\ spot # Rates!Null /\ priced) =>
        /\ data(b) # Rates!Null
        /\ spot.cap = <<prices[a] * spot.supply, 1>> =>
             Rates!Same(data(b).cap, Rates!Times(rate(a, b), <<spot.supply, 1>>))
  <2> SUFFICES ASSUME a \notin Fiat, spot # Rates!Null, priced
               PROVE  /\ data(b) # Rates!Null
                      /\ spot.cap = <<prices[a] * spot.supply, 1>> =>
                           Rates!Same(data(b).cap, Rates!Times(rate(a, b), <<spot.supply, 1>>))
    OBVIOUS
  <2>1. A1 = prices[a] /\ A2 = 1
    BY DEF Rates!UsdRate, r
  <2>2. data(b) # Rates!Null
    BY <1>3 DEF Rates!Null
  <2>3. ASSUME spot.cap = <<prices[a] * spot.supply, 1>>
        PROVE  Rates!Same(data(b).cap, Rates!Times(rate(a, b), <<spot.supply, 1>>))
    <3> DEFINE supply == spot.supply
    <3>1. supply \in Nat
      BY RatesAssumption DEF Rates!Null
    <3>2. data(b).cap = <<(A1 * supply) * B2, 1 * B1>>
      BY <1>3, <2>1, <2>3 DEF Rates!Null
    <3>3. rate(a, b) = <<A1 * B2, A2 * B1>>
      BY <1>2
    <3>4. ((A1 * supply) * B2) * ((A2 * B1) * 1) = (1 * B1) * ((A1 * B2) * supply)
      <4>1. A1 \in Nat /\ A2 = 1 /\ B1 \in Nat /\ B2 \in Nat
        BY <1>4, <2>1
      <4> HIDE DEF A1, A2, B1, B2, supply
      <4> QED BY <3>1, <4>1
    <3> QED BY <3>2, <3>3, <3>4 DEF Rates!Same, Rates!Times
  <2> QED BY <2>2, <2>3
<1> HIDE DEF A1, A2, B1, B2, C1, C2
<1> QED BY <1>5, <1>6, <1>7, <1>8, <1>9 DEF Rates!ConversionsAgree, rate, data

-----------------------------------------------------------------------------
(* The requests *)

\* What occurs in two lists one after the other.
LEMMA RangeJoined ==
  ASSUME NEW A, NEW a \in Seq(A), NEW b \in Seq(A)
  PROVE  Joined(a, b) \in Seq(A) /\ Range(Joined(a, b)) = Range(a) \cup Range(b)
BY JoinedProperties, RangeConcatenation DEF Joined

\* What is joined up to each of some lists.
Flattens(f, lists, n) ==
  f = [i \in 1..n |-> IF i = 1 THEN lists[i] ELSE Joined(f[i - 1], lists[i])]

\* There is such a function for any number of lists.
LEMMA FlattensExists ==
  ASSUME NEW lists
  PROVE  \A n \in Nat : \E f : Flattens(f, lists, n)
<1> DEFINE S == {n \in Nat : \E f : Flattens(f, lists, n)}
<1>1. 0 \in S
  <2> DEFINE f == [i \in 1..0 |-> i]
  <2>1. Flattens(f, lists, 0) BY DEF Flattens
  <2> QED BY <2>1
<1>2. ASSUME NEW n \in Nat, n \in S PROVE n + 1 \in S
  <2>1. PICK f : Flattens(f, lists, n) BY <1>2
  <2> DEFINE last == IF n + 1 = 1 THEN lists[n + 1] ELSE Joined(f[n], lists[n + 1])
             g == [i \in 1..(n + 1) |-> IF i = n + 1 THEN last ELSE f[i]]
  <2>2. \A i \in 1..n : f[i] = IF i = 1 THEN lists[i] ELSE Joined(f[i - 1], lists[i])
    BY <2>1 DEF Flattens
  <2>3. ASSUME NEW i \in 1..(n + 1)
        PROVE  g[i] = IF i = 1 THEN lists[i] ELSE Joined(g[i - 1], lists[i])
    <3>1. CASE i = n + 1
      <4>1. n # 0 => n \in 1..(n + 1) /\ n # n + 1 /\ i - 1 = n BY <3>1
      <4> QED BY <3>1, <4>1
    <3>2. CASE i # n + 1
      <4>1. i \in 1..n /\ (i # 1 => i - 1 \in 1..(n + 1) /\ i - 1 # n + 1) BY <3>2
      <4> QED BY <3>2, <4>1, <2>2
    <3> QED BY <3>1, <3>2
  <2>4. g = [i \in 1..(n + 1) |-> g[i]] OBVIOUS
  <2> HIDE DEF g
  <2>5. Flattens(g, lists, n + 1) BY <2>3, <2>4 DEF Flattens
  <2> QED BY <2>5
<1> HIDE DEF S
<1>3. \A n \in Nat : n \in S BY <1>1, <1>2, Induct
<1> QED BY <1>3 DEF S

\* Flattening lists gives a list of what occurs in any of them.
LEMMA Flattened ==
  ASSUME NEW A, NEW n \in Nat, NEW lists \in [1..n -> Seq(A)]
  PROVE  /\ FlattenSeq(lists) \in Seq(A)
         /\ \A x : x \in Range(FlattenSeq(lists)) <=> \E i \in 1..n : x \in Range(lists[i])
<1> DEFINE f == CHOOSE g : Flattens(g, lists, n)
<1>1. Len(lists) = n OBVIOUS
<1>2. CASE n = 0
  <2>1. FlattenSeq(lists) = lists BY <1>1, <1>2 DEF FlattenSeq
  <2>2. DOMAIN lists = {} BY <1>2
  <2>3. lists = <<>> BY <1>2
  <2>4. <<>> \in Seq(A) OBVIOUS
  <2> QED BY <2>1, <2>2, <2>3, <2>4 DEF Range
<1>3. CASE n # 0
  <2>1. FlattenSeq(lists) = f[n]
    BY <1>1, <1>3 DEF FlattenSeq, Flattens, Joined
  <2>2. Flattens(f, lists, n) BY FlattensExists
  <2> HIDE DEF f
  <2>3. \A i \in 1..n : f[i] = IF i = 1 THEN lists[i] ELSE Joined(f[i - 1], lists[i])
    BY <2>2 DEF Flattens
  <2> DEFINE P(i) == /\ f[i] \in Seq(A)
                     /\ \A x : x \in Range(f[i]) <=> \E j \in 1..i : x \in Range(lists[j])
             S == {i \in Nat : i \in 1..n => P(i)}
  <2>4. 0 \in S OBVIOUS
  <2>5. ASSUME NEW i \in Nat, i \in S PROVE i + 1 \in S
    <3> SUFFICES ASSUME i + 1 \in 1..n PROVE P(i + 1) OBVIOUS
    <3>1. lists[i + 1] \in Seq(A) OBVIOUS
    <3>2. CASE i = 0
      <4>1. f[i + 1] = lists[i + 1] BY <2>3, <3>2
      <4>2. \A j : j \in 1..(i + 1) <=> j = i + 1 BY <3>2
      <4>3. \A x : x \in Range(lists[i + 1]) <=> \E j \in 1..(i + 1) : x \in Range(lists[j])
        BY <4>2
      <4> QED BY <3>1, <4>1, <4>3
    <3>3. CASE i # 0
      <4>1. i \in 1..n /\ i + 1 # 1 /\ (i + 1) - 1 = i BY <3>3
      <4>2. P(i) BY <4>1, <2>5
      <4>3. f[i + 1] = Joined(f[i], lists[i + 1]) BY <2>3, <4>1
      <4>4. f[i + 1] \in Seq(A) /\ Range(f[i + 1]) = Range(f[i]) \cup Range(lists[i + 1])
        BY <3>1, <4>2, <4>3, RangeJoined
      <4>5. \A j : j \in 1..(i + 1) <=> j \in 1..i \/ j = i + 1 OBVIOUS
      <4> QED BY <4>2, <4>4, <4>5
    <3> QED BY <3>2, <3>3
  <2> HIDE DEF S
  <2>6. \A i \in Nat : i \in S BY <2>4, <2>5, Induct
  <2>7. n \in 1..n BY <1>3
  <2>8. P(n) BY <2>6, <2>7 DEF S
  <2> QED BY <2>1, <2>8
<1> QED BY <1>2, <1>3

\* The lists of the wallet are filtered and flattened as others are.
LEMMA WalletLists ==
  /\ \A list, S : Wallet!Filter(list, S) = Filter(list, S)
  /\ \A list : Wallet!Range(list) = Range(list) /\ Wallet!ToSet(list) = Range(list)
  /\ \A lists : Wallet!FlattenSeq(lists) = FlattenSeq(lists)
<1>1. \A S : Wallet!Cardinality(S) = Cardinality(S)
  BY DEF Wallet!Cardinality, Cardinality, IsFiniteSet, Wallet!IsFiniteSet
<1>2. \A S, k : Wallet!Nth(S, k) = Nth(S, k) BY <1>1 DEF Wallet!Nth, Nth
<1>3. \A list, S : Wallet!Filter(list, S) = Filter(list, S) BY <1>1, <1>2 DEF Wallet!Filter, Filter
<1>4. \A lists : Wallet!FlattenSeq(lists) = FlattenSeq(lists) BY DEF Wallet!FlattenSeq, FlattenSeq
<1> QED BY <1>3, <1>4 DEF Wallet!Range, Wallet!ToSet, Range

\* Decoding drops nulls, a byte order mark in front, and nothing else of what is text.
LEMMA Decoded ==
  ASSUME NEW A, NEW t \in Seq(A)
  PROVE  /\ Wallet!Altered(t) \/ Wallet!DecodeUtf8(t) = t
         /\ "bad" \notin A =>
              /\ Range(Wallet!DecodeUtf8(t)) \subseteq Range(t)
              /\ Range(t) \ {"null", "bom"} \subseteq Range(Wallet!DecodeUtf8(t))
<1> DEFINE unmarked == IF t # <<>> /\ t[1] = "bom" THEN Tail(t) ELSE t
           replaced == [i \in DOMAIN unmarked |->
                          IF unmarked[i] = "bad" THEN "replacement" ELSE unmarked[i]]
           S == Range(replaced) \ {"null"}
           B == A \cup {"replacement"}
<1>1. Wallet!DecodeUtf8(t) = Filter(replaced, S) BY WalletLists DEF Wallet!DecodeUtf8
<1>2. unmarked \in Seq(A) /\ Range(unmarked) \subseteq Range(t) /\ Range(t) \ {"bom"} \subseteq Range(unmarked)
  <2>1. CASE t # <<>> /\ t[1] = "bom"
    <3>1. /\ Tail(t) \in Seq(A) /\ DOMAIN t = 1..Len(t) /\ DOMAIN Tail(t) = 1..(Len(t) - 1) /\ Len(t) \in Nat
          /\ \A i \in 1..(Len(t) - 1) : Tail(t)[i] = t[i + 1]
      BY <2>1
    <3>2. \A i \in 1..Len(t) : i = 1 \/ (i - 1 \in 1..(Len(t) - 1) /\ (i - 1) + 1 = i) BY <3>1
    <3>3. \A i \in 1..(Len(t) - 1) : i + 1 \in 1..Len(t) BY <3>1
    <3>4. ASSUME NEW x \in Range(Tail(t)) PROVE x \in Range(t)
      <4>1. PICK i \in 1..(Len(t) - 1) : x = Tail(t)[i] BY <3>1 DEF Range
      <4>2. x = t[i + 1] /\ i + 1 \in 1..Len(t) BY <4>1, <3>1, <3>3
      <4> QED BY <4>2, <3>1 DEF Range
    <3>5. ASSUME NEW x \in Range(t), x # "bom" PROVE x \in Range(Tail(t))
      <4>1. PICK i \in 1..Len(t) : x = t[i] BY <3>1 DEF Range
      <4>2. i - 1 \in 1..(Len(t) - 1) /\ (i - 1) + 1 = i BY <4>1, <3>2, <3>5, <2>1
      <4>3. Tail(t)[i - 1] = x BY <4>1, <4>2, <3>1
      <4> QED BY <4>2, <4>3, <3>1 DEF Range
    <3> HIDE DEF unmarked
    <3>6. unmarked = Tail(t) BY <2>1 DEF unmarked
    <3> QED BY <3>1, <3>4, <3>5, <3>6
  <2>2. CASE ~(t # <<>> /\ t[1] = "bom") BY <2>2
  <2> QED BY <2>1, <2>2
<1>3. t = <<>> \/ t[1] # "bom" => unmarked = t OBVIOUS
<1> HIDE DEF unmarked
<1>4. replaced \in Seq(B)
  <2>1. DOMAIN unmarked = 1..Len(unmarked) /\ Len(unmarked) \in Nat BY <1>2
  <2>2. \A i \in 1..Len(unmarked) : unmarked[i] \in A BY <1>2
  <2> QED BY <2>1, <2>2
<1>5. (\A i \in DOMAIN unmarked : unmarked[i] # "bad") => replaced = unmarked
  <2>1. unmarked = [i \in DOMAIN unmarked |-> unmarked[i]]
    <3>1. DOMAIN unmarked = 1..Len(unmarked) BY <1>2
    <3>2. unmarked = [i \in 1..Len(unmarked) |-> unmarked[i]] BY <1>2
    <3> QED BY <3>1, <3>2
  <2> QED BY <2>1
<1> HIDE DEF replaced
<1>6. Range(Filter(replaced, S)) = Range(replaced) \ {"null"}
  <2>1. Range(Filter(replaced, S)) = Range(replaced) \cap S BY <1>4, FilterType
  <2> QED BY <2>1
<1>7. ASSUME ~Wallet!Altered(t) PROVE Wallet!DecodeUtf8(t) = t
  <2>1. t = <<>> \/ (t[1] # "bom" /\ \A i \in DOMAIN t : t[i] \notin {"bad", "null"})
    BY <1>7 DEF Wallet!Altered
  <2>2. unmarked = t BY <2>1, <1>3
  <2>3. \A i \in DOMAIN t : t[i] \notin {"bad", "null"}
    <3>1. DOMAIN <<>> = {} OBVIOUS
    <3> QED BY <2>1, <3>1
  <2>4. replaced = t BY <2>2, <2>3, <1>5
  <2>5. \A i \in DOMAIN replaced : replaced[i] \in S BY <2>3, <2>4 DEF Range
  <2>6. Filter(replaced, S) = replaced
    <3> HIDE DEF S
    <3> QED BY <2>5, <1>4, FilterAll
  <2> QED BY <2>4, <2>6, <1>1
<1>8. ASSUME "bad" \notin A
      PROVE  /\ Range(Wallet!DecodeUtf8(t)) \subseteq Range(t)
             /\ Range(t) \ {"null", "bom"} \subseteq Range(Wallet!DecodeUtf8(t))
  <2>1. \A i \in DOMAIN unmarked : unmarked[i] # "bad" BY <1>2, <1>8
  <2>2. replaced = unmarked BY <2>1, <1>5
  <2> QED BY <2>2, <1>1, <1>2, <1>6
<1> QED BY <1>7, <1>8

\* A text has some characters, and others at most.
Between(text, T, some, most) ==
  text \in Seq(T) /\ some \subseteq Range(text) /\ Range(text) \subseteq most

\* Two texts one after the other.
LEMMA JoinedBetween ==
  ASSUME NEW T, NEW a, NEW b, NEW A1, NEW A2, NEW B1, NEW B2,
         Between(a, T, A1, A2), Between(b, T, B1, B2)
  PROVE  Between(Joined(a, b), T, A1 \cup B1, A2 \cup B2)
<1>1. Joined(a, b) \in Seq(T) /\ Range(Joined(a, b)) = Range(a) \cup Range(b)
  BY RangeJoined DEF Between
<1> QED BY <1>1 DEF Between

\* A text of none, one or two characters.
LEMMA FewBetween ==
  ASSUME NEW T
  PROVE  /\ Between(<<>>, T, {}, {})
         /\ \A x \in T : Between(<<x>>, T, {}, {x})
         /\ \A x, y \in T : Between(<<x, y>>, T, {}, {x, y})
<1>1. <<>> \in Seq(T) /\ Range(<<>>) = {} BY DEF Range
<1>2. ASSUME NEW x \in T PROVE <<x>> \in Seq(T) /\ Range(<<x>>) = {x} BY DEF Range
<1>3. ASSUME NEW x \in T, NEW y \in T PROVE <<x, y>> \in Seq(T) /\ Range(<<x, y>>) = {x, y}
  <2>1. <<x, y>> \in Seq(T) OBVIOUS
  <2>2. DOMAIN <<x, y>> = {1, 2} OBVIOUS
  <2>3. <<x, y>>[1] = x /\ <<x, y>>[2] = y OBVIOUS
  <2> QED BY <2>1, <2>2, <2>3 DEF Range
<1> QED BY <1>1, <1>2, <1>3 DEF Between

\* The characters of some texts, and texts that have each those of another and a few more.
AllOf(texts, n) == UNION {Range(texts[i]) : i \in 1..n}
EachBetween(lists, n, T, some, W) ==
  /\ DOMAIN lists = 1..n /\ lists = [i \in 1..n |-> lists[i]]
  /\ \A i \in 1..n : Between(lists[i], T, Range(some[i]), Range(some[i]) \cup W)

\* Any number of texts one after the other.
LEMMA FlattenedBetween ==
  ASSUME NEW T, NEW n \in Nat, NEW lists, NEW some, NEW W, EachBetween(lists, n, T, some, W)
  PROVE  Between(FlattenSeq(lists), T, AllOf(some, n), AllOf(some, n) \cup W)
<1>1. lists \in [1..n -> Seq(T)] BY DEF Between, EachBetween
<1>2. /\ FlattenSeq(lists) \in Seq(T)
      /\ \A x : x \in Range(FlattenSeq(lists)) <=> \E i \in 1..n : x \in Range(lists[i])
  BY <1>1, Flattened
<1>3. \A i \in 1..n : Range(some[i]) \subseteq Range(lists[i]) /\ Range(lists[i]) \subseteq Range(some[i]) \cup W
  BY DEF Between, EachBetween
<1> DEFINE flat == FlattenSeq(lists)
<1> HIDE DEF flat
<1>4. AllOf(some, n) \subseteq Range(flat) /\ Range(flat) \subseteq AllOf(some, n) \cup W
  <2>1. \A x : x \in Range(flat) <=> \E i \in 1..n : x \in Range(lists[i]) BY <1>2 DEF flat
  <2>2. \A x : x \in AllOf(some, n) <=> \E i \in 1..n : x \in Range(some[i]) BY DEF AllOf
  <2> QED BY <2>1, <2>2, <1>3
<1>5. flat \in Seq(T) BY <1>2 DEF flat
<1>6. Between(flat, T, AllOf(some, n), AllOf(some, n) \cup W) BY <1>4, <1>5 DEF Between
<1> QED BY <1>6 DEF flat

\* The characters of the texts of a sign-in.
Texts(params) ==
  {params.domain, params.statement} \cup Range(params.lines) \cup Range(params.resources)
Given(params) == UNION {Range(t) : t \in Texts(params)}

\* The entries of a list.
LEMMA EntriesOf ==
  \A T : \A s \in Seq(Seq(T)) : /\ Len(s) \in Nat /\ DOMAIN s = 1..Len(s)
                               /\ \A i \in 1..Len(s) : s[i] \in Seq(T)
OBVIOUS

\* The characters of the message a sign-in signs are those of its texts and of the wording.
LEMMA Formatted ==
  ASSUME NEW T, NEW address \in Seq(T), NEW params, params.domain \in Seq(T), params.statement \in Seq(T),
         DOMAIN params.lines = 1..8, \A i \in 1..8 : params.lines[i] \in Seq(T),
         params.resources \in Seq(Seq(T)), Wallet!Wording \subseteq T
  PROVE  Between(Wallet!FormatSignInMessage(address, params), T,
                 Range(address) \cup Given(params), (Range(address) \cup Given(params)) \cup Wallet!Wording)
<1> DEFINE W == Wallet!Wording
           labels == Wallet!SignInLines
           n == Len(params.resources)
           label(i) == <<"newline", labels[i]>>
           bullet == <<"newline", "-">>
           labelled == [i \in DOMAIN labels |-> IF params.lines[i] = <<>> THEN <<>>
                                                 ELSE Joined(label(i), params.lines[i])]
           listed == [i \in DOMAIN params.resources |-> Joined(bullet, params.resources[i])]
           heading == IF params.resources = <<>> THEN <<>> ELSE <<"newline", "Resources">>
           lines1 == FlattenSeq(labelled)
           resources1 == FlattenSeq(listed)
           lines2 == Joined(lines1, heading)
           lines == Joined(lines2, resources1)
           opening == <<"wants you to sign in", "newline">>
           twice == <<"newline", "newline">>
           once == <<"newline">>
           statement == IF params.statement = <<>> THEN <<>> ELSE Joined(twice, params.statement)
           tail == IF lines = <<>> THEN <<>> ELSE Joined(once, lines)
           m1 == Joined(params.domain, opening)
           m2 == Joined(m1, address)
           m3 == Joined(m2, statement)
           m4 == Joined(m3, tail)
           L == AllOf(params.lines, 8)
           R == AllOf(params.resources, n)
           D == Range(params.domain)
           S == Range(params.statement)
           A == Range(address)
<1>1. Wallet!FormatSignInMessage(address, params) = m4
  BY WalletLists DEF Wallet!FormatSignInMessage, Joined
<1>2. /\ DOMAIN labels = 1..8 /\ \A i \in 1..8 : labels[i] \in W
      /\ {"newline", "wants you to sign in", "Resources", "-"} \subseteq W
  <2>1. W = Range(labels) \cup {"wants you to sign in", "newline", "Resources", "-"}
    BY WalletLists DEF Wallet!Wording
  <2>2. DOMAIN labels = 1..8 BY DEF Wallet!SignInLines
  <2> HIDE DEF labels, W
  <2> QED BY <2>1, <2>2 DEF Range
<1>3. W \subseteq T OBVIOUS
<1>4. n \in Nat /\ DOMAIN params.resources = 1..n /\ \A i \in 1..n : params.resources[i] \in Seq(T)
  <2>1. \A s \in Seq(Seq(T)) : /\ Len(s) \in Nat /\ DOMAIN s = 1..Len(s)
                              /\ \A i \in 1..Len(s) : s[i] \in Seq(T)
    BY EntriesOf
  <2>2. params.resources \in Seq(Seq(T)) OBVIOUS
  <2> QED BY <2>1, <2>2
<1> HIDE DEF labels, W, n
<1>5. /\ \A i \in 1..8 : Between(label(i), T, {}, W)
      /\ Between(bullet, T, {}, W) /\ Between(opening, T, {}, W)
      /\ Between(twice, T, {}, W) /\ Between(once, T, {}, W)
      /\ Between(heading, T, {}, W) /\ Between(<<>>, T, {}, W)
  <2>1. /\ (\A x \in T : Between(<<x>>, T, {}, {x})) /\ \A x, y \in T : Between(<<x, y>>, T, {}, {x, y})
        /\ Between(<<>>, T, {}, {})
    BY FewBetween
  <2>2. (\A x \in W : Between(<<x>>, T, {}, W)) /\ \A x, y \in W : Between(<<x, y>>, T, {}, W)
    BY <2>1, <1>3 DEF Between
  <2>3. Between(<<>>, T, {}, W) BY <2>1 DEF Between
  <2> QED BY <2>1, <2>2, <2>3, <1>2
<1>6. \A text \in Seq(T) : Between(text, T, Range(text), Range(text)) BY DEF Between
<1>7. \A text : text = <<>> => Range(text) = {} BY DEF Range
<1> DEFINE Is(text, X) == Between(text, T, X, X \cup W)
<1>8. \A text \in Seq(T) : Is(text, Range(text)) BY <1>6 DEF Between
<1>8a. \A text : Between(text, T, {}, W) => Is(text, {}) BY DEF Between
<1>9. \A a, b, X, Y : Is(a, X) /\ Is(b, Y) => Is(Joined(a, b), X \cup Y)
  <2> SUFFICES ASSUME NEW a, NEW b, NEW X, NEW Y, Is(a, X), Is(b, Y) PROVE Is(Joined(a, b), X \cup Y)
    OBVIOUS
  <2>1. Between(Joined(a, b), T, X \cup Y, (X \cup W) \cup (Y \cup W)) BY JoinedBetween
  <2>2. (X \cup W) \cup (Y \cup W) = (X \cup Y) \cup W OBVIOUS
  <2> QED BY <2>1, <2>2
<1>10. \A i \in 1..8 : Is(labelled[i], Range(params.lines[i]))
  <2> SUFFICES ASSUME NEW i \in 1..8 PROVE Is(labelled[i], Range(params.lines[i])) OBVIOUS
  <2>1. labelled[i] = IF params.lines[i] = <<>> THEN <<>> ELSE Joined(label(i), params.lines[i])
    BY <1>2
  <2>2. params.lines[i] \in Seq(T) OBVIOUS
  <2> DEFINE own == Range(params.lines[i])
  <2>3. Is(params.lines[i], own) BY <2>2, <1>8
  <2>4. Is(label(i), {}) BY <1>5, <1>8a
  <2>5. Is(<<>>, {}) BY <1>5, <1>8a
  <2> HIDE DEF Is, label, labelled
  <2>6. Is(Joined(label(i), params.lines[i]), {} \cup own) BY <2>3, <2>4, <1>9
  <2>7. {} \cup own = own OBVIOUS
  <2>8. params.lines[i] = <<>> => own = {} BY <1>7
  <2> HIDE DEF own
  <2>9. Is(labelled[i], own) BY <2>1, <2>5, <2>6, <2>7, <2>8
  <2> QED BY <2>9 DEF own
<1>11. Is(lines1, L)
  <2>1. DOMAIN labelled = 1..8 /\ labelled = [i \in 1..8 |-> labelled[i]] BY <1>2
  <2> HIDE DEF labelled
  <2>2. EachBetween(labelled, 8, T, params.lines, W) BY <1>10, <2>1 DEF EachBetween
  <2> QED BY <2>2, FlattenedBetween
<1>12. \A i \in 1..n : Is(listed[i], Range(params.resources[i]))
  <2> SUFFICES ASSUME NEW i \in 1..n PROVE Is(listed[i], Range(params.resources[i])) OBVIOUS
  <2>1. listed[i] = Joined(bullet, params.resources[i]) BY <1>4
  <2> DEFINE own == Range(params.resources[i])
  <2>2. Is(params.resources[i], own) BY <1>4, <1>8
  <2>3. Is(bullet, {}) BY <1>5, <1>8a
  <2> HIDE DEF Is, bullet, listed
  <2>4. Is(Joined(bullet, params.resources[i]), {} \cup own) BY <2>2, <2>3, <1>9
  <2>5. {} \cup own = own OBVIOUS
  <2> QED BY <2>1, <2>4, <2>5
<1>13. Is(resources1, R)
  <2>1. DOMAIN listed = 1..n /\ listed = [i \in 1..n |-> listed[i]] BY <1>4
  <2> HIDE DEF listed
  <2>2. EachBetween(listed, n, T, params.resources, W) BY <1>12, <2>1 DEF EachBetween
  <2>3. n \in Nat BY <1>4
  <2> QED BY <2>2, <2>3, FlattenedBetween
<1>14. /\ Is(params.domain, D) /\ Is(params.statement, S) /\ Is(address, A)
       /\ Is(opening, {}) /\ Is(twice, {}) /\ Is(once, {}) /\ Is(heading, {}) /\ Is(<<>>, {})
  <2>1. Is(params.domain, D) BY <1>8
  <2>2. Is(params.statement, S) BY <1>8
  <2>3. Is(address, A) BY <1>8
  <2>4. /\ Is(opening, {}) /\ Is(twice, {}) /\ Is(once, {}) /\ Is(heading, {}) /\ Is(<<>>, {})
    <3> HIDE DEF Is, opening, twice, once, heading
    <3> QED BY <1>5, <1>8a
  <2> QED BY <2>1, <2>2, <2>3, <2>4
<1>15. \A text, X : text = <<>> /\ Is(text, X) => X = {} BY <1>7 DEF Between
<1> HIDE DEF Is, labelled, listed, lines1, resources1, opening, twice, once, heading, L, R, D, S, A
<1>16. \A X : {} \cup X = X /\ X \cup {} = X OBVIOUS
<1>17. Is(lines, L \cup R)
  <2>1. Is(lines2, L \cup {}) BY <1>11, <1>14, <1>9
  <2>2. Is(lines2, L) BY <2>1, <1>16
  <2> HIDE DEF lines2
  <2> QED BY <2>2, <1>13, <1>9
<1>18. Is(statement, S)
  <2>1. Is(Joined(twice, params.statement), {} \cup S) BY <1>14, <1>9
  <2>2. params.statement = <<>> => S = {} BY <1>14, <1>15
  <2> QED BY <2>1, <2>2, <1>14, <1>16
<1> HIDE DEF lines, statement
<1>19. Is(tail, L \cup R)
  <2>1. Is(Joined(once, lines), {} \cup (L \cup R)) BY <1>14, <1>17, <1>9
  <2>2. lines = <<>> => L \cup R = {} BY <1>17, <1>15
  <2> QED BY <2>1, <2>2, <1>14, <1>16
<1> HIDE DEF tail
<1>20. Is(m4, ((D \cup A) \cup S) \cup (L \cup R))
  <2>1. Is(m1, D \cup {}) BY <1>14, <1>9
  <2>2. Is(m1, D) BY <2>1, <1>16
  <2> HIDE DEF m1
  <2>3. Is(m2, D \cup A) BY <2>2, <1>14, <1>9
  <2> HIDE DEF m2
  <2>4. Is(m3, (D \cup A) \cup S) BY <2>3, <1>18, <1>9
  <2> HIDE DEF m3
  <2> QED BY <2>4, <1>19, <1>9
<1> DEFINE all == Given(params)
<1>21. ((D \cup A) \cup S) \cup (L \cup R) = A \cup all
  <2>1. \A x : x \in L <=> \E t \in Range(params.lines) : x \in Range(t)
    <3>1. \A x : x \in L <=> \E i \in 1..8 : x \in Range(params.lines[i]) BY DEF L, AllOf
    <3>2. \A t : t \in Range(params.lines) <=> \E i \in 1..8 : t = params.lines[i] BY DEF Range
    <3> QED BY <3>1, <3>2
  <2>2. \A x : x \in R <=> \E t \in Range(params.resources) : x \in Range(t)
    <3>1. \A x : x \in R <=> \E i \in 1..n : x \in Range(params.resources[i]) BY DEF R, AllOf
    <3>2. \A t : t \in Range(params.resources) <=> \E i \in 1..n : t = params.resources[i]
      BY <1>4 DEF Range
    <3> QED BY <3>1, <3>2
  <2>3. \A x : x \in all <=> x \in D \/ x \in S \/ (\E t \in Range(params.lines) : x \in Range(t))
                             \/ (\E t \in Range(params.resources) : x \in Range(t))
    <3>1. \A x : x \in all <=> \E t \in Texts(params) : x \in Range(t) BY DEF Given
    <3> HIDE DEF all
    <3> QED BY <3>1 DEF D, S, Texts
  <2> HIDE DEF all
  <2> QED BY <2>1, <2>2, <2>3
<1>22. Between(m4, T, A \cup all, (A \cup all) \cup W) BY <1>20, <1>21 DEF Is
<1> HIDE DEF m4, all
<1> QED BY <1>1, <1>22 DEF A, W, all

\* Signing a message, of the account it names.
LEMMA SignsMessage ==
  ASSUME NEW account, NEW request
  PROVE  LET reply == Wallet!SignMessage(account, request) IN
         /\ reply # <<>> <=> request.address = <<account.address>>
         /\ reply # <<>> =>
              /\ reply[1].signedMessage = request.payload
              /\ reply[1].signature = [key |-> account.address, bytes |-> Wallet!DecodeUtf8(request.payload)]
<1> DEFINE bytes == Wallet!DecodeUtf8(request.payload)
           answered == [signature |-> [key |-> account.address, bytes |-> bytes], signedMessage |-> request.payload]
           reply == Wallet!SignMessage(account, request)
<1>1. reply = IF request.address = <<account.address>> THEN <<answered>> ELSE <<>>
  BY DEF Wallet!SignMessage, Wallet!ValidateAccountAddress, Wallet!EncodeUtf8
<1> HIDE DEF bytes, reply
<1>2. answered.signedMessage = request.payload /\ answered.signature = [key |-> account.address, bytes |-> bytes]
  OBVIOUS
<1> HIDE DEF answered
<1>3. <<answered>> # <<>> /\ <<answered>>[1] = answered OBVIOUS
<1> QED BY <1>1, <1>2, <1>3 DEF bytes, reply

\* Any request of a dapp is signed as its dialog shows, by the account it resolves to.
LEMMA Signing ==
  ASSUME NEW scope \in Networks, NEW request \in Asked
  PROVE  Wallet!SignedUnlessExcused(Accounts, scope, request)
<1> SUFFICES ASSUME NEW a \in Accounts
             PROVE  LET reply == Wallet!Submit(a, scope, request)
                        resolved == Wallet!Routed(Accounts, scope, request)
                        message == reply[1].signedMessage
                        signed == reply[1].signature.bytes
                        methodExcused == request.method \notin a.methods
                        scopeExcused == request.scope \notin {<<>>, <<scope>>}
                        anotherExcused == request.method \in {"signIn", "signAndSendTransaction"}
                    IN /\ resolved = <<a.address>> /\ ~methodExcused /\ ~scopeExcused => reply # <<>>
                       /\ reply # <<>> =>
                            /\ anotherExcused \/ request.address = <<a.address>>
                            /\ Wallet!Altered(message) \/ Wallet!VerifySignature(a, reply[1].signature, message)
                            /\ request.method = "signMessage" => signed = Wallet!EncodeUtf8(Wallet!ShownMessage(request))
                            /\ request.method = "signIn" =>
                                 /\ Wallet!ToSet(request.address) \subseteq Wallet!ToSet(signed)
                                 /\ Wallet!Characters(Wallet!ShownSignIn(request)) \ Wallet!Removed \subseteq Wallet!ToSet(signed)
                                 /\ Wallet!ToSet(signed) \subseteq
                                      Wallet!Characters(Wallet!ShownSignIn(request)) \cup Wallet!Wording
                                      \cup Wallet!ToSet(request.address)
  BY DEF Wallet!SignedUnlessExcused
<1> DEFINE reply == Wallet!Submit(a, scope, request)
           method == request.method
           ours == Wallet!Routed(Accounts, scope, request) = <<a.address>>
           named == request.address = <<a.address>>
           answered == reply # <<>>
           methodExcused == method \notin a.methods
           scopeExcused == request.scope \notin {<<>>, <<scope>>}
           refused == scope \notin a.scopes \/ methodExcused \/ scopeExcused
           message == reply[1].signedMessage
           signed == reply[1].signature.bytes
           verified == Wallet!Altered(message) \/ Wallet!VerifySignature(a, reply[1].signature, message)
           asShown == signed = Wallet!EncodeUtf8(Wallet!ShownMessage(request))
           asFormatted ==
             /\ Wallet!ToSet(request.address) \subseteq Wallet!ToSet(signed)
             /\ Wallet!Characters(Wallet!ShownSignIn(request)) \ Wallet!Removed \subseteq Wallet!ToSet(signed)
             /\ Wallet!ToSet(signed) \subseteq
                  Wallet!Characters(Wallet!ShownSignIn(request)) \cup Wallet!Wording
                  \cup Wallet!ToSet(request.address)
<1>1. method \in {"signIn", "signMessage", "signTransaction", "signAndSendTransaction"}
  BY RequestsAssumption
<1>2. refused => ~answered BY DEF Wallet!Submit
<1>3. /\ ~refused /\ method = "signIn" => reply = Wallet!SignIn(a, request)
      /\ ~refused /\ method = "signMessage" => reply = Wallet!SignMessage(a, request)
      /\ ~refused /\ method \in {"signTransaction", "signAndSendTransaction"} =>
           reply = Wallet!Transact(a, request)
  BY <1>1 DEF Wallet!Submit
<1>4. ours => scope \in a.scopes /\ named
  <2> DEFINE resolved == Wallet!Routed(Accounts, scope, request)
  <2> SUFFICES ASSUME resolved = <<a.address>> PROVE scope \in a.scopes /\ named
    OBVIOUS
  <2>1. resolved # <<>> OBVIOUS
  <2>2. /\ resolved = request.address
        /\ \E b \in Accounts : scope \in b.scopes /\ request.address = <<b.address>>
    BY <2>1 DEF Wallet!Routed, Wallet!ResolveAccountAddress
  <2>3. PICK b \in Accounts : scope \in b.scopes /\ request.address = <<b.address>> BY <2>2
  <2>4. a.address = b.address BY <2>2, <2>3
  <2> QED BY <2>2, <2>3, <2>4, RequestsAssumption
<1> HIDE DEF ours, reply, refused
<1> DEFINE Claim ==
      /\ ours /\ ~refused => answered
      /\ answered => /\ method \in {"signIn", "signAndSendTransaction"} \/ named
                     /\ verified
                     /\ method = "signMessage" => asShown
                     /\ method = "signIn" => asFormatted
<1>5. ASSUME refused PROVE Claim
  <2> HIDE DEF answered, verified, asShown, asFormatted
  <2> QED BY <1>2, <1>5
<1>6. ASSUME ~refused, method = "signMessage" PROVE Claim
  <2>1. reply = Wallet!SignMessage(a, request) BY <1>3, <1>6
  <2>2. /\ answered <=> named
        /\ answered =>
             /\ message = request.payload
             /\ reply[1].signature = [key |-> a.address, bytes |-> Wallet!DecodeUtf8(request.payload)]
    BY <2>1, SignsMessage
  <2>3. request.payload \in Seq(Range(request.payload)) BY <1>6, RequestsAssumption
  <2>4. Wallet!Altered(request.payload) \/ Wallet!DecodeUtf8(request.payload) = request.payload
    BY <2>3, Decoded
  <2>5. answered => signed = Wallet!DecodeUtf8(request.payload) BY <2>2
  <2>6. Wallet!EncodeUtf8(Wallet!ShownMessage(request)) = Wallet!DecodeUtf8(request.payload)
    BY DEF Wallet!EncodeUtf8, Wallet!ShownMessage
  <2>7. answered => verified
    BY <2>2, <2>4 DEF Wallet!VerifySignature
  <2>8. answered => asShown BY <2>5, <2>6
  <2>9. method # "signIn" BY <1>6
  <2> HIDE DEF answered, verified, asShown, asFormatted, named
  <2> QED BY <1>4, <2>2, <2>7, <2>8, <2>9
<1>7. ASSUME ~refused, method \in {"signTransaction", "signAndSendTransaction"} PROVE Claim
  <2> DEFINE result == [signature |-> [key |-> a.address, bytes |-> request.payload],
                        signedMessage |-> request.payload]
  <2>1. reply = IF method = "signTransaction" /\ ~named THEN <<>> ELSE <<result>>
    BY <1>3, <1>7 DEF Wallet!Transact, Wallet!ValidateAccountAddress
  <2>2. result.signature = [key |-> a.address, bytes |-> request.payload]
        /\ result.signedMessage = request.payload
    OBVIOUS
  <2> HIDE DEF result
  <2>3. <<result>> # <<>> /\ <<result>>[1] = result OBVIOUS
  <2>4. answered => verified
    BY <2>1, <2>2, <2>3 DEF Wallet!VerifySignature
  <2>5. named \/ method = "signAndSendTransaction" <=> answered BY <1>7, <2>1, <2>3
  <2>6. method # "signIn" /\ method # "signMessage" BY <1>7
  <2> HIDE DEF answered, verified, asShown, asFormatted, named
  <2> QED BY <1>4, <2>4, <2>5, <2>6
<1>8. ASSUME ~refused, method = "signIn" PROVE Claim
  <2> DEFINE params == request.payload
             text == Wallet!FormatSignInMessage(request.address, params)
             T == (Given(params) \cup Range(request.address)) \cup Wallet!Wording
             own == [method |-> "signMessage", address |-> <<a.address>>, scope |-> request.scope,
                     payload |-> text]
  <2>1. reply = Wallet!SignMessage(a, own)
    BY <1>3, <1>8 DEF Wallet!SignIn, Wallet!EncodeUtf8
  <2>2. own.address = <<a.address>> /\ own.payload = text OBVIOUS
  <2> HIDE DEF own, text
  <2>3. /\ answered /\ message = text
        /\ reply[1].signature = [key |-> a.address, bytes |-> Wallet!DecodeUtf8(text)]
    BY <2>1, <2>2, SignsMessage
  <2>4. signed = Wallet!DecodeUtf8(text) BY <2>3
  <2>5. /\ request.address \in Seq(Range(request.address) \ {"bad", "null", "bom"})
        /\ params.domain \in Seq(Range(params.domain) \ {"bad"})
        /\ params.statement \in Seq(Range(params.statement) \ {"bad"})
        /\ DOMAIN params.lines = 1..8
        /\ \A i \in 1..8 : params.lines[i] \in Seq(Range(params.lines[i]) \ {"bad"})
        /\ params.resources \in Seq(Range(params.resources))
        /\ \A i \in DOMAIN params.resources : params.resources[i] \in Seq(Range(params.resources[i]) \ {"bad"})
    BY <1>8, RequestsAssumption
  <2> HIDE DEF params
  <2>6. \A t, S : t \in Seq(Range(t) \ S) => \A c \in Range(t) : c \notin S
    <3> SUFFICES ASSUME NEW t, NEW S, t \in Seq(Range(t) \ S), NEW i \in DOMAIN t, t[i] \in S PROVE FALSE
      BY DEF Range
    <3>1. \A x : t \in Seq(x) => t[i] \in x OBVIOUS
    <3> QED BY <3>1
  <2>7. ASSUME NEW t \in Texts(params)
        PROVE  t \in Seq(Range(t) \ {"bad"}) /\ Range(t) \subseteq Given(params) /\ "bad" \notin Range(t)
    <3>1. Range(t) \subseteq Given(params) BY DEF Given
    <3>2. t \in Range(params.lines) => t \in Seq(Range(t) \ {"bad"})
      <4> SUFFICES ASSUME t \in Range(params.lines) PROVE t \in Seq(Range(t) \ {"bad"}) OBVIOUS
      <4>1. PICK i \in 1..8 : t = params.lines[i] BY <2>5 DEF Range
      <4> QED BY <4>1, <2>5
    <3>3. t \in Range(params.resources) => t \in Seq(Range(t) \ {"bad"})
      <4> SUFFICES ASSUME t \in Range(params.resources) PROVE t \in Seq(Range(t) \ {"bad"}) OBVIOUS
      <4>1. PICK i \in DOMAIN params.resources : t = params.resources[i] BY DEF Range
      <4> QED BY <4>1, <2>5
    <3>4. t \in Seq(Range(t) \ {"bad"})
      <4>1. t = params.domain \/ t = params.statement \/ t \in Range(params.lines) \/ t \in Range(params.resources)
        BY DEF Texts
      <4>2. t = params.domain => t \in Seq(Range(t) \ {"bad"}) BY <2>5
      <4>3. t = params.statement => t \in Seq(Range(t) \ {"bad"}) BY <2>5
      <4> QED BY <4>1, <4>2, <4>3, <3>2, <3>3
    <3>5. "bad" \notin Range(t) BY <3>4, <2>6
    <3> QED BY <3>1, <3>4, <3>5
  <2>8. "bad" \notin Wallet!Wording
    <3> DEFINE names == {"URI", "Version", "Chain ID", "Nonce", "Issued At", "Expiration Time",
                         "Not Before", "Request ID"}
    <3>1. Wallet!SignInLines \in Seq(names) BY DEF Wallet!SignInLines
    <3>2. "bad" \notin Range(Wallet!SignInLines)
      <4>1. Range(Wallet!SignInLines) \subseteq names BY <3>1, RangeOfSeq
      <4> QED BY <4>1
    <3> QED BY <3>2, WalletLists DEF Wallet!Wording
  <2>9. \A c \in Range(request.address) : c \notin {"bad", "null", "bom"} BY <2>5, <2>6
  <2>10. "bad" \notin T
    <3>1. "bad" \notin Given(params) BY <2>7 DEF Given
    <3> QED BY <3>1, <2>8, <2>9
  <2>11. \A t, S : t \in Seq(Range(t) \ S) /\ Range(t) \subseteq T => t \in Seq(T)
    <3> SUFFICES ASSUME NEW t, NEW S, t \in Seq(Range(t) \ S), Range(t) \subseteq T PROVE t \in Seq(T)
      OBVIOUS
    <3>1. Range(t) \ S \subseteq T OBVIOUS
    <3> HIDE DEF T
    <3> QED BY <3>1, SeqMonotonic
  <2>12. Given(params) \subseteq T /\ Range(request.address) \subseteq T /\ Wallet!Wording \subseteq T OBVIOUS
  <2> HIDE DEF T
  <2>13. \A t \in Texts(params) : t \in Seq(T) BY <2>7, <2>11, <2>12
  <2>14. /\ params.domain \in Seq(T) /\ params.statement \in Seq(T)
         /\ \A i \in 1..8 : params.lines[i] \in Seq(T)
         /\ \A i \in DOMAIN params.resources : params.resources[i] \in Seq(T)
    <3>1. params.domain \in Texts(params) /\ params.statement \in Texts(params) BY DEF Texts
    <3>2. \A i \in 1..8 : params.lines[i] \in Texts(params) BY <2>5 DEF Texts, Range
    <3>3. \A i \in DOMAIN params.resources : params.resources[i] \in Texts(params) BY DEF Texts, Range
    <3> QED BY <3>1, <3>2, <3>3, <2>13
  <2>15. params.resources \in Seq(Seq(T))
    <3>1. Range(params.resources) \subseteq Seq(T) BY <2>14 DEF Range
    <3> QED BY <3>1, <2>5, SeqMonotonic
  <2>16. request.address \in Seq(T) BY <2>5, <2>11, <2>12
  <2>17. DOMAIN params.lines = 1..8 BY <2>5
  <2>18. Between(text, T, Range(request.address) \cup Given(params),
                 (Range(request.address) \cup Given(params)) \cup Wallet!Wording)
    BY <2>12, <2>14, <2>15, <2>16, <2>17, Formatted DEF text
  <2>19. text \in Seq(T) BY <2>18 DEF Between
  <2>20. Range(signed) \subseteq Range(text) /\ Range(text) \ {"null", "bom"} \subseteq Range(signed)
    <3> HIDE DEF signed
    <3> QED BY <2>4, <2>10, <2>19, Decoded
  <2>21. Wallet!Altered(text) \/ Wallet!DecodeUtf8(text) = text BY <2>19, Decoded
  <2>22. verified BY <2>3, <2>21 DEF Wallet!VerifySignature
  <2>23. Wallet!Characters(Wallet!ShownSignIn(request)) = Given(params)
    <3>1. Wallet!ShownSignIn(request) = Texts(params)
      BY WalletLists DEF Wallet!ShownSignIn, Texts, params
    <3> QED BY <3>1, WalletLists DEF Wallet!Characters, Given
  <2>24. asFormatted
    <3> HIDE DEF signed
    <3>1. Wallet!Removed = {"null", "bom"} BY DEF Wallet!Removed
    <3> QED BY <3>1, <2>9, <2>18, <2>20, <2>23, WalletLists DEF Between
  <2> HIDE DEF answered, verified, asShown, asFormatted, named
  <2>25. method # "signMessage" BY <1>8
  <2> QED BY <1>8, <2>3, <2>22, <2>24, <2>25
<1> HIDE DEF answered, verified, asShown, asFormatted, named, methodExcused, scopeExcused
<1>9. Claim BY <1>1, <1>5, <1>6, <1>7, <1>8
<1> QED BY <1>9, <1>4 DEF refused, ours, named, answered, verified, asShown, asFormatted, methodExcused, scopeExcused, reply

-----------------------------------------------------------------------------
(* The dialog *)

\* The dialog filters lists as others are filtered.
LEMMA ViewFilters ==
  /\ \A list, S : View!Filter(list, S) = Filter(list, S)
  /\ \A list : View!Range(list) = Range(list)
<1>1. \A S : View!Cardinality(S) = Cardinality(S)
  BY DEF View!Cardinality, Cardinality, IsFiniteSet, View!IsFiniteSet
<1>2. \A S, k : View!Nth(S, k) = Nth(S, k) BY <1>1 DEF View!Nth, Nth
<1>3. \A list, S : View!Filter(list, S) = Filter(list, S) BY <1>1, <1>2 DEF View!Filter, Filter
<1> QED BY <1>3 DEF View!Range, Range

\* The assets of a scan that are of a type.
LEMMA AssetsOf ==
  ASSUME NEW diff, diff \in Seq(Range(diff)), NEW type
  PROVE  LET assets == [i \in DOMAIN diff |-> View!ChangeOf(diff[i])]
             of == View!Filter(assets, {a \in View!Range(assets) : a.type = type})
         IN  /\ of = <<>> <=> \A i \in DOMAIN diff : View!ChangeOf(diff[i]).type # type
             /\ \A i \in DOMAIN diff : View!ChangeOf(diff[i]).type = type =>
                  View!Contains(of, View!ChangeOf(diff[i]))
<1> DEFINE assets == [i \in DOMAIN diff |-> View!ChangeOf(diff[i])]
           A == Range(assets)
           S == {a \in A : a.type = type}
           of == Filter(assets, S)
<1>1. DOMAIN diff = 1..Len(diff) /\ Len(diff) \in Nat OBVIOUS
<1>2. assets \in Seq(A) /\ \A i \in DOMAIN diff : assets[i] = View!ChangeOf(diff[i]) /\ assets[i] \in A
  <2>1. DOMAIN assets = 1..Len(diff) BY <1>1
  <2>2. \A i \in 1..Len(diff) : assets[i] \in A BY <2>1 DEF Range
  <2>3. \A i \in DOMAIN diff : assets[i] = View!ChangeOf(diff[i]) OBVIOUS
  <2>4. assets = [i \in 1..Len(diff) |-> assets[i]] BY <2>1
  <2> HIDE DEF assets
  <2> QED BY <2>2, <2>3, <2>4, <1>1
<1>3. DOMAIN assets = DOMAIN diff OBVIOUS
<1> HIDE DEF assets
<1>4. of \in Seq(A) /\ Range(of) = A \cap S BY <1>2, FilterType
<1>5. \A x : View!Contains(of, x) <=> x \in Range(of)
  <2>1. DOMAIN of = 1..Len(of) BY <1>4
  <2> HIDE DEF of
  <2> QED BY <2>1 DEF View!Contains, Range
<1>6. of = <<>> <=> Range(of) = {}
  <2>1. of # <<>> => 1 \in DOMAIN of
    <3> HIDE DEF of
    <3> QED BY <1>4
  <2>2. Range(<<>>) = {} BY DEF Range
  <2> HIDE DEF of
  <2> QED BY <2>1, <2>2 DEF Range
<1>7. A = {assets[i] : i \in DOMAIN diff} BY <1>3 DEF Range
<1>8. View!Filter(assets, {a \in View!Range(assets) : a.type = type}) = of
  BY ViewFilters
<1> HIDE DEF of, A
<1>9. /\ of = <<>> <=> \A i \in DOMAIN diff : View!ChangeOf(diff[i]).type # type
      /\ \A i \in DOMAIN diff : View!ChangeOf(diff[i]).type = type =>
           View!Contains(of, View!ChangeOf(diff[i]))
  BY <1>2, <1>4, <1>5, <1>6, <1>7
<1> QED BY <1>8, <1>9 DEF assets

\* What comes of scanning for some of the simulation and the validation.
LEMMA ScanMade ==
  ASSUME NEW r \in ScanAnswers, NEW options
  PROVE  /\ r.answer # "scan" => View!ScanTransaction(r, options) = <<>>
         /\ r.answer = "scan" => LET scan == View!ScanTransaction(r, options) IN
              /\ scan # <<>>
              /\ scan[1].status = IF r.status = "SUCCESS" THEN "SUCCESS" ELSE "ERROR"
              /\ scan[1].error = r.error /\ r.error \in BOOLEAN
              /\ "validation" \in options => scan[1].verdict = r.verdict
              /\ "simulation" \in options =>
                   scan[1].assets = [i \in DOMAIN r.diff |-> View!ChangeOf(r.diff[i])]
              /\ r.diff \in Seq(Range(r.diff))
<1>1. CASE r.answer # "scan" BY <1>1 DEF View!ScanTransaction, View!Answered
<1>2. CASE r.answer = "scan"
  <2>1. /\ r = [answer |-> "scan", status |-> r.status, diff |-> r.diff, verdict |-> r.verdict, error |-> r.error]
        /\ r.diff \in Seq(Range(r.diff)) /\ r.error \in BOOLEAN
    BY <1>2, ScansAssumption
  <2> DEFINE d == IF "simulation" \in options THEN r.diff ELSE <<>>
             v == IF "validation" \in options THEN r.verdict ELSE "none"
             result == View!Answered(r, options)
  <2>2. result = [r EXCEPT !.diff = d, !.verdict = v] BY <1>2 DEF View!Answered
  <2>3. /\ result.answer = "scan" /\ result.status = r.status /\ result.error = r.error
        /\ result.diff = d /\ result.verdict = v
    <3> HIDE DEF d, v, result
    <3> QED BY <2>1, <2>2
  <2>4. View!ScanTransaction(r, options) =
          <<[status |-> IF result.status = "SUCCESS" THEN "SUCCESS" ELSE "ERROR",
             assets |-> [i \in DOMAIN result.diff |-> View!ChangeOf(result.diff[i])],
             verdict |-> result.verdict, error |-> result.error]>>
    BY <2>3 DEF View!ScanTransaction
  <2> HIDE DEF result
  <2> DEFINE assets == [i \in DOMAIN result.diff |-> View!ChangeOf(result.diff[i])]
  <2>5. "simulation" \in options => assets = [i \in DOMAIN r.diff |-> View!ChangeOf(r.diff[i])]
    BY <2>3
  <2> HIDE DEF assets
  <2> QED BY <1>2, <2>1, <2>3, <2>4, <2>5 DEF assets
<1> QED BY <1>1, <1>2

\* What the dialog shows of a scan when it can be confirmed.
ShowsScan(r, preferences, alert, changes) ==
  /\ r.status = "SUCCESS"
  /\ "validation" \in preferences =>
       /\ r.verdict \in {"Malicious", "Warning"} => alert # "none"
       /\ r.verdict = "Malicious" /\ ~r.error => alert = "danger"
  /\ "simulation" \in preferences =>
       /\ changes.what # "not available"
       /\ changes.what = "no changes" <=> r.diff = <<>>
       /\ \A i \in DOMAIN r.diff :
            /\ r.diff[i].in # <<>> =>
                 View!Contains(changes.receive, [type |-> "in", value |-> r.diff[i].in])
            /\ r.diff[i].in = <<>> =>
                 View!Contains(changes.send, [type |-> "out", value |-> r.diff[i].out])

\* It shows the user all of it that the user wants to see.
LEMMA ScanShown ==
  ASSUME NEW r \in ScanAnswers, r.answer = "scan", NEW options, NEW preferences, preferences \subseteq options,
         NEW context, context.status = "fetched", context.scan = View!ScanTransaction(r, options),
         View!CanConfirm(context)
  PROVE  ShowsScan(r, preferences, View!Alert(preferences, context),
                   View!EstimatedChanges(preferences, context))
<1> DEFINE scan == View!ScanTransaction(r, options)
           alert == View!Alert(preferences, context)
           changes == View!EstimatedChanges(preferences, context)
           assets == [i \in DOMAIN r.diff |-> View!ChangeOf(r.diff[i])]
           of(type) == View!Filter(assets, {a \in View!Range(assets) : a.type = type})
<1>1. /\ scan # <<>>
      /\ scan[1].status = IF r.status = "SUCCESS" THEN "SUCCESS" ELSE "ERROR"
      /\ scan[1].error = r.error /\ r.error \in BOOLEAN
      /\ "validation" \in options => scan[1].verdict = r.verdict
      /\ "simulation" \in options => scan[1].assets = assets
      /\ r.diff \in Seq(Range(r.diff))
  BY ScanMade
<1> HIDE DEF scan, assets
<1>2. context.scan = scan BY DEF scan
<1>3. r.status = "SUCCESS" BY <1>1, <1>2 DEF View!CanConfirm
<1>4. ASSUME "validation" \in preferences
      PROVE  /\ r.verdict \in {"Malicious", "Warning"} => alert # "none"
             /\ r.verdict = "Malicious" /\ ~r.error => alert = "danger"
  BY <1>1, <1>2, <1>4 DEF View!Alert
<1>5. ASSUME "simulation" \in preferences
      PROVE  /\ changes.what # "not available"
             /\ changes.what = "no changes" <=> r.diff = <<>>
             /\ \A i \in DOMAIN r.diff :
                  /\ r.diff[i].in # <<>> =>
                       View!Contains(changes.receive, [type |-> "in", value |-> r.diff[i].in])
                  /\ r.diff[i].in = <<>> =>
                       View!Contains(changes.send, [type |-> "out", value |-> r.diff[i].out])
  <2>1. changes = IF of("out") = <<>> /\ of("in") = <<>>
                  THEN [what |-> "no changes", send |-> <<>>, receive |-> <<>>]
                  ELSE [what |-> "changes", send |-> of("out"), receive |-> of("in")]
    BY <1>1, <1>2, <1>3, <1>5 DEF View!EstimatedChanges
  <2>2. \A type :
          /\ of(type) = <<>> <=> \A i \in DOMAIN r.diff : View!ChangeOf(r.diff[i]).type # type
          /\ \A i \in DOMAIN r.diff : View!ChangeOf(r.diff[i]).type = type =>
               View!Contains(of(type), View!ChangeOf(r.diff[i]))
    BY <1>1, AssetsOf DEF assets
  <2> HIDE DEF of, changes
  <2>3. \A i \in DOMAIN r.diff :
          /\ r.diff[i].in # <<>> => View!ChangeOf(r.diff[i]) = [type |-> "in", value |-> r.diff[i].in]
          /\ r.diff[i].in = <<>> => View!ChangeOf(r.diff[i]) = [type |-> "out", value |-> r.diff[i].out]
          /\ View!ChangeOf(r.diff[i]).type \in {"in", "out"}
    BY DEF View!ChangeOf
  <2>4. \A i \in DOMAIN r.diff :
          /\ r.diff[i].in # <<>> => View!ChangeOf(r.diff[i]).type = "in"
          /\ r.diff[i].in = <<>> => View!ChangeOf(r.diff[i]).type = "out"
    BY DEF View!ChangeOf
  <2>5. r.diff = <<>> <=> DOMAIN r.diff = {}
    <3>1. DOMAIN <<>> = {} OBVIOUS
    <3>2. \A s \in Seq(Range(r.diff)) : s # <<>> => 1 \in DOMAIN s OBVIOUS
    <3> QED BY <1>1, <3>1, <3>2
  <2>6. of("out") = <<>> /\ of("in") = <<>> <=> r.diff = <<>>
    BY <2>2, <2>3, <2>5
  <2>7. CASE r.diff = <<>> BY <2>1, <2>5, <2>6, <2>7
  <2>8. CASE r.diff # <<>>
    <3>1. changes.what = "changes" /\ changes.send = of("out") /\ changes.receive = of("in")
      BY <2>1, <2>6, <2>8
    <3> QED BY <3>1, <2>2, <2>3, <2>4, <2>8
  <2> QED BY <2>7, <2>8
<1> QED BY <1>3, <1>4, <1>5 DEF ShowsScan

\* A dialog that can be confirmed warns and shows the changes as the latest scan said.
LEMMA Dialog ==
  ASSUME NEW moment \in {"rendering", "rendered", "refreshing", "refreshed"},
         NEW preferences \in SUBSET {"simulation", "validation"},
         NEW first \in ScanAnswers, NEW second \in ScanAnswers
  PROVE  View!DialogTrueUnlessExcused(moment, preferences, first, second)
<1> DEFINE context == View!ContextAt(moment, preferences, first, second)
           heard == View!Heard(moment, preferences, first, second)
           alert == View!Alert(preferences, context)
           changes == View!EstimatedChanges(preferences, context)
           rendered == View!Rendered(preferences, first)
           whole == {"simulation", "validation"}
           rescanned == moment = "refreshed" /\ "simulation" \in preferences
           options == IF rescanned THEN whole ELSE preferences
           excused == moment = "refreshed" /\ heard.answer # "scan"
<1>0. /\ View!ContextAt("rendering", preferences, first, second) = View!Rendering
      /\ View!ContextAt("rendered", preferences, first, second) = rendered
      /\ View!ContextAt("refreshing", preferences, first, second) = View!Refreshing(preferences, rendered)
      /\ View!ContextAt("refreshed", preferences, first, second) = View!Refreshed(preferences, rendered, second)
  BY DEF View!ContextAt
<1>1. View!CanConfirm(context) => context.status # "fetching" BY DEF View!CanConfirm
<1>2. moment = "rendering" => ~View!CanConfirm(context)
  BY <1>0, <1>1 DEF View!Rendering
<1>3. rendered.status \in {"error", "fetched"} /\ rendered = [status |-> rendered.status, scan |-> rendered.scan]
  BY DEF View!Rendered
<1>4. moment = "refreshing" /\ View!CanConfirm(context) => "simulation" \notin preferences /\ context = rendered
  <2>1. ASSUME moment = "refreshing", "simulation" \in preferences PROVE context.status = "fetching"
    <3>1. context = [rendered EXCEPT !.status = "fetching"] BY <2>1, <1>0 DEF View!Refreshing
    <3> HIDE DEF rendered, context
    <3> QED BY <3>1, <1>3
  <2>2. moment = "refreshing" /\ "simulation" \notin preferences => context = rendered
    BY <1>0 DEF View!Refreshing
  <2> HIDE DEF context, rendered
  <2> QED BY <2>1, <2>2, <1>1
<1>5. moment = "rendered" => context = rendered BY <1>0
<1>6. moment = "refreshed" /\ "simulation" \notin preferences => context = rendered
  BY <1>0 DEF View!Refreshed
<1>7. rescanned => context.status = "fetched" /\ context.scan = View!ScanTransaction(second, whole) /\ heard = second
  BY <1>0 DEF View!Refreshed, View!Heard
<1>8. ~rescanned => heard = first BY DEF View!Heard
<1>9. preferences = {} => rendered.status = "fetched" /\ rendered.scan = <<>>
  BY DEF View!Rendered
<1>10. preferences # {} =>
         /\ rendered.scan = View!ScanTransaction(first, preferences)
         /\ rendered.status = IF rendered.scan = <<>> THEN "error" ELSE "fetched"
  BY DEF View!Rendered
<1> HIDE DEF context, rendered, heard
<1> SUFFICES ASSUME View!CanConfirm(context), ~excused
             PROVE  /\ moment # "rendering"
                    /\ heard.answer = "scan" /\ preferences # {} => heard.status = "SUCCESS"
                    /\ "validation" \in preferences =>
                         /\ heard.answer # "scan" => alert = "danger"
                         /\ heard.answer = "scan" /\ heard.verdict \in {"Malicious", "Warning"} =>
                              alert # "none"
                         /\ heard.answer = "scan" /\ heard.verdict = "Malicious" /\ ~heard.error =>
                              alert = "danger"
                    /\ "simulation" \in preferences =>
                         /\ changes.what = "not available" <=> heard.answer # "scan"
                         /\ changes.what = "no changes" <=> heard.answer = "scan" /\ heard.diff = <<>>
                         /\ heard.answer = "scan" => \A i \in DOMAIN heard.diff :
                              /\ heard.diff[i].in # <<>> =>
                                   View!Contains(changes.receive, [type |-> "in", value |-> heard.diff[i].in])
                              /\ heard.diff[i].in = <<>> =>
                                   View!Contains(changes.send, [type |-> "out", value |-> heard.diff[i].out])
  BY DEF View!DialogTrueUnlessExcused, context, heard
<1>11. moment # "rendering" BY <1>2
<1>12. CASE preferences = {} BY <1>11, <1>12
<1>13. CASE preferences # {}
  <2>1. context = rendered \/ rescanned BY <1>4, <1>5, <1>6, <1>11
  <2>2. CASE heard.answer = "scan"
    <3>1. heard \in ScanAnswers BY <1>7, <1>8
    <3>2. View!ScanTransaction(heard, options) # <<>> BY <3>1, <2>2, ScanMade
    <3>3. context.status = "fetched" /\ context.scan = View!ScanTransaction(heard, options)
      BY <2>1, <3>2, <1>7, <1>8, <1>10, <1>13
    <3>4. preferences \subseteq options OBVIOUS
    <3> HIDE DEF options
    <3>5. ShowsScan(heard, preferences, alert, changes)
      BY <2>2, <3>1, <3>3, <3>4, ScanShown
    <3> HIDE DEF alert, changes
    <3> QED BY <1>11, <2>2, <3>5 DEF ShowsScan
  <2>3. CASE heard.answer # "scan"
    <3>1. ~rescanned BY <2>3
    <3>2. View!ScanTransaction(first, preferences) = <<>> BY <1>8, <2>3, <3>1, ScanMade
    <3>3. context.status = "error" BY <1>10, <1>13, <2>1, <3>1, <3>2
    <3>4. "validation" \in preferences => alert = "danger" BY <3>3 DEF View!Alert
    <3>5. "simulation" \in preferences => changes.what = "not available"
      BY <3>3 DEF View!EstimatedChanges
    <3> HIDE DEF alert, changes
    <3> QED BY <1>11, <2>3, <3>4, <3>5
  <2> QED BY <2>2, <2>3
<1> QED BY <1>12, <1>13

-----------------------------------------------------------------------------
(* Sums *)

\* What holds of no member, and with every member added, holds of a finite set.
LEMMA InductSet ==
  ASSUME NEW S, IsFiniteSet(S), NEW P, {} \in P,
         \A T \in SUBSET S : T \in P => \A x \in S \ T : T \cup {x} \in P
  PROVE  S \in P
<1> DEFINE N == {n \in Nat : \A T \in SUBSET S : Cardinality(T) = n => T \in P}
<1>1. \A T \in SUBSET S : IsFiniteSet(T) BY FS_Subset
<1>2. 0 \in N
  <2>1. \A T \in SUBSET S : Cardinality(T) = 0 => T = {} BY <1>1, FS_EmptySet
  <2> QED BY <2>1
<1>3. ASSUME NEW n \in Nat, n \in N PROVE n + 1 \in N
  <2> SUFFICES ASSUME NEW T \in SUBSET S, Cardinality(T) = n + 1 PROVE T \in P OBVIOUS
  <2>1. T # {}
    <3>1. Cardinality({}) = 0 /\ n + 1 # 0 BY FS_EmptySet
    <3> QED BY <3>1
  <2>2. PICK x \in T : TRUE BY <2>1
  <2> DEFINE U == T \ {x}
  <2>3. Cardinality(U) = n
    <3>1. Cardinality(T \ {x}) = Cardinality(T) - 1 BY <1>1, <2>2, FS_RemoveElement
    <3> QED BY <3>1
  <2>4. U \in SUBSET S /\ x \in S \ U /\ U \cup {x} = T BY <2>2
  <2>5. U \in P BY <1>3, <2>3, <2>4
  <2> HIDE DEF U
  <2> QED BY <2>4, <2>5
<1> HIDE DEF N
<1>4. \A n \in Nat : n \in N BY <1>2, <1>3, Induct
<1>5. Cardinality(S) \in Nat BY FS_CardinalityType
<1> QED BY <1>4, <1>5 DEF N

\* How MapThenSumSet adds up: a member after another.
Choice(s) == CHOOSE x \in s : TRUE
Added(g, f, s) == IF s = {} THEN 0 ELSE f[Choice(s)] + g[s \ {Choice(s)}]
Adds(g, f, D) == g = [s \in D |-> Added(g, f, s)]

\* There is such a function.
LEMMA AddsExists ==
  ASSUME NEW S, IsFiniteSet(S), NEW f
  PROVE  \E g : Adds(g, f, SUBSET S)
<1> DEFINE Level(n) == {s \in SUBSET S : Cardinality(s) <= n}
           N == {n \in Nat : \E g : Adds(g, f, Level(n))}
<1>1. \A T \in SUBSET S : IsFiniteSet(T) /\ Cardinality(T) \in Nat BY FS_Subset, FS_CardinalityType
<1>2. 0 \in N
  <2> DEFINE g == [s \in Level(0) |-> 0]
  <2>1. \A s \in Level(0) : s = {} BY <1>1, FS_EmptySet
  <2>2. Adds(g, f, Level(0)) BY <2>1 DEF Adds, Added
  <2> QED BY <2>2
<1>3. ASSUME NEW n \in Nat, n \in N PROVE n + 1 \in N
  <2>1. PICK g : Adds(g, f, Level(n)) BY <1>3
  <2>2. \A s \in Level(n) : g[s] = Added(g, f, s) BY <2>1 DEF Adds
  <2> DEFINE h == [s \in Level(n + 1) |-> Added(g, f, s)]
  <2>3. \A s \in Level(n) : s \in Level(n + 1) BY <1>1
  <2>4. \A s \in Level(n + 1) : s # {} => Choice(s) \in s /\ s \ {Choice(s)} \in Level(n)
    <3> SUFFICES ASSUME NEW s \in Level(n + 1), s # {}
                 PROVE  Choice(s) \in s /\ s \ {Choice(s)} \in Level(n)
      OBVIOUS
    <3>1. Choice(s) \in s BY DEF Choice
    <3>2. Cardinality(s \ {Choice(s)}) = Cardinality(s) - 1 BY <1>1, <3>1, FS_RemoveElement
    <3>3. Cardinality(s) - 1 <= n BY <1>1
    <3>4. s \ {Choice(s)} \in SUBSET S OBVIOUS
    <3> QED BY <3>1, <3>2, <3>3, <3>4
  <2> HIDE DEF Level
  <2>5. \A s \in Level(n) : h[s] = g[s] BY <2>2, <2>3
  <2>6. \A s \in Level(n + 1) : Added(g, f, s) = Added(h, f, s) BY <2>4, <2>5 DEF Added
  <2>7. h = [s \in Level(n + 1) |-> Added(h, f, s)] BY <2>6
  <2>8. Adds(h, f, Level(n + 1)) BY <2>7 DEF Adds
  <2> QED BY <2>8
<1>4. Cardinality(S) \in Nat BY FS_CardinalityType
<1>5. Level(Cardinality(S)) = SUBSET S BY <1>1, FS_Subset
<1> HIDE DEF N
<1>6. \A n \in Nat : n \in N BY <1>2, <1>3, Induct
<1> HIDE DEF Level
<1>7. \E g : Adds(g, f, Level(Cardinality(S))) BY <1>4, <1>6 DEF N
<1> QED BY <1>5, <1>7

\* The sum of what a function has for the members of a finite set.
Total(f, S) == (CHOOSE g : Adds(g, f, SUBSET S))[S]

\* Nothing adds up to zero.
LEMMA TotalStarts == \A f : Total(f, {}) = 0
<1> SUFFICES ASSUME NEW f PROVE Total(f, {}) = 0 OBVIOUS
<1> DEFINE g == CHOOSE g : Adds(g, f, SUBSET {})
<1>1. Adds(g, f, SUBSET {}) BY AddsExists, FS_EmptySet
<1> HIDE DEF g
<1>2. g[{}] = 0 BY <1>1 DEF Adds, Added
<1> QED BY <1>2 DEF Total, g

\* What is added up are integers, and the same.
IntOn(f, S) == \A x \in S : f[x] \in Int
SameOn(f, g, S) == \A x \in S : f[x] = g[x]

\* The order does not matter.
Sums(g, f, D) == \A s \in D : g[s] \in Int /\ \A y \in s : g[s] = f[y] + g[s \ {y}]

\* Any member may be added first.
LEMMA AnyFirst ==
  ASSUME NEW S, IsFiniteSet(S), NEW f, IntOn(f, S), NEW g, Adds(g, f, SUBSET S)
  PROVE  Sums(g, f, SUBSET S)
<1> USE DEF IntOn, Sums
<1> DEFINE Good(s) == g[s] \in Int /\ \A y \in s : g[s] = f[y] + g[s \ {y}]
           N == {n \in Nat : \A s \in SUBSET S : Cardinality(s) <= n => Good(s)}
<1>1. \A T \in SUBSET S : IsFiniteSet(T) /\ Cardinality(T) \in Nat BY FS_Subset, FS_CardinalityType
<1>2. \A s \in SUBSET S : g[s] = Added(g, f, s) BY DEF Adds
<1>3. 0 \in N
  <2> SUFFICES ASSUME NEW s \in SUBSET S, Cardinality(s) <= 0 PROVE Good(s)
    OBVIOUS
  <2>1. s = {} BY <1>1, FS_EmptySet
  <2>2. g[{}] = 0 BY <1>2 DEF Added
  <2> QED BY <2>1, <2>2
<1>4. ASSUME NEW n \in Nat, n \in N PROVE n + 1 \in N
  <2>0. \A s \in SUBSET S : Cardinality(s) <= n + 1 /\ Cardinality(s) # n + 1 => Good(s)
    <3>1. \A s \in SUBSET S : Cardinality(s) <= n => Good(s) BY <1>4
    <3>2. \A s \in SUBSET S : Cardinality(s) <= n + 1 /\ Cardinality(s) # n + 1 => Cardinality(s) <= n
      BY <1>1
    <3> HIDE DEF Good
    <3> QED BY <3>1, <3>2
  <2> SUFFICES ASSUME NEW s \in SUBSET S, Cardinality(s) = n + 1 PROVE Good(s)
    <3> HIDE DEF Good
    <3> QED BY <2>0
  <2>1. s # {}
    <3>1. Cardinality({}) = 0 /\ n + 1 # 0 BY FS_EmptySet
    <3> QED BY <3>1
  <2> DEFINE c == Choice(s)
  <2>2. c \in s BY <2>1 DEF Choice
  <2>3. g[s] = f[c] + g[s \ {c}] BY <1>2, <2>1 DEF Added
  <2> HIDE DEF c
  <2>4. ASSUME NEW y \in s PROVE s \ {y} \in SUBSET S /\ Cardinality(s \ {y}) <= n
    <3>1. Cardinality(s \ {y}) = Cardinality(s) - 1 BY <1>1, FS_RemoveElement
    <3> QED BY <3>1
  <2>5. \A y \in s : Good(s \ {y}) BY <2>4, <1>4
  <2>6. ASSUME NEW y \in s, y # c PROVE g[s] = f[y] + g[s \ {y}]
    <3>1. y \in s \ {c} /\ c \in s \ {y} /\ (s \ {c}) \ {y} = (s \ {y}) \ {c} BY <2>2, <2>6
    <3> DEFINE last == (s \ {y}) \ {c}
               rest == g[last]
    <3>2. g[s \ {c}] = f[y] + g[(s \ {c}) \ {y}] /\ g[s \ {y}] = f[c] + rest
      BY <3>1, <2>2, <2>5
    <3>3. g[s \ {c}] = f[y] + rest BY <3>1, <3>2
    <3>4. rest \in Int
      <4>1. last \in SUBSET S OBVIOUS
      <4>2. Cardinality(last) <= Cardinality(s \ {y})
        <5>1. s \ {y} \in SUBSET S /\ last \in SUBSET (s \ {y}) OBVIOUS
        <5> HIDE DEF last
        <5> QED BY <5>1, <1>1, FS_Subset
      <4>3. Cardinality(s \ {y}) \in Nat /\ Cardinality(s \ {y}) <= n BY <2>4, <1>1
      <4>4. Cardinality(last) <= n
        <5> HIDE DEF last
        <5> QED BY <4>1, <4>2, <4>3, <1>1
      <4> HIDE DEF last
      <4> QED BY <4>1, <4>4, <1>4
    <3> DEFINE a == f[y] b == f[c]
    <3>5. a \in Int /\ b \in Int BY <2>2
    <3> HIDE DEF a, b, rest
    <3>6. a + (b + rest) = b + (a + rest) BY <3>4, <3>5
    <3> QED BY <2>3, <3>2, <3>3, <3>6 DEF a, b
  <2>7. g[s] \in Int BY <2>2, <2>3, <2>5
  <2> QED BY <2>3, <2>6, <2>7
<1> HIDE DEF N
<1>5. \A n \in Nat : n \in N BY <1>3, <1>4, Induct
<1> QED BY <1>1, <1>5 DEF N

\* Equal functions have equal sums.
LEMMA SameAdded ==
  ASSUME NEW S, IsFiniteSet(S), NEW f, NEW g, SameOn(f, g, S), NEW h, Adds(h, f, SUBSET S),
         NEW T, IsFiniteSet(T), S \subseteq T, NEW k, Adds(k, g, SUBSET T)
  PROVE  h[S] = k[S]
<1>1. /\ \A s \in SUBSET S : h[s] = Added(h, f, s)
      /\ \A s \in SUBSET T : k[s] = Added(k, g, s)
  BY DEF Adds
<1> DEFINE N == {n \in Nat : \A s \in SUBSET S : Cardinality(s) = n => h[s] = k[s]}
<1>2. \A s \in SUBSET S : IsFiniteSet(s) /\ Cardinality(s) \in Nat BY FS_Subset, FS_CardinalityType
<1>3. 0 \in N
  <2> SUFFICES ASSUME NEW s \in SUBSET S, Cardinality(s) = 0 PROVE h[s] = k[s] OBVIOUS
  <2>1. s = {} BY <1>2, FS_EmptySet
  <2> QED BY <2>1, <1>1 DEF Added
<1>4. ASSUME NEW n \in Nat, n \in N PROVE n + 1 \in N
  <2> SUFFICES ASSUME NEW s \in SUBSET S, Cardinality(s) = n + 1 PROVE h[s] = k[s] OBVIOUS
  <2>1. s # {}
    <3>1. Cardinality({}) = 0 /\ n + 1 # 0 BY FS_EmptySet
    <3> QED BY <3>1
  <2>2. Choice(s) \in s BY <2>1 DEF Choice
  <2>3. s \ {Choice(s)} \in SUBSET S /\ Cardinality(s \ {Choice(s)}) = n
    <3>1. Cardinality(s \ {Choice(s)}) = Cardinality(s) - 1 BY <1>2, <2>2, FS_RemoveElement
    <3> QED BY <3>1
  <2>4. h[s \ {Choice(s)}] = k[s \ {Choice(s)}] BY <2>3, <1>4
  <2>5. f[Choice(s)] = g[Choice(s)] BY <2>2 DEF SameOn
  <2>6. h[s] = f[Choice(s)] + h[s \ {Choice(s)}] /\ k[s] = g[Choice(s)] + k[s \ {Choice(s)}]
    BY <1>1, <2>1 DEF Added
  <2> QED BY <2>4, <2>5, <2>6
<1> HIDE DEF N
<1>5. \A n \in Nat : n \in N BY <1>3, <1>4, Induct
<1> QED BY <1>2, <1>5 DEF N

\* Equal functions have equal sums, whatever set they were summed over.
LEMMA TotalSame ==
  ASSUME NEW S, IsFiniteSet(S), NEW f, NEW g, SameOn(f, g, S)
  PROVE  Total(f, S) = Total(g, S)
<1> DEFINE h == CHOOSE h : Adds(h, f, SUBSET S)
           k == CHOOSE k : Adds(k, g, SUBSET S)
<1>1. Adds(h, f, SUBSET S) /\ Adds(k, g, SUBSET S) BY AddsExists
<1> HIDE DEF h, k
<1>2. S \subseteq S OBVIOUS
<1>3. h[S] = k[S] BY <1>1, <1>2, SameAdded
<1> QED BY <1>3 DEF h, k, Total

\* A sum, by any of its members.
LEMMA TotalBy ==
  ASSUME NEW S, IsFiniteSet(S), NEW f, IntOn(f, S)
  PROVE  Total(f, S) \in Int /\ \A y \in S : Total(f, S) = f[y] + Total(f, S \ {y})
<1> DEFINE h == CHOOSE h : Adds(h, f, SUBSET S)
<1>1. Adds(h, f, SUBSET S) BY AddsExists
<1>2. Total(f, S) = h[S] BY DEF Total
<1> HIDE DEF h
<1>3. h[S] \in Int /\ \A y \in S : h[S] = f[y] + h[S \ {y}]
  <2>1. Sums(h, f, SUBSET S) BY <1>1, AnyFirst
  <2>2. S \in SUBSET S OBVIOUS
  <2> QED BY <2>1, <2>2 DEF Sums
<1>4. ASSUME NEW y \in S PROVE h[S \ {y}] = Total(f, S \ {y})
  <2> DEFINE k == CHOOSE k : Adds(k, f, SUBSET (S \ {y}))
  <2>1. IsFiniteSet(S \ {y}) BY FS_Subset
  <2>2. Adds(k, f, SUBSET (S \ {y})) BY <2>1, AddsExists
  <2>3. Total(f, S \ {y}) = k[S \ {y}] BY DEF Total
  <2> HIDE DEF k
  <2> DEFINE R == S \ {y}
  <2>4. R \subseteq S /\ IsFiniteSet(R) BY <2>1
  <2>5. SameOn(f, f, R) BY DEF SameOn
  <2>6. Adds(k, f, SUBSET R) BY <2>2
  <2> HIDE DEF R
  <2>7. k[R] = h[R] BY <2>4, <2>5, <2>6, <1>1, SameAdded
  <2> QED BY <2>3, <2>7 DEF R
<1> QED BY <1>2, <1>3, <1>4

\* A sum with one more member.
LEMMA TotalAdd ==
  ASSUME NEW S, IsFiniteSet(S), NEW x, x \notin S, NEW f, IntOn(f, S \cup {x})
  PROVE  /\ Total(f, S) \in Int /\ f[x] \in Int
         /\ Total(f, S \cup {x}) = f[x] + Total(f, S)
<1> DEFINE T == S \cup {x}
<1>1. IsFiniteSet(T) BY FS_AddElement
<1>2. IntOn(f, T) /\ IntOn(f, S) /\ f[x] \in Int BY DEF IntOn
<1>3. x \in T /\ T \ {x} = S OBVIOUS
<1> HIDE DEF T
<1>4. \A y \in T : Total(f, T) = f[y] + Total(f, T \ {y}) BY <1>1, <1>2, TotalBy
<1>5. Total(f, S) \in Int BY <1>2, TotalBy
<1>6. Total(f, T) = f[x] + Total(f, S) BY <1>3, <1>4
<1> QED BY <1>2, <1>5, <1>6 DEF T

\* A sum over one member.
LEMMA TotalOne ==
  ASSUME NEW f, NEW x, f[x] \in Int
  PROVE  Total(f, {x}) = f[x]
<1>1. IsFiniteSet({}) /\ {} \cup {x} = {x} /\ x \notin {} BY FS_EmptySet
<1>2. IntOn(f, {} \cup {x}) BY DEF IntOn
<1>3. Total(f, {} \cup {x}) = f[x] + Total(f, {}) BY <1>1, <1>2, TotalAdd
<1> QED BY <1>1, <1>3, TotalStarts

\* A sum over two parts.
LEMMA TotalUnion ==
  ASSUME NEW A, IsFiniteSet(A), NEW B, IsFiniteSet(B), A \cap B = {}, NEW f, IntOn(f, A), IntOn(f, B)
  PROVE  Total(f, A \cup B) = Total(f, A) + Total(f, B)
<1> DEFINE Both(T) == Total(f, A \cup T) = Total(f, A) + Total(f, T)
           P == {T \in SUBSET B : Both(T)}
<1>1. Total(f, A) \in Int BY TotalBy
<1>2. {} \in P
  <2>1. A \cup {} = A /\ Total(f, {}) = 0 BY TotalStarts
  <2> QED BY <2>1, <1>1
<1>3. ASSUME NEW T \in SUBSET B, T \in P, NEW x \in B \ T PROVE T \cup {x} \in P
  <2> DEFINE AT == A \cup T
  <2>1. IsFiniteSet(T) /\ IsFiniteSet(AT) BY FS_Subset, FS_Union
  <2>2. x \notin T /\ x \notin AT /\ A \cup (T \cup {x}) = AT \cup {x} OBVIOUS
  <2>3. IntOn(f, T \cup {x}) /\ IntOn(f, AT \cup {x}) BY DEF IntOn
  <2>4. Total(f, AT) = Total(f, A) + Total(f, T) BY <1>3
  <2> HIDE DEF AT
  <2>5. /\ Total(f, T) \in Int /\ f[x] \in Int
        /\ Total(f, T \cup {x}) = f[x] + Total(f, T)
    BY <2>1, <2>2, <2>3, TotalAdd
  <2>6. Total(f, AT \cup {x}) = f[x] + Total(f, AT) BY <2>1, <2>2, <2>3, TotalAdd
  <2>7. Both(T \cup {x})
    <3> DEFINE a == Total(f, A) b == Total(f, T) c == f[x]
    <3>1. a \in Int /\ b \in Int /\ c \in Int BY <1>1, <2>5
    <3>2. Total(f, AT \cup {x}) = c + (a + b) /\ Total(f, T \cup {x}) = c + b BY <2>4, <2>5, <2>6
    <3> HIDE DEF a, b, c
    <3>3. c + (a + b) = a + (c + b) BY <3>1
    <3>4. Total(f, A \cup (T \cup {x})) = a + Total(f, T \cup {x}) BY <2>2, <3>2, <3>3
    <3> QED BY <3>4 DEF a
  <2> HIDE DEF Both
  <2> QED BY <2>7
<1> HIDE DEF P
<1>4. B \in P BY <1>2, <1>3, InductSet
<1> QED BY <1>4 DEF P

\* The difference of two sums.
LEMMA TotalMinus ==
  ASSUME NEW S, IsFiniteSet(S), NEW f, IntOn(f, S), NEW g, IntOn(g, S),
         NEW h, \A x \in S : h[x] = f[x] - g[x]
  PROVE  Total(h, S) = Total(f, S) - Total(g, S)
<1> DEFINE P == {T \in SUBSET S : Total(h, T) = Total(f, T) - Total(g, T)}
<1>1. {} \in P BY TotalStarts
<1>2. ASSUME NEW T \in SUBSET S, T \in P, NEW x \in S \ T PROVE T \cup {x} \in P
  <2>1. IsFiniteSet(T) /\ x \notin T BY FS_Subset
  <2>2. IntOn(f, T \cup {x}) /\ IntOn(g, T \cup {x}) /\ IntOn(h, T \cup {x}) BY DEF IntOn
  <2>3. /\ Total(f, T) \in Int /\ f[x] \in Int /\ Total(f, T \cup {x}) = f[x] + Total(f, T)
        /\ Total(g, T) \in Int /\ g[x] \in Int /\ Total(g, T \cup {x}) = g[x] + Total(g, T)
        /\ Total(h, T \cup {x}) = h[x] + Total(h, T)
    BY <2>1, <2>2, TotalAdd
  <2>4. h[x] = f[x] - g[x] /\ Total(h, T) = Total(f, T) - Total(g, T) BY <1>2
  <2>5. Total(h, T \cup {x}) = Total(f, T \cup {x}) - Total(g, T \cup {x}) BY <2>3, <2>4
  <2> QED BY <2>5
<1> HIDE DEF P
<1>3. S \in P BY <1>1, <1>2, InductSet
<1> QED BY <1>3 DEF P

\* A sum of what is not negative.
LEMMA TotalSign ==
  ASSUME NEW S, IsFiniteSet(S), NEW f, \A x \in S : f[x] \in Nat
  PROVE  /\ Total(f, S) \in Nat
         /\ Total(f, S) = 0 <=> \A x \in S : f[x] = 0
<1> DEFINE P == {T \in SUBSET S : Total(f, T) \in Nat /\ (Total(f, T) = 0 <=> \A x \in T : f[x] = 0)}
<1>1. {} \in P BY TotalStarts
<1>2. ASSUME NEW T \in SUBSET S, T \in P, NEW x \in S \ T PROVE T \cup {x} \in P
  <2>1. IsFiniteSet(T) /\ x \notin T BY FS_Subset
  <2>2. IntOn(f, T \cup {x}) BY DEF IntOn
  <2>3. Total(f, T \cup {x}) = f[x] + Total(f, T) BY <2>1, <2>2, TotalAdd
  <2>4. f[x] \in Nat /\ Total(f, T) \in Nat /\ (Total(f, T) = 0 <=> \A y \in T : f[y] = 0) BY <1>2
  <2>5. Total(f, T \cup {x}) \in Nat /\ (Total(f, T \cup {x}) = 0 <=> f[x] = 0 /\ Total(f, T) = 0)
    BY <2>3, <2>4
  <2> QED BY <2>4, <2>5
<1> HIDE DEF P
<1>3. S \in P BY <1>1, <1>2, InductSet
<1> QED BY <1>3 DEF P

\* A sum over places that are filled by some things, one each, and count nothing elsewhere.
Places(e, f, X, g, I) ==
  /\ \A x \in X : e[x] \in I /\ g[e[x]] = f[x]
  /\ \A x, y \in X : e[x] = e[y] => x = y
  /\ \A i \in I : (\A x \in X : e[x] # i) => g[i] = 0

\* Its sum is that of the things that fill the places.
LEMMA TotalPlaces ==
  ASSUME NEW I, IsFiniteSet(I), NEW g, IntOn(g, I), NEW X, NEW f, NEW e, Places(e, f, X, g, I)
  PROVE  IsFiniteSet(X) /\ IntOn(f, X) /\ Total(f, X) = Total(g, I)
<1> USE DEF Places
<1>1. IsFiniteSet(X)
  <2> DEFINE k == [x \in X |-> e[x]]
  <2>1. k \in Injection(X, I) BY DEF Injection, IsInjective
  <2> QED BY <2>1, FS_Injection
<1>2. IntOn(f, X) BY DEF IntOn
<1> DEFINE Img(T) == {e[x] : x \in T}
           P == {T \in SUBSET X : Total(f, T) = Total(g, Img(T))}
<1>3. {} \in P
  <2>1. Img({}) = {} OBVIOUS
  <2> HIDE DEF Img
  <2> QED BY <2>1, TotalStarts
<1>4. \A T \in SUBSET X : Img(T) \subseteq I /\ IsFiniteSet(Img(T))
  <2> SUFFICES ASSUME NEW T \in SUBSET X PROVE Img(T) \subseteq I /\ IsFiniteSet(Img(T)) OBVIOUS
  <2>1. Img(T) \subseteq I OBVIOUS
  <2> HIDE DEF Img
  <2> QED BY <2>1, FS_Subset
<1>5. ASSUME NEW T \in SUBSET X, T \in P, NEW x \in X \ T PROVE T \cup {x} \in P
  <2>1. IsFiniteSet(T) /\ x \notin T BY <1>1, FS_Subset
  <2>2. IntOn(f, T \cup {x}) BY <1>2 DEF IntOn
  <2>3. Total(f, T \cup {x}) = f[x] + Total(f, T) BY <2>1, <2>2, TotalAdd
  <2>4. Img(T \cup {x}) = Img(T) \cup {e[x]} /\ e[x] \notin Img(T) OBVIOUS
  <2>5. IsFiniteSet(Img(T)) BY <1>4
  <2>6. Img(T) \subseteq I /\ e[x] \in I BY <1>4
  <2>7. Total(f, T) = Total(g, Img(T)) /\ g[e[x]] = f[x] BY <1>5
  <2> HIDE DEF Img
  <2>8. IntOn(g, Img(T) \cup {e[x]}) BY <2>6 DEF IntOn
  <2>9. Total(g, Img(T) \cup {e[x]}) = g[e[x]] + Total(g, Img(T))
    BY <2>4, <2>5, <2>8, TotalAdd
  <2> QED BY <2>3, <2>4, <2>7, <2>9
<1>6. X \in P
  <2> HIDE DEF P
  <2> QED BY <1>1, <1>3, <1>5, InductSet
<1> DEFINE J == Img(X)
           R == I \ J
<1>7. Total(f, X) = Total(g, J) BY <1>6
<1>8. J \subseteq I /\ IsFiniteSet(J) BY <1>4
<1>9. \A i \in R : g[i] = 0 OBVIOUS
<1> HIDE DEF Img, P, J
<1>10. J \cap R = {} /\ J \cup R = I BY <1>8
<1>11. IsFiniteSet(R) BY FS_Subset
<1>12. IntOn(g, J) /\ IntOn(g, R) BY <1>8 DEF IntOn
<1> HIDE DEF R
<1>13. Total(g, R) = 0
  <2>1. \A i \in R : g[i] \in Nat BY <1>9
  <2> QED BY <2>1, <1>9, <1>11, TotalSign
<1>14. Total(g, I) = Total(g, J) + Total(g, R)
  BY <1>8, <1>10, <1>11, <1>12, TotalUnion
<1>15. Total(g, J) \in Int BY <1>8, <1>12, TotalBy
<1> QED BY <1>1, <1>2, <1>7, <1>13, <1>14, <1>15

-----------------------------------------------------------------------------
(* The mapping *)

\* What is mapped has amounts, and they are added up.
Counted(S) == IsFiniteSet(S) /\ \A x \in S : x.amount \in Int
AmountsOf(S) == [x \in S |-> x.amount]

\* How TransactionMapping adds up amounts.
Amounted(s, g) == IF s = {} THEN 0 ELSE Choice(s).amount + g[s \ {Choice(s)}]
AddsAmounts(g, D) == g = [s \in D |-> Amounted(s, g)]

\* TotalOf is such a sum.
LEMMA SumUnfolds ==
  \A S : Mapping!TotalOf(S) = (CHOOSE g : AddsAmounts(g, SUBSET S))[S]
BY DEF Mapping!TotalOf, Mapping!MapThenSumSet, Mapping!MapThenFoldSet, AddsAmounts, Amounted, Choice

\* TotalOf is the sum of the amounts.
LEMMA SumIs ==
  ASSUME NEW S, Counted(S)
  PROVE  /\ IntOn(AmountsOf(S), S)
         /\ Mapping!TotalOf(S) = Total(AmountsOf(S), S)
<1> DEFINE f == AmountsOf(S)
           h == CHOOSE g : AddsAmounts(g, SUBSET S)
           k == CHOOSE g : Adds(g, f, SUBSET S)
<1>1. IsFiniteSet(S) /\ IntOn(f, S) BY DEF Counted, AmountsOf, IntOn
<1>2. \A s \in SUBSET S : s # {} => Choice(s) \in S /\ f[Choice(s)] = Choice(s).amount
  BY DEF Choice, AmountsOf
<1>3. \A g : AddsAmounts(g, SUBSET S) <=> Adds(g, f, SUBSET S)
  <2> SUFFICES ASSUME NEW g PROVE AddsAmounts(g, SUBSET S) <=> Adds(g, f, SUBSET S) OBVIOUS
  <2> HIDE DEF f
  <2>1. \A s \in SUBSET S : Amounted(s, g) = Added(g, f, s) BY <1>2 DEF Amounted, Added
  <2>2. [s \in SUBSET S |-> Amounted(s, g)] = [s \in SUBSET S |-> Added(g, f, s)] BY <2>1
  <2> QED BY <2>2 DEF AddsAmounts, Adds
<1> HIDE DEF f
<1>4. PICK g : Adds(g, f, SUBSET S) BY <1>1, AddsExists
<1>5. AddsAmounts(h, SUBSET S) /\ Adds(k, f, SUBSET S) BY <1>3, <1>4
<1> HIDE DEF h, k
<1>6. Adds(h, f, SUBSET S) /\ SameOn(f, f, S) /\ S \subseteq S BY <1>3, <1>5 DEF SameOn
<1>7. h[S] = k[S] BY <1>1, <1>5, <1>6, SameAdded
<1> QED BY <1>1, <1>7, SumUnfolds DEF h, k, Total, f

\* What is added up, in parts.
LEMMA SumOne ==
  ASSUME NEW x, x.amount \in Int
  PROVE  Counted({x}) /\ Mapping!TotalOf({x}) = x.amount
<1>1. Counted({x}) BY FS_Singleton DEF Counted
<1>2. AmountsOf({x})[x] = x.amount BY DEF AmountsOf
<1> QED BY <1>1, <1>2, SumIs, TotalOne

\* Nothing adds up to zero.
LEMMA SumNone == Counted({}) /\ Mapping!TotalOf({}) = 0
<1>1. Counted({}) BY FS_EmptySet DEF Counted
<1> QED BY <1>1, SumIs, TotalStarts

\* Two parts add up to the whole.
LEMMA SumUnion ==
  ASSUME NEW A, Counted(A), NEW B, Counted(B), A \cap B = {}
  PROVE  /\ Counted(A \cup B)
         /\ Mapping!TotalOf(A) \in Int /\ Mapping!TotalOf(B) \in Int
         /\ Mapping!TotalOf(A \cup B) = Mapping!TotalOf(A) + Mapping!TotalOf(B)
<1> DEFINE C == A \cup B
           f == AmountsOf(C)
<1>1. Counted(C) BY FS_Union DEF Counted
<1>2. SameOn(AmountsOf(A), f, A) /\ SameOn(AmountsOf(B), f, B) BY DEF SameOn, AmountsOf
<1>3. IsFiniteSet(A) /\ IsFiniteSet(B) BY DEF Counted
<1>4. IntOn(f, A) /\ IntOn(f, B) BY DEF Counted, IntOn, AmountsOf
<1> HIDE DEF C, f
<1>5. /\ Mapping!TotalOf(A) = Total(AmountsOf(A), A) /\ IntOn(AmountsOf(A), A)
      /\ Mapping!TotalOf(B) = Total(AmountsOf(B), B) /\ IntOn(AmountsOf(B), B)
      /\ Mapping!TotalOf(C) = Total(f, C)
  BY <1>1, SumIs DEF f
<1>6. Total(AmountsOf(A), A) = Total(f, A) /\ Total(AmountsOf(B), B) = Total(f, B)
  BY <1>2, <1>3, <1>5, TotalSame
<1>7. Total(f, A \cup B) = Total(f, A) + Total(f, B) BY <1>3, <1>4, TotalUnion
<1>8. Total(f, A) \in Int /\ Total(f, B) \in Int BY <1>3, <1>4, TotalBy
<1> QED BY <1>1, <1>5, <1>6, <1>7, <1>8 DEF C

\* What fills places is counted.
LEMMA SumPlaces ==
  ASSUME NEW I, IsFiniteSet(I), NEW g, IntOn(g, I), NEW X, NEW e, Places(e, AmountsOf(X), X, g, I)
  PROVE  Counted(X) /\ Mapping!TotalOf(X) = Total(g, I)
<1>1. IsFiniteSet(X) /\ IntOn(AmountsOf(X), X) /\ Total(AmountsOf(X), X) = Total(g, I)
  BY TotalPlaces
<1>2. Counted(X) BY <1>1 DEF Counted, IntOn, AmountsOf
<1> QED BY <1>1, <1>2, SumIs

\* What MappingAssumption says of a transaction.
ChainAccounts(t) ==
  /\ 1 \in DOMAIN t.keys /\ \A i, j \in DOMAIN t.keys : t.keys[i] = t.keys[j] => i = j
  /\ t.pre \in [DOMAIN t.keys -> Nat] /\ t.post \in [DOMAIN t.keys -> Nat]
  /\ t.fee \in Nat /\ t.signatures \in Nat /\ t.fee >= BaseFee * t.signatures
ChainTokens(t) ==
  /\ IsFiniteSet(t.tokensPre) /\ IsFiniteSet(t.tokensPost)
  /\ \A b \in t.tokensPre \cup t.tokensPost :
       b.mint \in DOMAIN Decimals /\ b.amount \in Nat /\ b.owner \in {NoOwner, t.owners[b.index]}
  /\ \A b, c \in t.tokensPre \cup t.tokensPost : b.index = c.index => b.mint = c.mint
  /\ \A b, c \in t.tokensPre : b.index = c.index => b = c
  /\ \A b, c \in t.tokensPost : b.index = c.index => b = c
ChainInstructions(t) ==
  IsFiniteSet(DOMAIN t.instructions) /\ \A k \in DOMAIN t.instructions : t.instructions[k].amount \in Nat

\* The chain gives such transactions.
LEMMA Chained ==
  ASSUME NEW t \in ChainTransactions
  PROVE  ChainAccounts(t) /\ ChainTokens(t) /\ ChainInstructions(t)
<1>1. ChainAccounts(t) BY MappingAssumption DEF ChainAccounts
<1>2. ChainTokens(t)
  <2> DEFINE tokens == t.tokensPre \cup t.tokensPost
  <2>1. IsFiniteSet(tokens) BY MappingAssumption
  <2>2. t.tokensPre \in SUBSET tokens /\ t.tokensPost \in SUBSET tokens OBVIOUS
  <2>3. IsFiniteSet(t.tokensPre) /\ IsFiniteSet(t.tokensPost)
    <3> HIDE DEF tokens
    <3> QED BY <2>1, <2>2, FS_Subset
  <2>4. /\ \A b \in tokens :
             b.mint \in DOMAIN Decimals /\ b.amount \in Nat /\ b.owner \in {NoOwner, t.owners[b.index]}
        /\ \A b, c \in tokens : b.index = c.index => b.mint = c.mint
    BY MappingAssumption
  <2>5. /\ \A b, c \in t.tokensPre : b.index = c.index => b = c
        /\ \A b, c \in t.tokensPost : b.index = c.index => b = c
    BY MappingAssumption
  <2> QED BY <2>3, <2>4, <2>5 DEF ChainTokens
<1>3. ChainInstructions(t)
  <2>1. t.instructions \in Seq(Range(t.instructions)) BY MappingAssumption
  <2>2. DOMAIN t.instructions = 1..Len(t.instructions) /\ Len(t.instructions) \in Nat BY <2>1
  <2>3. IsFiniteSet(DOMAIN t.instructions) BY <2>2, FS_Interval
  <2> QED BY <2>3, MappingAssumption DEF ChainInstructions
<1> QED BY <1>1, <1>2, <1>3

\* The fees add up to what the payer paid.
LEMMA FeesAddUp ==
  ASSUME NEW t, ChainAccounts(t)
  PROVE  Mapping!TotalOf(Mapping!Fees(t)) = t.fee
<1> DEFINE base == BaseFee * t.signatures
           b == [type |-> "base", amount |-> base]
           p == [type |-> "priority", amount |-> t.fee - base]
<1>1. base \in Nat /\ t.fee \in Nat /\ t.fee >= base
  <2>1. BaseFee \in Nat /\ t.signatures \in Nat /\ t.fee \in Nat /\ t.fee >= base
    BY MappingAssumption DEF ChainAccounts
  <2>2. \A m, n \in Nat : m * n \in Nat OBVIOUS
  <2> QED BY <2>1, <2>2
<1>2. Mapping!Fees(t) = {b} \cup (IF t.fee > base THEN {p} ELSE {}) BY DEF Mapping!Fees
<1>3. b.amount = base /\ p.amount = t.fee - base /\ b.type # p.type OBVIOUS
<1> HIDE DEF b, p, base
<1>4. Counted({b}) /\ Mapping!TotalOf({b}) = base
  <2>1. b.amount \in Int BY <1>1, <1>3
  <2>2. Counted({b}) /\ Mapping!TotalOf({b}) = b.amount BY <2>1, SumOne
  <2> QED BY <2>2, <1>3
<1>5. CASE t.fee > base
  <2>1. p.amount \in Int /\ {b} \cap {p} = {} BY <1>1, <1>3
  <2>2. Counted({p}) /\ Mapping!TotalOf({p}) = t.fee - base BY <1>3, <2>1, SumOne
  <2>3. Mapping!TotalOf({b} \cup {p}) = Mapping!TotalOf({b}) + Mapping!TotalOf({p})
    BY <1>4, <2>1, <2>2, SumUnion
  <2>4. Mapping!Fees(t) = {b} \cup {p} BY <1>2, <1>5
  <2>5. base + (t.fee - base) = t.fee BY <1>1
  <2> QED BY <1>4, <2>2, <2>3, <2>4, <2>5
<1>6. CASE ~ t.fee > base
  <2>1. Mapping!Fees(t) = {b} /\ t.fee = base BY <1>1, <1>2, <1>6
  <2> QED BY <1>4, <2>1
<1> QED BY <1>5, <1>6

\* What a function makes of a finite set.
LEMMA MadeOfFinite ==
  ASSUME NEW S, IsFiniteSet(S), NEW f
  PROVE  IsFiniteSet({f[x] : x \in S})
<1> DEFINE T == {f[x] : x \in S}
           g == [x \in S |-> f[x]]
<1>1. g \in Surjection(S, T) BY DEF Surjection
<1> HIDE DEF g, T
<1> QED BY <1>1, FS_Surjection DEF T

\* What an account sent to itself is on both sides, each entry of an instruction.
OfInstruction(S) == \A x \in S : \E k : x.at = <<"instruction", k>>
OfAccount(S) == \A x \in S : \E i : x.at = <<"account", i>>

\* No entry is of both.
LEMMA NoneOfBoth ==
  ASSUME NEW A, OfAccount(A), NEW B, OfInstruction(B)
  PROVE  A \cap B = {}
<1>1. \A i, k : <<"account", i>> # <<"instruction", k>> OBVIOUS
<1> QED BY <1>1 DEF OfAccount, OfInstruction

\* What was sent to itself is an entry of an instruction.
LEMMA SentToSelf ==
  ASSUME NEW t, ChainInstructions(t), ChainTokens(t)
  PROVE  /\ Counted(Mapping!NativeToSelf(t)) /\ OfInstruction(Mapping!NativeToSelf(t))
         /\ \A x \in Mapping!NativeToSelf(t) : x.asset = SOL
         /\ Counted(Mapping!TokensToSelf(t)) /\ OfInstruction(Mapping!TokensToSelf(t))
         /\ \A x \in Mapping!TokensToSelf(t) : x.asset \in DOMAIN Decimals
<1> DEFINE K == DOMAIN t.instructions
<1>1. IsFiniteSet(K) /\ (\A k \in K : t.instructions[k].amount \in Nat)
  BY DEF ChainInstructions
<1>2. Counted(Mapping!NativeToSelf(t)) /\ OfInstruction(Mapping!NativeToSelf(t))
      /\ \A x \in Mapping!NativeToSelf(t) : x.asset = SOL
  <2> DEFINE item(k) == Mapping!Item(<<"instruction", k>>, t.keys[t.instructions[k].accounts[1]], SOL,
                                     t.instructions[k].amount, Mapping!NativeScale)
             N == Mapping!NativeToSelf(t)
             f == [k \in K |-> item(k)]
             A == {f[k] : k \in K}
  <2>1. N \in SUBSET A BY DEF Mapping!NativeToSelf, Mapping!Instructions
  <2>3. \A x \in A : \E k \in K : x = item(k) OBVIOUS
  <2>2. IsFiniteSet(A)
    <3> HIDE DEF f, K
    <3> QED BY <1>1, MadeOfFinite
  <2>4. \A k \in K : item(k).at = <<"instruction", k>> /\ item(k).amount \in Int /\ item(k).asset = SOL
    BY <1>1 DEF Mapping!Item
  <2> HIDE DEF item, f, N, A
  <2>5. IsFiniteSet(N) BY <2>1, <2>2, FS_Subset
  <2>6. \A x \in N : x.amount \in Int /\ x.asset = SOL /\ \E k : x.at = <<"instruction", k>>
    BY <2>1, <2>3, <2>4
  <2> QED BY <2>5, <2>6 DEF N, Counted, OfInstruction
<1>3. Counted(Mapping!TokensToSelf(t)) /\ OfInstruction(Mapping!TokensToSelf(t))
      /\ \A x \in Mapping!TokensToSelf(t) : x.asset \in DOMAIN Decimals
  <2> DEFINE item(k, b) == Mapping!Item(<<"instruction", k>>, b.owner, b.mint, t.instructions[k].amount,
                                        Mapping!SelfTransferScale)
             D == K \X t.tokensPre
             N == Mapping!TokensToSelf(t)
             f == [p \in D |-> item(p[1], p[2])]
             A == {f[p] : p \in D}
  <2>1. \A x \in N : \E k \in K, b \in t.tokensPre : x = item(k, b)
    BY DEF Mapping!TokensToSelf, Mapping!Instructions
  <2>2. IsFiniteSet(D) BY <1>1, FS_Product DEF ChainTokens
  <2>3. \A k \in K, b \in t.tokensPre : <<k, b>> \in D /\ <<k, b>>[1] = k /\ <<k, b>>[2] = b OBVIOUS
  <2> HIDE DEF D
  <2>4. IsFiniteSet(A)
    <3> HIDE DEF f
    <3> QED BY <2>2, MadeOfFinite
  <2>5. N \in SUBSET A
    <3>1. \A k \in K, b \in t.tokensPre : f[<<k, b>>] = item(k, b) BY <2>3
    <3>2. \A k \in K, b \in t.tokensPre : f[<<k, b>>] \in A BY <2>3
    <3>3. \A k \in K, b \in t.tokensPre : item(k, b) \in A
      <4> HIDE DEF f, item, A
      <4> QED BY <3>1, <3>2
    <3> HIDE DEF item, A, N
    <3> QED BY <2>1, <3>3
  <2>6. \A k \in K, b \in t.tokensPre :
          /\ item(k, b).at = <<"instruction", k>> /\ item(k, b).amount \in Int
          /\ item(k, b).asset \in DOMAIN Decimals
    BY <1>1 DEF Mapping!Item, ChainTokens
  <2> HIDE DEF item, f, N, A
  <2>7. IsFiniteSet(N) BY <2>4, <2>5, FS_Subset
  <2>8. \A x \in N : x.amount \in Int /\ x.asset \in DOMAIN Decimals /\ \E k : x.at = <<"instruction", k>>
    BY <2>1, <2>6
  <2> QED BY <2>7, <2>8 DEF N, Counted, OfInstruction
<1> QED BY <1>2, <1>3

\* The items of an account and an asset.
OwnOf(items, a, asset) == {item \in Mapping!Own(items, a) : item.asset = asset}

\* What the lamports of an account became, and the item that tells.
Lamports(t, i) == t.post[i] - t.pre[i]
FeeOf(t, i) == IF i = 1 THEN t.fee ELSE 0
NativeItem(t, i) ==
  Mapping!Item(<<"account", i>>, t.keys[i], SOL,
               Mapping!Abs(t.pre[i] - t.post[i] - FeeOf(t, i)), Mapping!NativeScale)
ListedIf(condition, t, i) == IF condition THEN {NativeItem(t, i)} ELSE {}

\* Both sides of what is said of the lamports of an account.
NativeSides(t, a, from, to, change) ==
  /\ from = OwnOf(Mapping!NativeTransfers(t).from, a, SOL)
  /\ to = OwnOf(Mapping!NativeTransfers(t).to, a, SOL)
  /\ change = Mapping!Change(t, a, SOL)

\* Nothing but what it sent to itself is said of who is not named.
LEMMA NativeOfNobody ==
  ASSUME NEW t, ChainAccounts(t), NEW a, \A i \in DOMAIN t.keys : t.keys[i] # a
  PROVE  LET self == OwnOf(Mapping!NativeToSelf(t), a, SOL)
         IN  NativeSides(t, a, self, self, 0)
<1> DEFINE own == {i \in DOMAIN t.pre : t.keys[i] = a}
           lamports == {[account |-> i, amount |-> t.post[i] - t.pre[i]] : i \in own}
<1>1. DOMAIN t.pre = DOMAIN t.keys /\ 1 \in DOMAIN t.keys BY DEF ChainAccounts
<1>2. own = {} /\ lamports = {} /\ t.keys[1] # a BY <1>1
<1>3. Mapping!Change(t, a, SOL) = 0
  <2>1. Mapping!Change(t, a, SOL) = Mapping!TotalOf(lamports) + 0 BY <1>2 DEF Mapping!Change
  <2> HIDE DEF lamports, own
  <2> QED BY <1>2, <2>1, SumNone
<1>4. OwnOf(Mapping!NativeTransfers(t).from, a, SOL) = OwnOf(Mapping!NativeToSelf(t), a, SOL)
  BY <1>1 DEF OwnOf, Mapping!Own, Mapping!NativeTransfers, Mapping!Item
<1>5. OwnOf(Mapping!NativeTransfers(t).to, a, SOL) = OwnOf(Mapping!NativeToSelf(t), a, SOL)
  BY <1>1 DEF OwnOf, Mapping!Own, Mapping!NativeTransfers, Mapping!Item
<1> QED BY <1>3, <1>4, <1>5 DEF NativeSides

\* Of who is named, also how its lamports changed.
LEMMA NativeOfAccount ==
  ASSUME NEW t, ChainAccounts(t), NEW a, NEW i \in DOMAIN t.keys, t.keys[i] = a
  PROVE  LET self == OwnOf(Mapping!NativeToSelf(t), a, SOL)
             seen == t.pre[i] - t.post[i] - FeeOf(t, i) # 0
         IN  NativeSides(t, a, self \cup ListedIf(seen /\ t.pre[i] > t.post[i], t, i),
                         self \cup ListedIf(seen /\ t.pre[i] < t.post[i], t, i),
                         Lamports(t, i) + FeeOf(t, i))
<1> DEFINE own == {j \in DOMAIN t.pre : t.keys[j] = a}
           lamports == {[account |-> j, amount |-> t.post[j] - t.pre[j]] : j \in own}
           entry == [account |-> i, amount |-> t.post[i] - t.pre[i]]
           self == OwnOf(Mapping!NativeToSelf(t), a, SOL)
           seen == t.pre[i] - t.post[i] - FeeOf(t, i) # 0
<1>1. /\ DOMAIN t.pre = DOMAIN t.keys /\ 1 \in DOMAIN t.keys
      /\ \A j \in DOMAIN t.keys : t.keys[j] = a <=> j = i
      /\ t.pre[i] \in Nat /\ t.post[i] \in Nat /\ t.fee \in Nat
  BY DEF ChainAccounts
<1>2. own = {i} /\ lamports = {entry} /\ (t.keys[1] = a <=> i = 1) BY <1>1
<1>3. Mapping!Change(t, a, SOL) = Lamports(t, i) + FeeOf(t, i)
  <2>1. Mapping!Change(t, a, SOL) = Mapping!TotalOf(lamports) + FeeOf(t, i)
    BY <1>2 DEF Mapping!Change, FeeOf
  <2>2. entry.amount = Lamports(t, i) /\ entry.amount \in Int BY <1>1 DEF Lamports
  <2> HIDE DEF lamports, own, entry
  <2> QED BY <1>2, <2>1, <2>2, SumOne
<1>4. OwnOf({NativeItem(t, j) : j \in {j \in DOMAIN t.pre :
                    t.pre[j] - t.post[j] - FeeOf(t, j) # 0 /\ t.pre[j] > t.post[j]}}, a, SOL)
        = ListedIf(seen /\ t.pre[i] > t.post[i], t, i)
  BY <1>1 DEF OwnOf, Mapping!Own, NativeItem, Mapping!Item, ListedIf
<1>5. OwnOf({NativeItem(t, j) : j \in {j \in DOMAIN t.pre :
                    t.pre[j] - t.post[j] - FeeOf(t, j) # 0 /\ t.pre[j] < t.post[j]}}, a, SOL)
        = ListedIf(seen /\ t.pre[i] < t.post[i], t, i)
  BY <1>1 DEF OwnOf, Mapping!Own, NativeItem, Mapping!Item, ListedIf
<1>6. \A A, B : OwnOf(A \cup B, a, SOL) = OwnOf(B, a, SOL) \cup OwnOf(A, a, SOL)
  BY DEF OwnOf, Mapping!Own
<1>7. Mapping!NativeTransfers(t).from =
        {NativeItem(t, j) : j \in {j \in DOMAIN t.pre :
              t.pre[j] - t.post[j] - FeeOf(t, j) # 0 /\ t.pre[j] > t.post[j]}}
        \cup Mapping!NativeToSelf(t)
  BY DEF Mapping!NativeTransfers, NativeItem, FeeOf
<1>8. Mapping!NativeTransfers(t).to =
        {NativeItem(t, j) : j \in {j \in DOMAIN t.pre :
              t.pre[j] - t.post[j] - FeeOf(t, j) # 0 /\ t.pre[j] < t.post[j]}}
        \cup Mapping!NativeToSelf(t)
  BY DEF Mapping!NativeTransfers, NativeItem, FeeOf
<1> QED BY <1>3, <1>4, <1>5, <1>6, <1>7, <1>8 DEF NativeSides

\* What the lists say of an asset, from what they list beside what was sent to itself.
Net(from, to) == Mapping!TotalOf(to) - Mapping!TotalOf(from)
\* One side lists what was lost, the other what was won, and no more.
Tells(from, to, change) ==
  /\ to # {} <=> change > 0
  /\ from # {} <=> change < 0
  /\ to # {} => Mapping!TotalOf(to) = change

\* What one item, or none, adds to one of the sides.
LEMMA AddedToSide ==
  ASSUME NEW self, Counted(self), OfInstruction(self), NEW t, NEW i, NativeItem(t, i).amount \in Nat,
         NEW condition \in BOOLEAN
  PROVE  LET side == self \cup ListedIf(condition, t, i)
         IN  /\ Counted(side) /\ Mapping!TotalOf(side) \in Int
             /\ Mapping!TotalOf(side)
                  = Mapping!TotalOf(self) + (IF condition THEN NativeItem(t, i).amount ELSE 0)
<1> DEFINE x == NativeItem(t, i)
<1>1. Mapping!TotalOf(self) \in Int
  <2>1. self \cap {} = {} OBVIOUS
  <2> QED BY <2>1, SumNone, SumUnion
<1>2. CASE condition
  <2>1. x.amount \in Int /\ Counted({x}) /\ Mapping!TotalOf({x}) = x.amount BY SumOne
  <2>2. x.at = <<"account", i>> BY DEF NativeItem, Mapping!Item
  <2> HIDE DEF x
  <2>3. OfAccount({x}) BY <2>2 DEF OfAccount
  <2>4. self \cap {x} = {} BY <2>3, NoneOfBoth
  <2>5. /\ Counted(self \cup {x})
        /\ Mapping!TotalOf(self \cup {x}) = Mapping!TotalOf(self) + Mapping!TotalOf({x})
    BY <2>1, <2>4, SumUnion
  <2>6. self \cup ListedIf(condition, t, i) = self \cup {x} BY <1>2 DEF ListedIf, x
  <2>7. Mapping!TotalOf(self \cup {x}) \in Int BY <1>1, <2>1, <2>5
  <2>8. Mapping!TotalOf(self \cup {x}) = Mapping!TotalOf(self) + x.amount BY <2>1, <2>5
  <2>9. (IF condition THEN NativeItem(t, i).amount ELSE 0) = x.amount BY <1>2 DEF x
  <2> QED BY <1>1, <2>5, <2>6, <2>7, <2>8, <2>9
<1>3. CASE ~condition
  <2>1. self \cup ListedIf(condition, t, i) = self BY <1>3 DEF ListedIf
  <2> QED BY <1>1, <1>3, <2>1
<1> QED BY <1>2, <1>3

\* The items of an account are counted when all are.
LEMMA OwnCounted ==
  ASSUME NEW S, Counted(S), NEW a, NEW asset
  PROVE  Counted(OwnOf(S, a, asset)) /\ (OfInstruction(S) => OfInstruction(OwnOf(S, a, asset)))
<1>1. OwnOf(S, a, asset) \in SUBSET S BY DEF OwnOf, Mapping!Own
<1>2. IsFiniteSet(OwnOf(S, a, asset)) BY <1>1, FS_Subset DEF Counted
<1> QED BY <1>1, <1>2 DEF Counted, OfInstruction

\* The lamports: what the lists say is what happened.
NativeTrue(t, a) ==
  LET from == OwnOf(Mapping!NativeTransfers(t).from, a, SOL)
      to == OwnOf(Mapping!NativeTransfers(t).to, a, SOL)
      change == Mapping!Change(t, a, SOL)
  IN /\ change \in Int
     /\ Mapping!GainBelowFee(t, a) \/ Net(from, to) = change
     /\ Mapping!GainBelowFee(t, a) \/ Mapping!NativeToSelf(t) # {} \/ Tells(from, to, change)

\* For any transaction and any account.
LEMMA NativeIsTrue ==
  ASSUME NEW t, ChainAccounts(t), ChainInstructions(t), ChainTokens(t), NEW a
  PROVE  NativeTrue(t, a)
<1> DEFINE N == Mapping!NativeToSelf(t)
           self == OwnOf(N, a, SOL)
<1>1. Counted(self) /\ OfInstruction(self) BY SentToSelf, OwnCounted
<1>2. N = {} => self = {} BY DEF OwnOf, Mapping!Own
<1>3. Mapping!TotalOf(self) \in Int
  <2>1. self \cap {} = {} OBVIOUS
  <2> HIDE DEF self
  <2> QED BY <1>1, <2>1, SumNone, SumUnion
<1> HIDE DEF N, self
<1>4. CASE \A i \in DOMAIN t.keys : t.keys[i] # a
  <2>1. NativeSides(t, a, self, self, 0) BY <1>4, NativeOfNobody DEF self, N
  <2>2. Net(self, self) = 0 BY <1>3 DEF Net
  <2>3. N = {} => Tells(self, self, 0) BY <1>2 DEF Tells
  <2> QED BY <2>1, <2>2, <2>3 DEF NativeTrue, NativeSides, N
<1>5. CASE \E i \in DOMAIN t.keys : t.keys[i] = a
  <2>1. PICK i \in DOMAIN t.keys : t.keys[i] = a BY <1>5
  <2> DEFINE pre == t.pre[i] post == t.post[i] fee == FeeOf(t, i)
             seen == pre - post - fee # 0
             amount == NativeItem(t, i).amount
             change == Lamports(t, i) + fee
             from == self \cup ListedIf(seen /\ pre > post, t, i)
             to == self \cup ListedIf(seen /\ pre < post, t, i)
             sum == Mapping!TotalOf(self)
  <2>2. NativeSides(t, a, from, to, change) BY <2>1, NativeOfAccount DEF self, N
  <2>3. pre \in Nat /\ post \in Nat /\ fee \in Nat /\ t.fee \in Nat /\ (fee # 0 => i = 1 /\ fee = t.fee)
    BY DEF ChainAccounts, FeeOf
  <2>4. amount = Mapping!Abs(pre - post - fee) BY DEF NativeItem, Mapping!Item
  <2>5. change = (post - pre) + fee BY DEF Lamports
  <2>6. Mapping!GainBelowFee(t, a) <=> t.keys[1] = a /\ Mapping!Change(t, a, SOL) \in 1..t.fee
    BY DEF Mapping!GainBelowFee
  <2>7. Mapping!Change(t, a, SOL) = change BY <2>2 DEF NativeSides
  <2>8. Mapping!NativeToSelf(t) = {} => from = ListedIf(seen /\ pre > post, t, i)
                                        /\ to = ListedIf(seen /\ pre < post, t, i)
    BY <1>2 DEF N
  <2>9. ListedIf(seen /\ pre > post, t, i) # {} <=> seen /\ pre > post BY DEF ListedIf
  <2>10. ListedIf(seen /\ pre < post, t, i) # {} <=> seen /\ pre < post BY DEF ListedIf
  <2> HIDE DEF pre, post, fee, amount, change
  <2>11. amount \in Nat /\ amount = (IF pre - post - fee < 0 THEN -(pre - post - fee) ELSE pre - post - fee)
         /\ change \in Int
    BY <2>3, <2>4, <2>5 DEF Mapping!Abs
  <2>12. /\ Mapping!TotalOf(from) = sum + (IF seen /\ pre > post THEN amount ELSE 0)
         /\ Mapping!TotalOf(to) = sum + (IF seen /\ pre < post THEN amount ELSE 0)
         /\ sum \in Int
    <3>1. NativeItem(t, i).amount \in Nat BY <2>11 DEF amount
    <3> DEFINE more == seen /\ pre > post less == seen /\ pre < post
    <3>2. more \in BOOLEAN /\ less \in BOOLEAN OBVIOUS
    <3> HIDE DEF more, less
    <3>3. Mapping!TotalOf(self \cup ListedIf(more, t, i))
            = Mapping!TotalOf(self) + (IF more THEN NativeItem(t, i).amount ELSE 0)
      BY <1>1, <3>1, <3>2, AddedToSide
    <3>4. Mapping!TotalOf(self \cup ListedIf(less, t, i))
            = Mapping!TotalOf(self) + (IF less THEN NativeItem(t, i).amount ELSE 0)
      BY <1>1, <3>1, <3>2, AddedToSide
    <3> QED BY <1>3, <3>3, <3>4 DEF more, less, amount
  <2>13. change \in 1..t.fee /\ fee # 0 => Mapping!GainBelowFee(t, a)
    BY <2>1, <2>3, <2>6, <2>7
  <2>14. Mapping!NativeToSelf(t) = {} => sum = 0
    BY <1>2, SumNone DEF N
  <2>15. (~(change \in 1..t.fee /\ fee # 0)) => Net(from, to) = change
    <3> HIDE DEF from, to, sum
    <3>1. Net(from, to) = (IF seen /\ pre < post THEN amount ELSE 0) - (IF seen /\ pre > post THEN amount ELSE 0)
      BY <2>11, <2>12 DEF Net
    <3>2. (~(change \in 1..t.fee /\ fee # 0)) =>
             change = (IF seen /\ pre < post THEN amount ELSE 0) - (IF seen /\ pre > post THEN amount ELSE 0)
      BY <2>3, <2>5, <2>11
    <3> QED BY <3>1, <3>2
  <2>16. (~(change \in 1..t.fee /\ fee # 0)) =>
             (change > 0 <=> seen /\ pre < post) /\ (change < 0 <=> seen /\ pre > post)
             /\ (seen /\ pre < post => amount = change)
    BY <2>3, <2>5, <2>11
  <2>17. Mapping!NativeToSelf(t) = {} /\ (~(change \in 1..t.fee /\ fee # 0)) => Tells(from, to, change)
    <3> HIDE DEF seen, sum, from, to
    <3> QED BY <2>8, <2>9, <2>10, <2>11, <2>12, <2>14, <2>16 DEF Tells
  <2> HIDE DEF from, to, sum, seen
  <2> QED BY <2>2, <2>11, <2>13, <2>15, <2>17 DEF NativeTrue, NativeSides
<1> QED BY <1>4, <1>5

\* The balances of an account and a mint, and the token accounts they are of.
HeldBy(t, balances, a, mint) == {b \in balances : b.mint = mint /\ t.owners[b.index] = a}
PlacesOf(t, a, mint) == {b.index : b \in HeldBy(t, t.tokensPre \cup t.tokensPost, a, mint)}
BalanceAt(balances, i) == Mapping!TotalOf({b \in balances : b.index = i})

\* One balance for an index.
Balances(balances) ==
  /\ IsFiniteSet(balances) /\ \A b \in balances : b.amount \in Nat
  /\ \A b, c \in balances : b.index = c.index => b = c

\* The balance of an index is that of its entry.
LEMMA BalanceOfOne ==
  ASSUME NEW balances, Balances(balances), NEW i
  PROVE  /\ BalanceAt(balances, i) \in Nat
         /\ \A b \in balances : b.index = i => BalanceAt(balances, i) = b.amount
         /\ (\A b \in balances : b.index # i) => BalanceAt(balances, i) = 0
<1> DEFINE S == {b \in balances : b.index = i}
<1>1. CASE \E b \in balances : b.index = i
  <2>1. PICK b \in balances : b.index = i BY <1>1
  <2>2. S = {b} BY <2>1 DEF Balances
  <2>3. b.amount \in Nat BY <2>1 DEF Balances
  <2>4. b.amount \in Int BY <2>3
  <2>5. Mapping!TotalOf({b}) = b.amount BY <2>4, SumOne
  <2>6. BalanceAt(balances, i) = b.amount BY <2>2, <2>5 DEF BalanceAt
  <2>7. \A c \in balances : c.index = i => c = b BY <2>2
  <2> QED BY <2>1, <2>3, <2>6, <2>7
<1>2. CASE \A b \in balances : b.index # i
  <2>1. S = {} BY <1>2
  <2>2. BalanceAt(balances, i) = 0 BY <2>1, SumNone DEF BalanceAt
  <2> QED BY <1>2, <2>2
<1> QED BY <1>1, <1>2

\* A transaction names finitely many token accounts.
LEMMA PlacesFinite ==
  ASSUME NEW t, ChainTokens(t), NEW a, NEW mint
  PROVE  IsFiniteSet(PlacesOf(t, a, mint))
<1> DEFINE B == HeldBy(t, t.tokensPre \cup t.tokensPost, a, mint)
           f == [b \in B |-> b.index]
<1>1. IsFiniteSet(t.tokensPre \cup t.tokensPost) BY FS_Union DEF ChainTokens
<1>2. B \subseteq t.tokensPre \cup t.tokensPost BY DEF HeldBy
<1>3. IsFiniteSet(B) BY <1>1, <1>2, FS_Subset
<1>4. PlacesOf(t, a, mint) = {f[b] : b \in B} BY DEF PlacesOf
<1> HIDE DEF B, f
<1> QED BY <1>3, <1>4, MadeOfFinite

\* What an account holds of a mint, by token account.
LEMMA HeldSum ==
  ASSUME NEW t, ChainTokens(t), NEW a, NEW mint, NEW balances, Balances(balances),
         balances \subseteq t.tokensPre \cup t.tokensPost
  PROVE  LET g == [i \in PlacesOf(t, a, mint) |-> BalanceAt(balances, i)]
         IN  /\ IntOn(g, PlacesOf(t, a, mint))
             /\ Mapping!TotalOf(HeldBy(t, balances, a, mint)) = Total(g, PlacesOf(t, a, mint))
<1> DEFINE I == PlacesOf(t, a, mint)
           g == [i \in I |-> BalanceAt(balances, i)]
           X == HeldBy(t, balances, a, mint)
           e == [b \in X |-> b.index]
<1>1. IsFiniteSet(I) BY PlacesFinite
<1>2. IntOn(g, I) BY BalanceOfOne DEF IntOn
<1>3. \A b \in X : e[b] \in I /\ g[e[b]] = AmountsOf(X)[b]
  <2> TAKE b \in X
  <2>1. b \in balances /\ b \in HeldBy(t, t.tokensPre \cup t.tokensPost, a, mint) BY DEF HeldBy
  <2>2. b.index \in I BY <2>1 DEF PlacesOf
  <2>3. BalanceAt(balances, b.index) = b.amount BY <2>1, BalanceOfOne
  <2> QED BY <2>2, <2>3 DEF AmountsOf
<1>4. \A b, c \in X : e[b] = e[c] => b = c BY DEF HeldBy, Balances
<1>5. \A i \in I : (\A b \in X : e[b] # i) => g[i] = 0
  <2> TAKE i \in I
  <2> HAVE \A b \in X : e[b] # i
  <2>1. PICK c \in t.tokensPre \cup t.tokensPost : c.mint = mint /\ t.owners[c.index] = a /\ c.index = i
    BY DEF PlacesOf, HeldBy
  <2>2. \A b \in balances : b.index # i
    <3> SUFFICES ASSUME NEW b \in balances, b.index = i PROVE FALSE OBVIOUS
    <3>1. b.mint = mint BY <2>1 DEF ChainTokens
    <3>2. b \in X BY <2>1, <3>1 DEF HeldBy
    <3> QED BY <3>2
  <2> QED BY <2>2, BalanceOfOne
<1>6. Places(e, AmountsOf(X), X, g, I) BY <1>3, <1>4, <1>5 DEF Places
<1> HIDE DEF I, g, X, e
<1>7. Mapping!TotalOf(X) = Total(g, I) BY <1>1, <1>2, <1>6, SumPlaces
<1> QED BY <1>2, <1>7 DEF I, g, X

\* What is said of the token accounts, one item for each.
Details(t) == t.tokensPre \cup {b \in t.tokensPost : b.index \notin {c.index : c \in t.tokensPre}}
Movement(t, b) ==
  Mapping!Item(<<"account", b.index>>, b.owner, b.mint, Mapping!Abs(Mapping!TokenDiff(t, b.index)),
               Decimals[b.mint])
MovedOf(t, S) == {Movement(t, b) : b \in {b \in S : b.owner # NoOwner}}
Fewer(t) == {b \in Details(t) : Mapping!TokenDiff(t, b.index) < 0}
More(t) == {b \in Details(t) : Mapping!TokenDiff(t, b.index) > 0}

\* The two lists.
LEMMA TokenSides ==
  \A t : /\ Mapping!TokenTransfers(t).from = MovedOf(t, Fewer(t)) \cup Mapping!TokensToSelf(t)
         /\ Mapping!TokenTransfers(t).to = MovedOf(t, More(t)) \cup Mapping!TokensToSelf(t)
BY DEF Mapping!TokenTransfers, MovedOf, Fewer, More, Details, Movement

\* Every token account is listed once, with what it had before and has after.
LEMMA DetailsAre ==
  ASSUME NEW t, ChainTokens(t)
  PROVE  /\ Balances(t.tokensPre) /\ Balances(t.tokensPost)
         /\ Details(t) \subseteq t.tokensPre \cup t.tokensPost
         /\ \A b, c \in Details(t) : b.index = c.index => b = c
         /\ \A i : Mapping!TokenDiff(t, i) = BalanceAt(t.tokensPost, i) - BalanceAt(t.tokensPre, i)
         /\ \A i : Mapping!TokenDiff(t, i) \in Int
<1>1. Balances(t.tokensPre) /\ Balances(t.tokensPost) BY DEF Balances, ChainTokens
<1>2. Details(t) \subseteq t.tokensPre \cup t.tokensPost BY DEF Details
<1>3. \A b, c \in Details(t) : b.index = c.index => b = c BY DEF Details, ChainTokens
<1>4. \A i : Mapping!TokenDiff(t, i) = BalanceAt(t.tokensPost, i) - BalanceAt(t.tokensPre, i)
  BY DEF Mapping!TokenDiff, BalanceAt
<1>5. \A i : BalanceAt(t.tokensPost, i) \in Nat /\ BalanceAt(t.tokensPre, i) \in Nat
  BY <1>1, BalanceOfOne
<1>6. \A i : Mapping!TokenDiff(t, i) \in Int BY <1>4, <1>5
<1> QED BY <1>1, <1>2, <1>3, <1>4, <1>6

\* Whose every token account is listed.
LEMMA DetailAt ==
  ASSUME NEW t, ChainTokens(t), NEW a, NEW mint, NEW i \in PlacesOf(t, a, mint)
  PROVE  \E b \in Details(t) : b.index = i /\ b.mint = mint /\ t.owners[i] = a
<1>1. PICK c \in t.tokensPre \cup t.tokensPost : c.mint = mint /\ t.owners[c.index] = a /\ c.index = i
  BY DEF PlacesOf, HeldBy
<1>2. CASE \E b \in t.tokensPre : b.index = i
  <2>1. PICK b \in t.tokensPre : b.index = i BY <1>2
  <2>2. b.mint = mint BY <1>1, <2>1 DEF ChainTokens
  <2> QED BY <1>1, <2>1, <2>2 DEF Details
<1>3. CASE \A b \in t.tokensPre : b.index # i
  <2>1. c \in Details(t) BY <1>1, <1>3 DEF Details
  <2> QED BY <1>1, <2>1
<1> QED BY <1>2, <1>3

\* How much is said of a token account, by whether it is among those.
MuchOf(t, S, i) == IF \E b \in S : b.index = i THEN Mapping!Abs(Mapping!TokenDiff(t, i)) ELSE 0
AmountsAt(t, S, I) == [i \in I |-> MuchOf(t, S, i)]

\* An entry names its token account, its owner, its mint and the difference.
LEMMA MovementIs ==
  ASSUME NEW t, ChainTokens(t), NEW b \in Details(t)
  PROVE  /\ Movement(t, b).at = <<"account", b.index>>
         /\ Movement(t, b).address = b.owner /\ Movement(t, b).asset = b.mint
         /\ Movement(t, b).amount = Mapping!Abs(Mapping!TokenDiff(t, b.index))
         /\ Movement(t, b).amount \in Nat
<1>1. Mapping!TokenDiff(t, b.index) \in Int BY DetailsAre
<1>2. Mapping!Abs(Mapping!TokenDiff(t, b.index)) \in Nat BY <1>1 DEF Mapping!Abs
<1> QED BY <1>2 DEF Movement, Mapping!Item

\* What is said of the token accounts of an account, by token account.
LEMMA MovedSum ==
  ASSUME NEW t, ChainTokens(t), ~Mapping!Ownerless(t), NEW a, NEW mint,
         NEW S, S \subseteq Details(t)
  PROVE  LET I == PlacesOf(t, a, mint)
             X == OwnOf(MovedOf(t, S), a, mint)
         IN  /\ IntOn(AmountsAt(t, S, I), I) /\ Counted(X) /\ OfAccount(X)
             /\ Mapping!TotalOf(X) = Total(AmountsAt(t, S, I), I)
             /\ X # {} <=> \E i \in I : \E b \in S : b.index = i
<1> DEFINE I == PlacesOf(t, a, mint)
           X == OwnOf(MovedOf(t, S), a, mint)
           g == AmountsAt(t, S, I)
           e == [x \in X |-> x.at[2]]
<1>1. IsFiniteSet(I) BY PlacesFinite
<1>2. \A i : MuchOf(t, S, i) \in Nat
  <2>1. \A i : Mapping!TokenDiff(t, i) \in Int BY DetailsAre
  <2> QED BY <2>1 DEF MuchOf, Mapping!Abs
<1>3. IntOn(g, I) BY <1>2 DEF IntOn, AmountsAt
<1>4. \A b \in S : b.owner = t.owners[b.index] /\ b.owner # NoOwner /\ b \in Details(t)
                   /\ b \in t.tokensPre \cup t.tokensPost
  BY DetailsAre DEF ChainTokens, Mapping!Ownerless
<1>5. \A x \in X : \E b \in S : /\ x = Movement(t, b) /\ b.index \in I /\ x.at = <<"account", b.index>>
                                /\ x.amount = MuchOf(t, S, b.index)
  <2> TAKE x \in X
  <2>1. PICK b \in S : x = Movement(t, b) /\ x.address = a /\ x.asset = mint
    BY DEF OwnOf, Mapping!Own, MovedOf
  <2>2. b.owner = a /\ b.mint = mint /\ x.at = <<"account", b.index>>
        /\ x.amount = Mapping!Abs(Mapping!TokenDiff(t, b.index))
    BY <1>4, <2>1, MovementIs
  <2>3. b \in HeldBy(t, t.tokensPre \cup t.tokensPost, a, mint) BY <1>4, <2>2 DEF HeldBy
  <2>4. b.index \in I BY <2>3 DEF PlacesOf
  <2>5. x.amount = MuchOf(t, S, b.index) BY <2>2 DEF MuchOf
  <2> QED BY <2>1, <2>2, <2>4, <2>5
<1>6. \A b \in S : b.index \in I => Movement(t, b) \in X /\ Movement(t, b).at[2] = b.index
  <2> TAKE b \in S
  <2> HAVE b.index \in I
  <2>1. PICK c \in Details(t) : c.index = b.index /\ c.mint = mint /\ t.owners[b.index] = a
    BY DetailAt
  <2>2. b.mint = mint /\ b.owner = a BY <1>4, <2>1, DetailsAre
  <2>3. Movement(t, b).address = a /\ Movement(t, b).asset = mint /\ Movement(t, b).at[2] = b.index
    BY <1>4, <2>2, MovementIs
  <2>4. Movement(t, b) \in MovedOf(t, S) BY <1>4 DEF MovedOf
  <2> QED BY <2>3, <2>4 DEF OwnOf, Mapping!Own
<1>7. \A x \in X : e[x] \in I /\ g[e[x]] = AmountsOf(X)[x]
  <2> TAKE x \in X
  <2>1. PICK b \in S : b.index \in I /\ x.at = <<"account", b.index>> /\ x.amount = MuchOf(t, S, b.index)
    BY <1>5
  <2>2. e[x] = b.index BY <2>1
  <2>3. AmountsOf(X)[x] = x.amount BY DEF AmountsOf
  <2>4. g[b.index] = MuchOf(t, S, b.index) BY <2>1 DEF AmountsAt
  <2> QED BY <2>1, <2>2, <2>3, <2>4
<1>8. \A x, y \in X : e[x] = e[y] => x = y
  <2> TAKE x, y \in X
  <2> HAVE e[x] = e[y]
  <2>1. PICK b \in S : x = Movement(t, b) /\ x.at = <<"account", b.index>> BY <1>5
  <2>2. PICK c \in S : y = Movement(t, c) /\ y.at = <<"account", c.index>> BY <1>5
  <2>3. b.index = c.index BY <2>1, <2>2
  <2>4. b = c BY <1>4, <2>3, DetailsAre
  <2> QED BY <2>1, <2>2, <2>4
<1>9. \A i \in I : (\A x \in X : e[x] # i) => g[i] = 0
  <2> TAKE i \in I
  <2> HAVE \A x \in X : e[x] # i
  <2>1. \A b \in S : b.index # i BY <1>6
  <2> QED BY <2>1 DEF AmountsAt, MuchOf
<1>10. Places(e, AmountsOf(X), X, g, I) BY <1>7, <1>8, <1>9 DEF Places
<1>11. OfAccount(X) BY <1>5 DEF OfAccount
<1>12. X # {} <=> \E i \in I : \E b \in S : b.index = i BY <1>5, <1>6
<1> HIDE DEF I, g, X, e
<1>13. Counted(X) /\ Mapping!TotalOf(X) = Total(g, I) BY <1>1, <1>3, <1>10, SumPlaces
<1> QED BY <1>3, <1>11, <1>12, <1>13 DEF I, g, X

\* The tokens of a mint: what the lists say is what happened.
TokensTrue(t, a, mint) ==
  LET from == OwnOf(Mapping!TokenTransfers(t).from, a, mint)
      to == OwnOf(Mapping!TokenTransfers(t).to, a, mint)
      change == Mapping!Change(t, a, mint)
  IN /\ change \in Int
     /\ Net(from, to) = change
     /\ Mapping!TokensToSelf(t) # {} \/ Mapping!MovedWithin(t, a) \/ Tells(from, to, change)

\* What is said of the tokens is what each account got less, or more.
LEMMA SidesAt ==
  ASSUME NEW t, ChainTokens(t), NEW a, NEW mint
  PROVE  LET I == PlacesOf(t, a, mint)
         IN \A i \in I :
              /\ MuchOf(t, More(t), i) - MuchOf(t, Fewer(t), i) = Mapping!TokenDiff(t, i)
              /\ MuchOf(t, More(t), i) \in Nat /\ MuchOf(t, Fewer(t), i) \in Nat
              /\ (\E b \in More(t) : b.index = i) <=> Mapping!TokenDiff(t, i) > 0
              /\ (\E b \in Fewer(t) : b.index = i) <=> Mapping!TokenDiff(t, i) < 0
              /\ MuchOf(t, More(t), i) = 0 <=> ~ Mapping!TokenDiff(t, i) > 0
              /\ MuchOf(t, Fewer(t), i) = 0 <=> ~ Mapping!TokenDiff(t, i) < 0
<1> DEFINE I == PlacesOf(t, a, mint)
<1> SUFFICES ASSUME NEW i \in I
             PROVE  /\ MuchOf(t, More(t), i) - MuchOf(t, Fewer(t), i) = Mapping!TokenDiff(t, i)
                    /\ MuchOf(t, More(t), i) \in Nat /\ MuchOf(t, Fewer(t), i) \in Nat
                    /\ (\E b \in More(t) : b.index = i) <=> Mapping!TokenDiff(t, i) > 0
                    /\ (\E b \in Fewer(t) : b.index = i) <=> Mapping!TokenDiff(t, i) < 0
                    /\ MuchOf(t, More(t), i) = 0 <=> ~ Mapping!TokenDiff(t, i) > 0
                    /\ MuchOf(t, Fewer(t), i) = 0 <=> ~ Mapping!TokenDiff(t, i) < 0
  OBVIOUS
<1> DEFINE d == Mapping!TokenDiff(t, i)
<1>1. d \in Int BY DetailsAre
<1>2. PICK b \in Details(t) : b.index = i BY DetailAt
<1>3. (\E c \in More(t) : c.index = i) <=> d > 0 BY <1>2 DEF More
<1>4. (\E c \in Fewer(t) : c.index = i) <=> d < 0 BY <1>2 DEF Fewer
<1>5. MuchOf(t, More(t), i) = IF d > 0 THEN Mapping!Abs(d) ELSE 0 BY <1>3 DEF MuchOf
<1>6. MuchOf(t, Fewer(t), i) = IF d < 0 THEN Mapping!Abs(d) ELSE 0 BY <1>4 DEF MuchOf
<1>7. Mapping!Abs(d) = IF d < 0 THEN -d ELSE d BY DEF Mapping!Abs
<1> HIDE DEF d
<1>8. /\ MuchOf(t, More(t), i) - MuchOf(t, Fewer(t), i) = d
      /\ MuchOf(t, More(t), i) \in Nat /\ MuchOf(t, Fewer(t), i) \in Nat
      /\ MuchOf(t, More(t), i) = 0 <=> ~ d > 0
      /\ MuchOf(t, Fewer(t), i) = 0 <=> ~ d < 0
  BY <1>1, <1>5, <1>6, <1>7
<1> QED BY <1>3, <1>4, <1>8 DEF d

\* The change of a balance, by token account.
LEMMA ChangeSum ==
  ASSUME NEW t, ChainTokens(t), NEW a, NEW mint \in DOMAIN Decimals
  PROVE  LET I == PlacesOf(t, a, mint)
         IN  /\ Mapping!Change(t, a, mint) = Total([i \in I |-> Mapping!TokenDiff(t, i)], I)
             /\ Mapping!Change(t, a, mint) \in Int
<1> DEFINE I == PlacesOf(t, a, mint)
           d == [i \in I |-> Mapping!TokenDiff(t, i)]
           f == [i \in I |-> BalanceAt(t.tokensPost, i)]
           g == [i \in I |-> BalanceAt(t.tokensPre, i)]
<1>1. IsFiniteSet(I) BY PlacesFinite
<1>2. mint # SOL BY MappingAssumption
<1>3. Mapping!Change(t, a, mint) = Mapping!TotalOf(HeldBy(t, t.tokensPost, a, mint))
                                     - Mapping!TotalOf(HeldBy(t, t.tokensPre, a, mint))
  BY <1>2 DEF Mapping!Change, HeldBy
<1>4. IntOn(f, I) /\ Mapping!TotalOf(HeldBy(t, t.tokensPost, a, mint)) = Total(f, I)
  BY HeldSum, DetailsAre
<1>5. IntOn(g, I) /\ Mapping!TotalOf(HeldBy(t, t.tokensPre, a, mint)) = Total(g, I)
  BY HeldSum, DetailsAre
<1>6. \A i \in I : d[i] = f[i] - g[i] BY DetailsAre
<1> HIDE DEF I, d, f, g
<1>7. Total(d, I) = Total(f, I) - Total(g, I) BY <1>1, <1>4, <1>5, <1>6, TotalMinus
<1>8. Total(f, I) \in Int /\ Total(g, I) \in Int BY <1>1, <1>4, <1>5, TotalBy
<1>9. Mapping!Change(t, a, mint) = Total(d, I) BY <1>3, <1>4, <1>5, <1>7
<1>10. Total(d, I) \in Int BY <1>7, <1>8
<1> QED BY <1>9, <1>10 DEF d, I

\* For any transaction, any account and any mint.
LEMMA TokensAreTrue ==
  ASSUME NEW t, ChainTokens(t), ChainInstructions(t), ~Mapping!Ownerless(t),
         NEW a, NEW mint \in DOMAIN Decimals
  PROVE  TokensTrue(t, a, mint)
<1> DEFINE I == PlacesOf(t, a, mint)
           d == [i \in I |-> Mapping!TokenDiff(t, i)]
           f == AmountsAt(t, Fewer(t), I)
           g == AmountsAt(t, More(t), I)
           X == OwnOf(MovedOf(t, Fewer(t)), a, mint)
           Y == OwnOf(MovedOf(t, More(t)), a, mint)
           self == OwnOf(Mapping!TokensToSelf(t), a, mint)
           from == X \cup self
           to == Y \cup self
           change == Mapping!Change(t, a, mint)
<1>1. IsFiniteSet(I) BY PlacesFinite
<1>2. /\ IntOn(f, I) /\ Counted(X) /\ OfAccount(X) /\ Mapping!TotalOf(X) = Total(f, I)
      /\ X # {} <=> \E i \in I : \E b \in Fewer(t) : b.index = i
  <2>1. Fewer(t) \subseteq Details(t) BY DEF Fewer
  <2> QED BY <2>1, MovedSum
<1>3. /\ IntOn(g, I) /\ Counted(Y) /\ OfAccount(Y) /\ Mapping!TotalOf(Y) = Total(g, I)
      /\ Y # {} <=> \E i \in I : \E b \in More(t) : b.index = i
  <2>1. More(t) \subseteq Details(t) BY DEF More
  <2> QED BY <2>1, MovedSum
<1>4. Counted(self) /\ OfInstruction(self) BY SentToSelf, OwnCounted
<1>5. /\ from = OwnOf(Mapping!TokenTransfers(t).from, a, mint)
      /\ to = OwnOf(Mapping!TokenTransfers(t).to, a, mint)
  BY TokenSides DEF OwnOf, Mapping!Own
<1>6. change = Total(d, I) /\ change \in Int BY ChangeSum
<1>7. \A i \in I : d[i] = g[i] - f[i] BY SidesAt DEF AmountsAt
<1>8. \A i \in I : f[i] \in Nat /\ g[i] \in Nat /\ (f[i] = 0 <=> ~ d[i] < 0) /\ (g[i] = 0 <=> ~ d[i] > 0)
  BY SidesAt DEF AmountsAt
<1>9. (X # {} <=> \E i \in I : d[i] < 0) /\ (Y # {} <=> \E i \in I : d[i] > 0)
  BY <1>2, <1>3, SidesAt
<1>10. ~Mapping!MovedWithin(t, a) => \A i, j \in I : ~(d[i] < 0 /\ d[j] > 0)
  <2> SUFFICES ASSUME NEW i \in I, NEW j \in I, d[i] < 0, d[j] > 0 PROVE Mapping!MovedWithin(t, a)
    OBVIOUS
  <2> DEFINE own == {b \in t.tokensPre \cup t.tokensPost : t.owners[b.index] = a}
  <2>1. PICK b \in Details(t) : b.index = i /\ b.mint = mint /\ t.owners[i] = a BY DetailAt
  <2>2. PICK c \in Details(t) : c.index = j /\ c.mint = mint /\ t.owners[j] = a BY DetailAt
  <2>3. b \in own /\ c \in own BY <2>1, <2>2, DetailsAre
  <2>4. Mapping!TokenDiff(t, b.index) < 0 /\ Mapping!TokenDiff(t, c.index) > 0 BY <2>1, <2>2
  <2> QED BY <2>1, <2>2, <2>3, <2>4 DEF Mapping!MovedWithin
<1>11. Mapping!TokensToSelf(t) = {} => from = X /\ to = Y BY DEF OwnOf, Mapping!Own
<1> HIDE DEF d, f, g, I, X, Y, self, change
<1>12. Total(d, I) = Total(g, I) - Total(f, I) BY <1>1, <1>2, <1>3, <1>7, TotalMinus
<1>13. X \cap self = {} /\ Y \cap self = {} BY <1>2, <1>3, <1>4, NoneOfBoth
<1>14. /\ Mapping!TotalOf(X) \in Int /\ Mapping!TotalOf(self) \in Int
       /\ Mapping!TotalOf(from) = Mapping!TotalOf(X) + Mapping!TotalOf(self)
  BY <1>2, <1>4, <1>13, SumUnion
<1>15. /\ Mapping!TotalOf(Y) \in Int
       /\ Mapping!TotalOf(to) = Mapping!TotalOf(Y) + Mapping!TotalOf(self)
  BY <1>3, <1>4, <1>13, SumUnion
<1>16. Net(from, to) = change
  <2> HIDE DEF from, to
  <2> QED BY <1>2, <1>3, <1>6, <1>12, <1>14, <1>15 DEF Net
<1>17. /\ Total(f, I) \in Nat /\ (Total(f, I) = 0 <=> \A i \in I : f[i] = 0)
       /\ Total(g, I) \in Nat /\ (Total(g, I) = 0 <=> \A i \in I : g[i] = 0)
  BY <1>1, <1>8, TotalSign
<1>18. ASSUME \A i, j \in I : ~(d[i] < 0 /\ d[j] > 0) PROVE Tells(X, Y, change)
  <2>1. (X # {} <=> Total(f, I) # 0) /\ (Y # {} <=> Total(g, I) # 0) BY <1>8, <1>9, <1>17
  <2>2. X = {} \/ Y = {} BY <1>9, <1>18
  <2>3. change = Total(g, I) - Total(f, I) BY <1>6, <1>12
  <2> QED BY <1>3, <1>17, <2>1, <2>2, <2>3 DEF Tells
<1>19. Mapping!TokensToSelf(t) = {} /\ ~Mapping!MovedWithin(t, a) => Tells(from, to, change)
  BY <1>10, <1>11, <1>18
<1> HIDE DEF from, to
<1>20. change = Mapping!Change(t, a, mint) BY DEF change
<1> QED BY <1>5, <1>6, <1>16, <1>19, <1>20 DEF TokensTrue

\* The lists of a transaction that did not fail.
Sent(t) == Mapping!TokenTransfers(t).from \cup Mapping!NativeTransfers(t).from
Received(t) == Mapping!TokenTransfers(t).to \cup Mapping!NativeTransfers(t).to

\* Lamports and tokens are told apart.
LEMMA AssetsApart ==
  ASSUME NEW t, ChainAccounts(t), ChainTokens(t), ChainInstructions(t)
  PROVE  /\ \A x \in Mapping!NativeTransfers(t).from \cup Mapping!NativeTransfers(t).to : x.asset = SOL
         /\ \A x \in Mapping!TokenTransfers(t).from \cup Mapping!TokenTransfers(t).to :
              x.asset \in DOMAIN Decimals
<1>1. \A x \in Mapping!NativeToSelf(t) : x.asset = SOL BY SentToSelf
<1>2. \A x \in Mapping!TokensToSelf(t) : x.asset \in DOMAIN Decimals BY SentToSelf
<1>3. \A x \in Mapping!NativeTransfers(t).from \cup Mapping!NativeTransfers(t).to : x.asset = SOL
  BY <1>1 DEF Mapping!NativeTransfers, Mapping!Item
<1>4. \A S \in SUBSET Details(t) : \A x \in MovedOf(t, S) : x.asset \in DOMAIN Decimals
  <2>1. \A b \in Details(t) : b.mint \in DOMAIN Decimals BY DetailsAre DEF ChainTokens
  <2> QED BY <2>1, MovementIs DEF MovedOf
<1>5. Fewer(t) \in SUBSET Details(t) /\ More(t) \in SUBSET Details(t) BY DEF Fewer, More
<1>6. \A x \in Mapping!TokenTransfers(t).from \cup Mapping!TokenTransfers(t).to :
        x.asset \in DOMAIN Decimals
  BY <1>2, <1>4, <1>5, TokenSides
<1> QED BY <1>3, <1>6

\* What the lists say of an asset, from the list of its kind.
LEMMA ListsOf ==
  ASSUME NEW t, ChainAccounts(t), ChainTokens(t), ChainInstructions(t), NEW a
  PROVE  /\ OwnOf(Sent(t), a, SOL) = OwnOf(Mapping!NativeTransfers(t).from, a, SOL)
         /\ OwnOf(Received(t), a, SOL) = OwnOf(Mapping!NativeTransfers(t).to, a, SOL)
         /\ \A mint \in DOMAIN Decimals :
              /\ OwnOf(Sent(t), a, mint) = OwnOf(Mapping!TokenTransfers(t).from, a, mint)
              /\ OwnOf(Received(t), a, mint) = OwnOf(Mapping!TokenTransfers(t).to, a, mint)
         /\ \A x \in Sent(t) \cup Received(t) : x.asset \in DOMAIN Decimals \cup {SOL}
<1>1. SOL \notin DOMAIN Decimals BY MappingAssumption
<1>2. \A x \in Mapping!NativeTransfers(t).from \cup Mapping!NativeTransfers(t).to : x.asset = SOL
  BY AssetsApart
<1>3. \A x \in Mapping!TokenTransfers(t).from \cup Mapping!TokenTransfers(t).to :
        x.asset \in DOMAIN Decimals
  BY AssetsApart
<1> QED BY <1>1, <1>2, <1>3 DEF Sent, Received, OwnOf, Mapping!Own

\* What mapping a transaction that did not fail gives.
LEMMA MapIs ==
  ASSUME NEW t, NEW a, ~t.failed
  PROVE  LET m == Mapping!Map(t, a)
         IN  /\ m.status = "confirmed" /\ m.type = Mapping!Type(a, "confirmed", Sent(t), Received(t))
             /\ \A asset : /\ OwnOf(m.from, a, asset) = OwnOf(Sent(t), a, asset)
                           /\ OwnOf(m.to, a, asset) = OwnOf(Received(t), a, asset)
             /\ m.fees = IF m.type = "receive" THEN {} ELSE Mapping!Fees(t)
<1> DEFINE m == Mapping!Map(t, a)
           type == Mapping!Type(a, "confirmed", Sent(t), Received(t))
<1>1. /\ m.status = "confirmed" /\ m.type = type
      /\ m.from = IF type = "swap" THEN Mapping!Own(Sent(t), a) ELSE Sent(t)
      /\ m.to = IF type \in {"swap", "receive"} THEN Mapping!Own(Received(t), a) ELSE Received(t)
      /\ m.fees = IF type = "receive" THEN {} ELSE Mapping!Fees(t)
  BY DEF Mapping!Map, Mapping!Status, Sent, Received
<1>2. \A S, asset : OwnOf(Mapping!Own(S, a), a, asset) = OwnOf(S, a, asset)
  BY DEF OwnOf, Mapping!Own
<1> HIDE DEF m, type
<1>3. \A asset : /\ OwnOf(m.from, a, asset) = OwnOf(Sent(t), a, asset)
                 /\ OwnOf(m.to, a, asset) = OwnOf(Received(t), a, asset)
  BY <1>1, <1>2
<1> QED BY <1>1, <1>3 DEF m, type

\* A confirmed transaction shows what happened.
LEMMA MapTells ==
  ASSUME NEW t \in ChainTransactions, NEW a
  PROVE  Mapping!MappedTrueUnlessExcused(t, a)
<1> DEFINE m == Mapping!Map(t, a)
           from(asset) == OwnOf(m.from, a, asset)
           to(asset) == OwnOf(m.to, a, asset)
           payer == t.keys[1] = a
           sponsoredExcused == ~payer /\ m.type # "receive"
           receiptExcused == payer /\ m.type = "receive"
<1>1. m.status = "confirmed" <=> ~t.failed BY DEF Mapping!Map, Mapping!Status
<1>2. Mapping!MappedTrueUnlessExcused(t, a) <=>
        (m.status = "confirmed" =>
           /\ Mapping!GainBelowFee(t, a) \/ Net(from(SOL), to(SOL)) = Mapping!Change(t, a, SOL)
           /\ Mapping!Ownerless(t)
              \/ \A mint \in DOMAIN Decimals : Net(from(mint), to(mint)) = Mapping!Change(t, a, mint)
           /\ sponsoredExcused \/ receiptExcused
              \/ Mapping!TotalOf(m.fees) = (IF payer THEN t.fee ELSE 0))
  BY DEF Mapping!MappedTrueUnlessExcused, Net, OwnOf
<1>3. ChainAccounts(t) /\ ChainTokens(t) /\ ChainInstructions(t) BY Chained
<1> SUFFICES ASSUME ~t.failed
             PROVE  /\ Mapping!GainBelowFee(t, a) \/ Net(from(SOL), to(SOL)) = Mapping!Change(t, a, SOL)
                    /\ Mapping!Ownerless(t)
                       \/ \A mint \in DOMAIN Decimals :
                            Net(from(mint), to(mint)) = Mapping!Change(t, a, mint)
                    /\ sponsoredExcused \/ receiptExcused
                       \/ Mapping!TotalOf(m.fees) = (IF payer THEN t.fee ELSE 0)
  BY <1>1, <1>2
<1>4. /\ \A asset : /\ from(asset) = OwnOf(Sent(t), a, asset)
                    /\ to(asset) = OwnOf(Received(t), a, asset)
      /\ m.fees = IF m.type = "receive" THEN {} ELSE Mapping!Fees(t)
  BY MapIs
<1> HIDE DEF m
<1>5. Mapping!GainBelowFee(t, a) \/ Net(from(SOL), to(SOL)) = Mapping!Change(t, a, SOL)
  <2>1. from(SOL) = OwnOf(Mapping!NativeTransfers(t).from, a, SOL)
        /\ to(SOL) = OwnOf(Mapping!NativeTransfers(t).to, a, SOL)
    BY <1>3, <1>4, ListsOf
  <2>2. NativeTrue(t, a) BY <1>3, NativeIsTrue
  <2> QED BY <2>1, <2>2 DEF NativeTrue
<1>6. ASSUME ~Mapping!Ownerless(t), NEW mint \in DOMAIN Decimals
      PROVE  Net(from(mint), to(mint)) = Mapping!Change(t, a, mint)
  <2>1. from(mint) = OwnOf(Mapping!TokenTransfers(t).from, a, mint)
        /\ to(mint) = OwnOf(Mapping!TokenTransfers(t).to, a, mint)
    BY <1>3, <1>4, ListsOf
  <2>2. TokensTrue(t, a, mint) BY <1>3, <1>6, TokensAreTrue
  <2> QED BY <2>1, <2>2 DEF TokensTrue
<1>7. sponsoredExcused \/ receiptExcused \/ Mapping!TotalOf(m.fees) = (IF payer THEN t.fee ELSE 0)
  <2>1. Mapping!TotalOf(Mapping!Fees(t)) = t.fee BY <1>3, FeesAddUp
  <2>2. Mapping!TotalOf({}) = 0 BY SumNone
  <2> QED BY <1>4, <2>1, <2>2
<1> QED BY <1>5, <1>6, <1>7

\* Its type tells what happened.
LEMMA TypeTells ==
  ASSUME NEW t \in ChainTransactions, NEW a
  PROVE  Mapping!TypedTrueUnlessExcused(t, a)
<1> DEFINE m == Mapping!Map(t, a)
           from == Sent(t)
           to == Received(t)
           assets == DOMAIN Decimals \cup {SOL}
           change(asset) == Mapping!Change(t, a, asset)
           lost == {asset \in assets : change(asset) < 0}
           won == {asset \in assets : change(asset) > 0}
           paid == Mapping!PaidAnother(t, a)
           gave == lost \cup IF paid THEN {SOL} ELSE {}
           spam == Mapping!IsSpam(m, a)
<1>1. m.status = "confirmed" <=> ~t.failed BY DEF Mapping!Map, Mapping!Status
<1> DEFINE told == /\ m.type = "swap" <=> gave # {} /\ won # {}
                   /\ m.type = "send" => won = {}
                   /\ m.type = "receive" => gave = {}
                   /\ spam => gave = {} /\ change(SOL) \in 1..(SpamLimit - 1)
           excused == \/ Mapping!GainBelowFee(t, a) \/ Mapping!Ownerless(t)
                      \/ paid /\ change(SOL) >= 0
                      \/ Mapping!NativeToSelf(t) # {} \/ Mapping!TokensToSelf(t) # {}
                      \/ Mapping!MovedWithin(t, a)
<1>a. Mapping!TypedTrueUnlessExcused(t, a) <=> (m.status = "confirmed" /\ ~excused => told)
  BY DEF Mapping!TypedTrueUnlessExcused
<1> SUFFICES ASSUME ~t.failed, ~excused PROVE told
  BY <1>1, <1>a
<1>2. ChainAccounts(t) /\ ChainTokens(t) /\ ChainInstructions(t) BY Chained
<1>3. \A asset \in assets : /\ Tells(OwnOf(from, a, asset), OwnOf(to, a, asset), change(asset))
                            /\ change(asset) \in Int
  <2> TAKE asset \in assets
  <2>1. CASE asset = SOL
    <3>1. NativeTrue(t, a) BY <1>2, NativeIsTrue
    <3> QED BY <1>2, <2>1, <3>1, ListsOf DEF NativeTrue
  <2>2. CASE asset \in DOMAIN Decimals
    <3>1. TokensTrue(t, a, asset) BY <1>2, <2>2, TokensAreTrue
    <3> QED BY <1>2, <2>2, <3>1, ListsOf DEF TokensTrue
  <2> QED BY <2>1, <2>2
<1>3a. gave = lost
  <2>1. SOL \in assets /\ change(SOL) \in Int BY <1>3
  <2>2. paid => change(SOL) < 0 BY <2>1
  <2>3. paid => SOL \in lost BY <2>1, <2>2
  <2> HIDE DEF lost, paid
  <2> QED BY <2>3
<1>4. \A x \in from \cup to : x.asset \in assets BY <1>2, ListsOf
<1>5. /\ m.type = Mapping!Type(a, "confirmed", from, to) /\ m.status = "confirmed"
      /\ OwnOf(m.to, a, SOL) = OwnOf(to, a, SOL)
  BY MapIs
<1>6. spam <=> /\ m.type = "receive" \/ m.status = "failed"
               /\ OwnOf(m.to, a, SOL) # {}
               /\ Mapping!TotalOf(OwnOf(m.to, a, SOL)) < SpamLimit
  BY DEF Mapping!IsSpam, OwnOf
<1> HIDE DEF m, from, to, change, spam
<1>7. \A x \in Mapping!Own(from, a) : x \in OwnOf(from, a, x.asset) /\ x.asset \in assets
  BY <1>4 DEF OwnOf, Mapping!Own
<1>8. \A x \in Mapping!Own(to, a) : x \in OwnOf(to, a, x.asset) /\ x.asset \in assets
  BY <1>4 DEF OwnOf, Mapping!Own
<1>9. \A x \in Mapping!Own(from, a) : x.asset \in lost BY <1>3, <1>7 DEF Tells
<1>10. \A x \in Mapping!Own(to, a) : x.asset \in won BY <1>3, <1>8 DEF Tells
<1>11. \A asset \in lost : \E x \in Mapping!Own(from, a) : x.asset = asset
  <2> TAKE asset \in lost
  <2>1. OwnOf(from, a, asset) # {} BY <1>3 DEF Tells
  <2> QED BY <2>1 DEF OwnOf
<1>12. \A asset \in won : \E x \in Mapping!Own(to, a) : x.asset = asset
  <2> TAKE asset \in won
  <2>1. OwnOf(to, a, asset) # {} BY <1>3 DEF Tells
  <2> QED BY <2>1 DEF OwnOf
<1>13. \A asset : ~(asset \in lost /\ asset \in won) BY <1>3
<1>14. Mapping!Own(from, a) \subseteq from /\ Mapping!Own(to, a) \subseteq to BY DEF Mapping!Own
<1> HIDE DEF assets, lost, won, gave, paid
<1> DEFINE sender == Mapping!Own(from, a) # {}
           receiver == Mapping!Own(to, a) # {}
           toSelf == Mapping!Matched(from, to, a) /\ Mapping!Matched(to, from, a)
           known == from # {} /\ to # {}
<1>15. (sender <=> lost # {}) /\ (receiver <=> won # {}) BY <1>9, <1>10, <1>11, <1>12
<1>16. toSelf => lost = {} /\ won = {}
  <2>1. Mapping!Matched(from, to, a) => lost = {}
    BY <1>10, <1>11, <1>13, <1>14 DEF Mapping!Matched
  <2>2. Mapping!Matched(to, from, a) => won = {}
    BY <1>9, <1>12, <1>13, <1>14 DEF Mapping!Matched
  <2> QED BY <2>1, <2>2
<1>17. sender /\ receiver => known BY <1>14
<1>18. m.type = CASE ~known -> "unknown"
                  [] known /\ (toSelf \/ (sender /\ ~receiver)) -> "send"
                  [] known /\ ~toSelf /\ sender /\ receiver -> "swap"
                  [] known /\ ~toSelf /\ ~sender -> "receive"
  BY <1>5 DEF Mapping!Type
<1> HIDE DEF sender, receiver, toSelf, known
<1>19. /\ m.type = "swap" <=> sender /\ receiver /\ ~toSelf /\ known
       /\ m.type = "send" => toSelf \/ ~receiver
       /\ m.type = "receive" => ~sender
  BY <1>18
<1>20. spam => lost = {} /\ change(SOL) \in 1..(SpamLimit - 1)
  <2> SUFFICES ASSUME spam PROVE lost = {} /\ change(SOL) \in 1..(SpamLimit - 1) OBVIOUS
  <2>1. m.type = "receive" /\ OwnOf(to, a, SOL) # {} /\ Mapping!TotalOf(OwnOf(to, a, SOL)) < SpamLimit
    BY <1>5, <1>6
  <2>2. SOL \in assets BY DEF assets
  <2>3. change(SOL) > 0 /\ Mapping!TotalOf(OwnOf(to, a, SOL)) = change(SOL) /\ change(SOL) \in Int
    BY <1>3, <2>1, <2>2 DEF Tells
  <2>4. SpamLimit \in Int BY MappingAssumption
  <2> QED BY <1>15, <1>19, <2>1, <2>3, <2>4
<1> QED BY <1>3a, <1>15, <1>16, <1>17, <1>19, <1>20

-----------------------------------------------------------------------------
(* The instructions *)

\* Every instruction of a transaction that decodes is listed as what it is.
LEMMA Listing ==
  ASSUME NEW t \in Handed
  PROVE  View!ListedUnlessExcused(t)
<1> DEFINE given == t.instructions
           n == Len(given)
           parsed == View!ExtractInstructions(t)
           listed == [i \in DOMAIN parsed |-> View!Listed(parsed[i])]
<1>1. n \in Nat /\ DOMAIN given = 1..n
  BY HandedAssumption
<1> SUFFICES ASSUME t.as # "neither", t.lookups
             PROVE  /\ Len(listed) = n
                    /\ \A i \in DOMAIN given :
                         LET known == \E program \in DOMAIN View!Kinds :
                                        given[i].program = program /\ given[i].kind \in View!Kinds[program]
                             excused == given[i].program = "token2022"
                                          /\ given[i].kind = "InitializeMultisig2"
                         IN /\ listed[i].program = given[i].program
                            /\ IF known /\ given[i].complete
                               THEN listed[i].type = given[i].kind
                                    /\ (excused \/ listed[i].fields = given[i].kind)
                               ELSE listed[i].type = "Unknown" /\ listed[i].fields = "data"
  BY DEF View!ListedUnlessExcused
<1>2. parsed = [i \in 1..n |-> View!ParseInstruction(given[i])]
  BY <1>1 DEF View!ExtractInstructions, View!Decodes
<1>3. Len(listed) = n
  BY <1>1, <1>2
<1>4. ASSUME NEW i \in DOMAIN given
      PROVE  LET known == \E program \in DOMAIN View!Kinds :
                            given[i].program = program /\ given[i].kind \in View!Kinds[program]
                 excused == given[i].program = "token2022"
                              /\ given[i].kind = "InitializeMultisig2"
             IN /\ listed[i].program = given[i].program
                /\ IF known /\ given[i].complete
                   THEN listed[i].type = given[i].kind
                        /\ (excused \/ listed[i].fields = given[i].kind)
                   ELSE listed[i].type = "Unknown" /\ listed[i].fields = "data"
  <2>1. listed[i] = View!Listed(View!ParseInstruction(given[i]))
    BY <1>1, <1>2
  <2> DEFINE instruction == given[i]
             parser == View!ParserOf(instruction.program, instruction.kind)
             known == \E program \in DOMAIN View!Kinds :
                        instruction.program = program /\ instruction.kind \in View!Kinds[program]
  <2>2. CASE known /\ instruction.complete
    <3>1. View!ParseInstruction(instruction)
            = [type |-> instruction.kind, program |-> instruction.program, parser |-> <<parser>>]
      BY <2>2 DEF View!ParseInstruction
    <3>2. parser = instruction.kind
          \/ (instruction.program = "token2022" /\ instruction.kind = "InitializeMultisig2")
      BY DEF View!ParserOf
    <3>3. /\ listed[i].program = instruction.program /\ listed[i].type = instruction.kind
          /\ listed[i].fields = parser
      <4> HIDE DEF parser
      <4> QED BY <2>1, <3>1 DEF View!Listed
    <3> QED BY <2>2, <3>2, <3>3
  <2>3. CASE ~ (known /\ instruction.complete)
    <3>1. View!ParseInstruction(instruction)
            = [type |-> "Unknown", program |-> instruction.program, parser |-> <<>>]
      BY <2>3 DEF View!ParseInstruction
    <3>2. /\ listed[i].program = instruction.program /\ listed[i].type = "Unknown"
          /\ listed[i].fields = "data"
      BY <2>1, <3>1 DEF View!Listed
    <3> QED BY <2>3, <3>2
  <2> QED BY <2>2, <2>3
<1> QED BY <1>1, <1>3, <1>4

-----------------------------------------------------------------------------
(* What is asked *)

\* What is asked about is an input of the topic.
InputInv ==
  asked # <<>> =>
    /\ topic = "amounts" => \E s \in Situations, typed \in Typed : asked = <<s, typed>>
    /\ topic = "transport" =>
         \E outcomes \in [1..MaxAttempts -> [1..Urls -> Transport!Outcomes]] : asked = <<outcomes>>
    /\ topic = "messages" =>
         \E message \in Messages, estimate \in Estimates : asked = <<message, estimate>>
    /\ topic = "rates" =>
         \E prices \in PriceTables, spot \in SpotData : \E a, b, c \in DOMAIN prices :
           asked = <<prices, spot, a, b, c>>
    /\ topic = "mapping" => \E t \in ChainTransactions : asked = <<t>>
    /\ topic = "requests" =>
         \E scope \in Networks, request \in Asked : asked = <<scope, request>>
    /\ topic = "dialog" =>
         \E moment \in {"rendering", "rendered", "refreshing", "refreshed"},
            preferences \in SUBSET {"simulation", "validation"}, first, second \in ScanAnswers :
           asked = <<moment, preferences, first, second>>
    /\ topic = "instructions" => \E t \in Handed : asked = <<t>>

\* It is so at first, and every step keeps it.
LEMMA AlwaysInput == Spec => []InputInv
<1>1. Init => InputInv
  BY DEF Init, InputInv
<1>2. InputInv /\ [Next]_vars => InputInv'
  <2> SUFFICES ASSUME InputInv, [Next]_vars PROVE InputInv'
    OBVIOUS
  <2>1. CASE PriceStep \/ HistoryStep \/ UNCHANGED vars
    BY <2>1 DEF PriceStep, HistoryStep, vars, cvars, InputInv
  <2>2. CASE AskAmount \/ AskRate \/ AskInstructions
    BY <2>2 DEF AskAmount, AskRate, AskInstructions, Asking, InputInv
  <2>3. CASE AskTransport \/ AskMessage
    BY <2>3 DEF AskTransport, AskMessage, Asking, InputInv
  <2>4. CASE AskRequest \/ AskMapping
    BY <2>4 DEF AskRequest, AskMapping, Asking, InputInv
  <2>5. CASE AskDialog
    BY <2>5 DEF AskDialog, Asking, InputInv
  <2> QED BY <2>1, <2>2, <2>3, <2>4, <2>5 DEF Next
<1> QED BY <1>1, <1>2, PTL DEF Spec

\* An amount that the form or SendService accepts is executed and moves what was typed, to the
\* last unit the token has, unless a listed excuse applies; and the form, SendService and the
\* max button agree. For any fees, rents, units and balances.
THEOREM AcceptedAmounts == Spec => []AcceptedIsSendable
<1>1. InputInv => AcceptedIsSendable
  BY Sendable, Agree DEF InputInv, AcceptedIsSendable, AskedAbout
<1> QED BY <1>1, AlwaysInput, PTL

\* An RPC request is answered by the first response of any URL at any attempt, and fails only
\* when none of them responds; it asks nobody after that, reports once what went wrong, and
\* waits between attempts, never longer than the limit. For any number of attempts and URLs
\* (createSolanaRpc, the failover and the retrying transport).
THEOREM FirstAnswers == Spec => []AnsweredByTheFirst
<1>1. InputInv => AnsweredByTheFirst
  BY Answering DEF InputInv, AnsweredByTheFirst, AskedAbout
<1> QED BY <1>1, AlwaysInput, PTL

\* A message of a dapp is signed with a fee payer, a lifetime, a price and a limit of compute
\* units, and otherwise as it was handed over; preparing it again changes nothing, unless an
\* excuse listed in TransactionMessages applies. For any instructions (TransactionHelper).
THEOREM PreparesMessages == Spec => []Prepared
<1>1. InputInv => Prepared
  BY Preparing DEF InputInv, Prepared, AskedAbout
<1> QED BY <1>1, AlwaysInput, PTL

\* Conversion rates and market data of TokenPricesService agree, for any table of prices.
THEOREM RatesAgree == Spec => []ConversionsAgree
<1>1. InputInv => ConversionsAgree
  BY Agreeing DEF InputInv, ConversionsAgree, AskedAbout
<1> QED BY <1>1, AlwaysInput, PTL

\* A confirmed transaction shows an account what the chain did to its lamports and tokens, and
\* the fees it paid, unless an excuse listed in TransactionMapping applies. For any transaction
\* and account: what is listed is added up and compared with the balances (mapRpcTransaction).
THEOREM MapsTrue == Spec => []MappedTrue
<1>1. InputInv => MappedTrue
  BY MapTells DEF InputInv, MappedTrue, AskedAbout
<1> QED BY <1>1, AlwaysInput, PTL

\* A swap took one asset and gave another, a send gave nothing, a receipt took nothing, and
\* what is hidden as spam took nothing and brought a little SOL, unless an excuse listed in
\* TransactionMapping applies. For any transaction (evaluateTransactionType, isSpam).
THEOREM TypesTrue == Spec => []TypedTrue
<1>1. InputInv => TypedTrue
  BY TypeTells DEF InputInv, TypedTrue, AskedAbout
<1> QED BY <1>1, AlwaysInput, PTL

\* A request that resolves to an account is answered by it, as its dialog showed, with a
\* signature that verifies, unless an excuse listed in WalletRequests applies. For any accounts
\* and any texts (resolveAccountAddress, signMessage, signIn).
THEOREM SignsRequests == Spec => []SignedAsAsked
<1>1. InputInv => SignedAsAsked
  BY Signing DEF InputInv, SignedAsAsked, AskedAbout
<1> QED BY <1>1, AlwaysInput, PTL

\* The dialog of a transaction warns and lists the changes as the latest scan said, unless an
\* excuse listed in ConfirmationView applies. For any answers of the security alerts service
\* (scanTransaction, TransactionAlert, EstimatedChanges, refreshConfirmationEstimation).
THEOREM ShowsScans == Spec => []DialogTrue
<1>1. InputInv => DialogTrue
  BY Dialog DEF InputInv, DialogTrue, AskedAbout
<1> QED BY <1>1, AlwaysInput, PTL

\* The dialog lists every instruction of a transaction as what it is, for any instructions.
THEOREM ListsAll == Spec => []InstructionsListed
<1>1. InputInv => InstructionsListed
  BY Listing DEF InputInv, InstructionsListed, AskedAbout
<1> QED BY <1>1, AlwaysInput, PTL
=============================================================================
