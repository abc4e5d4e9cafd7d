----------------------------- MODULE PerfdProofs -----------------------------
(***************************************************************************)
(* Theorems about Perfd, for any capacities, options and forms of samples. *)
(* The refinement of SampleQueue rests on what NumbersOf lists: the places *)
(* of a metric's samples in their order. Listing states that without a     *)
(* choice, so that a sequence with one sample more or less can be compared *)
(* with the one before.                                                    *)
(***************************************************************************)
EXTENDS Perfd, SequenceTheorems, FiniteSetTheorems, TLAPS

Rank(s, m, p) == Cardinality({q \in Places(s, m) : q <= p})

\* f lists the places of metric m in s, the first one first.
Lists(f, k, s, m) ==
    /\ k \in Nat /\ f \in [1..k -> Places(s, m)]
    /\ \A i, j \in 1..k : i < j => f[i] < f[j]
    /\ \A p \in Places(s, m) : \E i \in 1..k : f[i] = p

LEMMA PlacesFinite ==
    ASSUME NEW s, Len(s) \in Nat, NEW m
    PROVE  /\ IsFiniteSet(Places(s, m)) /\ Cardinality(Places(s, m)) \in 0..Len(s)
           /\ Places(s, m) \subseteq 1..Len(s)
<1>1. Places(s, m) \subseteq 1..Len(s)
  BY DEF Places
<1>2. IsFiniteSet(1..Len(s)) /\ Cardinality(1..Len(s)) = Len(s)
  BY FS_Interval
<1>3. IsFiniteSet(Places(s, m)) /\ Cardinality(Places(s, m)) <= Cardinality(1..Len(s))
  BY <1>1, <1>2, FS_Subset
<1>4. Cardinality(Places(s, m)) \in Nat
  BY <1>3, FS_CardinalityType
<1>5. QED
  BY <1>1, <1>2, <1>3, <1>4

\* Of k in a row, i come up to the i-th.
LEMMA Prefix ==
    ASSUME NEW s, Len(s) \in Nat, NEW m, NEW f, NEW k, Lists(f, k, s, m), NEW i \in 1..k
    PROVE  Rank(s, m, f[i]) = i
<1> DEFINE up == {q \in Places(s, m) : q <= f[i]}
           g == [j \in 1..i |-> f[j]]
<1>0. k \in Nat /\ Places(s, m) \subseteq 1..Len(s)
  BY PlacesFinite DEF Lists
<1>1. \A j \in 1..k : f[j] \in Places(s, m) /\ f[j] \in Nat
  BY <1>0 DEF Lists
<1>2. \A j \in 1..i : j \in 1..k
  BY <1>0
<1>3. \A j \in 1..i : f[j] <= f[i]
  <2> TAKE j \in 1..i
  <2>1. j = i \/ j < i
    OBVIOUS
  <2>2. QED
    BY <2>1, <1>1, <1>2 DEF Lists
<1>4. \A j \in 1..i : f[j] \in up
  BY <1>1, <1>2, <1>3
<1>5. g \in [1..i -> up]
  BY <1>4
<1>6. \A a, b \in 1..i : g[a] = g[b] => a = b
  <2> SUFFICES ASSUME NEW a \in 1..i, NEW b \in 1..i, a # b PROVE f[a] # f[b]
    OBVIOUS
  <2>1. a < b \/ b < a
    OBVIOUS
  <2>2. QED
    BY <2>1, <1>1, <1>2 DEF Lists
<1>7. \A q \in up : \E j \in 1..i : g[j] = q
  <2> SUFFICES ASSUME NEW q \in up PROVE \E j \in 1..i : f[j] = q
    OBVIOUS
  <2>1. PICK j \in 1..k : f[j] = q
    BY DEF Lists
  <2>2. j <= i
    <3> SUFFICES ASSUME i < j PROVE FALSE
      BY <1>0
    <3>1. f[i] < f[j] /\ f[j] <= f[i]
      BY <2>1 DEF Lists
    <3>2. QED
      BY <3>1, <1>1
  <2>3. QED
    BY <2>1, <2>2
<1>8. g \in Bijection(1..i, up)
  <2> HIDE DEF g, up
  <2>1. g \in Injection(1..i, up) /\ g \in Surjection(1..i, up)
    BY <1>5, <1>6, <1>7 DEF Injection, Surjection, IsInjective
  <2>2. QED
    BY <2>1 DEF Bijection
<1>9. IsFiniteSet(1..i) /\ Cardinality(1..i) = i
  BY FS_Interval
<1>10. Cardinality(up) = i
  <2>1. ExistsBijection(1..i, up)
    BY <1>8 DEF ExistsBijection
  <2> HIDE DEF up
  <2>2. QED
    BY <1>9, <2>1, FS_Bijection
<1>11. QED
  BY <1>10 DEF Rank

\* A list of the places determines what NumbersOf returns.
LEMMA Listed ==
    ASSUME NEW s, Len(s) \in Nat, NEW m, NEW f, NEW k, Lists(f, k, s, m)
    PROVE  NumbersOf(s, m) = [i \in 1..k |-> s[f[i]].n]
<1>0. k \in Nat /\ Places(s, m) \subseteq 1..Len(s)
  BY PlacesFinite DEF Lists
<1>1. \A j \in 1..k : f[j] \in Places(s, m) /\ f[j] \in Nat
  BY <1>0 DEF Lists
<1>2. Cardinality(Places(s, m)) = k
  <2>1. \A a, b \in 1..k : f[a] = f[b] => a = b
    <3> SUFFICES ASSUME NEW a \in 1..k, NEW b \in 1..k, a # b PROVE f[a] # f[b]
      OBVIOUS
    <3>1. a < b \/ b < a
      BY <1>0
    <3>2. QED
      BY <3>1, <1>1 DEF Lists
  <2>2. f \in Injection(1..k, Places(s, m)) /\ f \in Surjection(1..k, Places(s, m))
    BY <2>1 DEF Lists, Injection, Surjection, IsInjective
  <2>3. ExistsBijection(1..k, Places(s, m))
    BY <2>2 DEF Bijection, ExistsBijection
  <2>4. IsFiniteSet(1..k) /\ Cardinality(1..k) = k
    BY <1>0, FS_Interval
  <2>5. QED
    BY <2>3, <2>4, FS_Bijection
<1>3. ASSUME NEW i \in 1..k
      PROVE  (CHOOSE p \in Places(s, m) : Rank(s, m, p) = i) = f[i]
  <2>1. f[i] \in Places(s, m) /\ Rank(s, m, f[i]) = i
    BY <1>1, Prefix
  <2>2. ASSUME NEW p \in Places(s, m), Rank(s, m, p) = i PROVE p = f[i]
    <3>1. PICK j \in 1..k : f[j] = p
      BY DEF Lists
    <3>2. Rank(s, m, p) = j
      BY <3>1, Prefix
    <3>3. QED
      BY <3>1, <3>2, <2>2
  <2>3. QED
    BY <2>1, <2>2
<1>4. NumbersOf(s, m) =
          [i \in 1..k |-> s[CHOOSE p \in Places(s, m) : Rank(s, m, p) = i].n]
  BY <1>2 DEF NumbersOf, Rank
<1>5. QED
  BY <1>3, <1>4
LEMMA RankGrows ==
    ASSUME NEW s, Len(s) \in Nat, NEW m, NEW p \in Places(s, m)
    PROVE  /\ Rank(s, m, p) \in 1..Cardinality(Places(s, m))
           /\ \A q \in Places(s, m) : q < p => Rank(s, m, q) < Rank(s, m, p)
<1> DEFINE Up(x) == {y \in Places(s, m) : y <= x}
<1>0. /\ IsFiniteSet(Places(s, m)) /\ Cardinality(Places(s, m)) \in Nat
      /\ \A x \in Places(s, m) : x \in Nat
  BY PlacesFinite
<1>1. ASSUME NEW x \in Places(s, m)
      PROVE  /\ IsFiniteSet(Up(x)) /\ Rank(s, m, x) = Cardinality(Up(x))
             /\ Rank(s, m, x) \in Nat
  BY <1>0, FS_Subset, FS_CardinalityType DEF Rank
<1>2. Rank(s, m, p) <= Cardinality(Places(s, m))
  BY <1>0, FS_Subset DEF Rank
<1>3. Rank(s, m, p) # 0
  <2>1. p \in Up(p)
    BY <1>0
  <2> HIDE DEF Up
  <2>2. QED
    BY <2>1, <1>1, FS_EmptySet
<1>4. ASSUME NEW q \in Places(s, m), q < p PROVE Rank(s, m, q) < Rank(s, m, p)
  <2>1. Up(q) \subseteq Up(p) /\ p \in Up(p) /\ p \notin Up(q)
    BY <1>0, <1>4
  <2> HIDE DEF Up
  <2>2. Cardinality(Up(q)) <= Cardinality(Up(p)) /\ Cardinality(Up(q)) # Cardinality(Up(p))
    BY <2>1, <1>1, FS_Subset
  <2>3. QED
    BY <2>2, <1>1
<1>5. Rank(s, m, p) \in 1..Cardinality(Places(s, m))
  <2>1. Rank(s, m, p) \in Nat
    BY <1>1
  <2>2. QED
    BY <2>1, <1>0, <1>2, <1>3
<1>6. QED
  BY <1>4, <1>5

\* The places of a metric can be listed.
LEMMA Listing ==
    ASSUME NEW s, Len(s) \in Nat, NEW m
    PROVE  \E f : Lists(f, Cardinality(Places(s, m)), s, m)
<1> DEFINE k == Cardinality(Places(s, m))
           rank == [p \in Places(s, m) |-> Rank(s, m, p)]
           f == [i \in 1..k |-> CHOOSE p \in Places(s, m) : Rank(s, m, p) = i]
<1>0. /\ IsFiniteSet(Places(s, m)) /\ k \in Nat
      /\ \A x \in Places(s, m) : x \in Nat
  BY PlacesFinite
<1>1. rank \in Injection(Places(s, m), 1..k)
  <2>1. rank \in [Places(s, m) -> 1..k]
    BY RankGrows
  <2>2. \A p, q \in Places(s, m) : rank[p] = rank[q] => p = q
    <3> SUFFICES ASSUME NEW p \in Places(s, m), NEW q \in Places(s, m), p # q
                 PROVE  Rank(s, m, p) # Rank(s, m, q)
      OBVIOUS
    <3>1. p < q \/ q < p
      BY <1>0
    <3>2. Rank(s, m, p) \in Nat /\ Rank(s, m, q) \in Nat
      BY RankGrows
    <3>3. QED
      BY <3>1, <3>2, RankGrows
  <2> HIDE DEF rank
  <2>3. QED
    BY <2>1, <2>2 DEF Injection, IsInjective
<1>2. rank \in Surjection(Places(s, m), 1..k)
  <2>1. IsFiniteSet(1..k) /\ Cardinality(1..k) = k
    BY <1>0, FS_Interval
  <2> HIDE DEF rank
  <2>2. QED
    BY <1>1, <2>1, FS_Injection
<1>3. \A i \in 1..k : \E p \in Places(s, m) : Rank(s, m, p) = i
  BY <1>2 DEF Surjection
<1>4. \A i \in 1..k : f[i] \in Places(s, m) /\ Rank(s, m, f[i]) = i
  BY <1>3
<1>5. \A i, j \in 1..k : i < j => f[i] < f[j]
  <2> SUFFICES ASSUME NEW i \in 1..k, NEW j \in 1..k, i < j, ~(f[i] < f[j]) PROVE FALSE
    OBVIOUS
  <2> HIDE DEF f
  <2>1. f[i] \in Nat /\ f[j] \in Nat
    BY <1>0, <1>4
  <2>2. f[j] < f[i] \/ f[i] = f[j]
    BY <2>1
  <2>3. CASE f[j] < f[i]
    <3>1. Rank(s, m, f[j]) < Rank(s, m, f[i])
      BY <2>3, <1>4, RankGrows
    <3>2. QED
      BY <3>1, <1>4, <1>0
  <2>4. CASE f[i] = f[j]
    BY <2>4, <1>4, <1>0
  <2>5. QED
    BY <2>2, <2>3, <2>4
<1>6. ASSUME NEW p \in Places(s, m) PROVE \E i \in 1..k : f[i] = p
  <2>1. Rank(s, m, p) \in 1..k
    BY RankGrows
  <2> DEFINE i == Rank(s, m, p)
  <2>2. f[i] \in Places(s, m) /\ Rank(s, m, f[i]) = i
    BY <2>1, <1>4
  <2>3. f[i] = p
    <3> HIDE DEF f
    <3>1. ~(f[i] < p) /\ ~(p < f[i])
      <4>1. f[i] < p => Rank(s, m, f[i]) < Rank(s, m, p)
        BY <2>2, RankGrows
      <4>2. p < f[i] => Rank(s, m, p) < Rank(s, m, f[i])
        BY <2>2, RankGrows
      <4>3. QED
        BY <4>1, <4>2, <2>2, <2>1, <1>0
    <3>2. QED
      BY <3>1, <2>2, <1>0
  <2>4. QED
    BY <2>1, <2>3
<1>7. f \in [1..k -> Places(s, m)]
  BY <1>4
<1>8. Lists(f, k, s, m)
  <2> HIDE DEF f, k
  <2>1. QED
    BY <1>0, <1>5, <1>6, <1>7 DEF Lists
<1>9. QED
  BY <1>8

\* One sample more at the end.
LEMMA NumbersAppend ==
    ASSUME NEW S, NEW s \in Seq(S), NEW v \in S, NEW m
    PROVE  NumbersOf(s \o <<v>>, m) =
               IF v.metric = m THEN Append(NumbersOf(s, m), v.n) ELSE NumbersOf(s, m)
<1> DEFINE t == s \o <<v>>
           k == Cardinality(Places(s, m))
<1>0. /\ Len(s) \in Nat /\ t \in Seq(S) /\ Len(t) = Len(s) + 1 /\ t[Len(s) + 1] = v
      /\ \A i \in 1..Len(s) : t[i] = s[i]
  OBVIOUS
<1>1. PICK f : Lists(f, k, s, m)
  BY <1>0, Listing
<1>2. NumbersOf(s, m) = [i \in 1..k |-> s[f[i]].n]
  BY <1>0, <1>1, Listed
<1>3. Places(s, m) \subseteq 1..Len(s)
  BY <1>0, PlacesFinite
<1>4. k \in Nat /\ f \in [1..k -> 1..Len(s)] /\ \A i \in 1..k : f[i] \in Places(s, m)
  BY <1>1, <1>3 DEF Lists
<1>5. \A p : p \in Places(t, m) <=> p \in Places(s, m) \/ (p = Len(s) + 1 /\ v.metric = m)
  <2> HIDE DEF t
  <2>1. QED
    BY <1>0 DEF Places
<1>6. CASE v.metric # m
  <2>1. Lists(f, k, t, m)
    <3>1. Places(t, m) = Places(s, m)
      BY <1>5, <1>6
    <3>2. QED
      BY <3>1, <1>1 DEF Lists
  <2>2. NumbersOf(t, m) = [i \in 1..k |-> t[f[i]].n]
    <3> HIDE DEF t, k
    <3>1. QED
      BY <1>0, <2>1, Listed
  <2>3. \A i \in 1..k : t[f[i]] = s[f[i]]
    BY <1>0, <1>4
  <2> HIDE DEF t, k
  <2>4. [i \in 1..k |-> t[f[i]].n] = [i \in 1..k |-> s[f[i]].n]
    BY <2>3
  <2>5. NumbersOf(t, m) = NumbersOf(s, m)
    BY <1>2, <2>2, <2>4
  <2>6. QED
    BY <2>5, <1>6 DEF t
<1>7. CASE v.metric = m
  <2> DEFINE g == [i \in 1..k + 1 |-> IF i <= k THEN f[i] ELSE Len(s) + 1]
  <2>1. Lists(g, k + 1, t, m)
    <3> HIDE DEF t, k
    <3>1. g \in [1..k + 1 -> Places(t, m)]
      <4>1. \A i \in 1..k + 1 : g[i] \in Places(t, m)
        BY <1>4, <1>5, <1>7
      <4>2. QED
        BY <4>1
    <3>2. \A i, j \in 1..k + 1 : i < j => g[i] < g[j]
      <4> SUFFICES ASSUME NEW i \in 1..k + 1, NEW j \in 1..k + 1, i < j PROVE g[i] < g[j]
        OBVIOUS
      <4>1. i \in 1..k /\ g[i] = f[i] /\ f[i] \in 1..Len(s)
        BY <1>4
      <4>2. CASE j = k + 1
        <5>1. g[j] = Len(s) + 1
          BY <4>2, <1>4
        <5>2. QED
          BY <5>1, <4>1, <1>0
      <4>3. CASE j # k + 1
        <5>1. j \in 1..k /\ g[j] = f[j]
          BY <4>3, <1>4
        <5>2. f[i] < f[j]
          BY <4>1, <5>1, <1>1 DEF Lists
        <5>3. QED
          BY <4>1, <5>1, <5>2
      <4>4. QED
        BY <4>2, <4>3
    <3>3. ASSUME NEW p \in Places(t, m) PROVE \E i \in 1..k + 1 : g[i] = p
      <4>1. CASE p \in Places(s, m)
        <5>1. PICK i \in 1..k : f[i] = p
          BY <4>1, <1>1 DEF Lists
        <5>2. i \in 1..k + 1 /\ g[i] = f[i]
          BY <1>4
        <5>3. QED
          BY <5>1, <5>2
      <4>2. CASE p = Len(s) + 1
        <5>1. k + 1 \in 1..k + 1 /\ g[k + 1] = Len(s) + 1
          BY <1>4
        <5>2. QED
          BY <4>2, <5>1
      <4>3. QED
        BY <4>1, <4>2, <1>5
    <3>4. k + 1 \in Nat
      BY <1>4
    <3> HIDE DEF g
    <3>5. QED
      BY <3>1, <3>2, <3>3, <3>4 DEF Lists
  <2>2. NumbersOf(t, m) = [i \in 1..k + 1 |-> t[g[i]].n]
    <3> DEFINE k1 == k + 1
    <3>1. Lists(g, k1, t, m) /\ Len(t) \in Nat
      BY <2>1, <1>0
    <3> HIDE DEF g, t, k1
    <3>2. NumbersOf(t, m) = [i \in 1..k1 |-> t[g[i]].n]
      BY <3>1, Listed
    <3>3. QED
      BY <3>2 DEF k1
  <2>3. ASSUME NEW i \in 1..k + 1
        PROVE  t[g[i]] = IF i <= k THEN s[f[i]] ELSE v
    <3> HIDE DEF t, k
    <3>1. i <= k => i \in 1..k /\ g[i] = f[i]
      BY <1>4
    <3>2. i <= k => t[f[i]] = s[f[i]]
      BY <3>1, <1>0, <1>4
    <3>3. ~(i <= k) => g[i] = Len(s) + 1
      BY <1>4
    <3> HIDE DEF g
    <3>4. QED
      BY <3>1, <3>2, <3>3, <1>0
  <2> HIDE DEF t, g, k
  <2>4. Append([i \in 1..k |-> s[f[i]].n], v.n) =
            [i \in 1..k + 1 |-> IF i <= k THEN s[f[i]].n ELSE v.n]
    <3> DEFINE u == [i \in 1..k |-> s[f[i]].n]
    <3>1. u \in [1..k -> {u[i] : i \in 1..k}] /\ \A i \in 1..k : u[i] = s[f[i]].n
      OBVIOUS
    <3> HIDE DEF u
    <3>2. u \in Seq({u[i] : i \in 1..k}) /\ Len(u) = k
      <4> DEFINE X == {u[i] : i \in 1..k}
      <4>1. u \in [1..k -> X] /\ k \in Nat
        BY <3>1, <1>4
      <4> HIDE DEF X
      <4>2. u \in Seq(X) /\ Len(u) = k
        BY <4>1
      <4>3. QED
        BY <4>2 DEF X
    <3>3. Append(u, v.n) = [i \in 1..k + 1 |-> IF i <= k THEN u[i] ELSE v.n]
      BY <3>2, <1>4
    <3>4. QED
      BY <3>1, <3>3, <1>4 DEF u
  <2>5. NumbersOf(t, m) = [i \in 1..k + 1 |-> IF i <= k THEN s[f[i]].n ELSE v.n]
    BY <2>2, <2>3
  <2>6. NumbersOf(t, m) = Append(NumbersOf(s, m), v.n)
    BY <2>4, <2>5, <1>2
  <2>7. QED
    BY <2>6, <1>7 DEF t
<1>8. QED
  BY <1>6, <1>7
\* The numbers of one metric are a sequence, no longer than that of all the samples.
LEMMA NumbersType ==
    ASSUME NEW s \in Seq(Sample), NEW m
    PROVE  /\ NumbersOf(s, m) \in Seq(0..Numbers - 1)
           /\ Len(NumbersOf(s, m)) = Cardinality(Places(s, m))
           /\ Len(NumbersOf(s, m)) \in 0..Len(s)
<1> DEFINE k == Cardinality(Places(s, m))
<1>0. Len(s) \in Nat /\ \A p \in 1..Len(s) : s[p] \in Sample
  OBVIOUS
<1>1. k \in 0..Len(s) /\ Places(s, m) \subseteq 1..Len(s)
  BY <1>0, PlacesFinite
<1>2. PICK f : Lists(f, k, s, m)
  BY <1>0, Listing
<1>3. NumbersOf(s, m) = [i \in 1..k |-> s[f[i]].n]
  BY <1>0, <1>2, Listed
<1>4. \A i \in 1..k : f[i] \in 1..Len(s)
  BY <1>1, <1>2 DEF Lists
<1>5. \A i \in 1..k : s[f[i]].n \in 0..Numbers - 1
  BY <1>0, <1>4 DEF Sample
<1> DEFINE u == [i \in 1..k |-> s[f[i]].n]
<1>6. u \in [1..k -> 0..Numbers - 1]
  BY <1>5
<1> HIDE DEF u, k
<1>7. u \in Seq(0..Numbers - 1) /\ Len(u) = k
  <2> DEFINE X == 0..Numbers - 1
  <2>1. u \in [1..k -> X] /\ k \in Nat
    BY <1>6, <1>1, <1>0
  <2> HIDE DEF X
  <2>2. u \in Seq(X) /\ Len(u) = k
    BY <2>1
  <2>3. QED
    BY <2>2 DEF X
<1>8. QED
  BY <1>0, <1>1, <1>3, <1>7 DEF u, k

\* The first sample less.
LEMMA NumbersTail ==
    ASSUME NEW S, NEW s \in Seq(S), s # <<>>, NEW m
    PROVE  /\ Head(s).metric = m => /\ NumbersOf(s, m) # <<>>
                                    /\ NumbersOf(Tail(s), m) = Tail(NumbersOf(s, m))
           /\ Head(s).metric # m => NumbersOf(Tail(s), m) = NumbersOf(s, m)
<1> DEFINE t == Tail(s)
           k == Cardinality(Places(t, m))
<1>0. /\ t \in Seq(S) /\ Len(t) \in Nat /\ Len(s) = Len(t) + 1 /\ Head(s) = s[1]
      /\ \A i \in 1..Len(t) : t[i] = s[i + 1]
  OBVIOUS
<1> HIDE DEF t
<1>1. PICK f : Lists(f, k, t, m)
  BY <1>0, Listing
<1>2. NumbersOf(t, m) = [i \in 1..k |-> t[f[i]].n]
  BY <1>0, <1>1, Listed
<1>3. Places(t, m) \subseteq 1..Len(t)
  BY <1>0, PlacesFinite
<1>4. /\ k \in Nat /\ f \in [1..k -> 1..Len(t)] /\ \A i \in 1..k : f[i] \in Places(t, m)
      /\ \A i, j \in 1..k : i < j => f[i] < f[j]
      /\ \A p \in Places(t, m) : \E i \in 1..k : f[i] = p
  BY <1>1, <1>3 DEF Lists
<1>5. \A i \in 1..k : t[f[i]] = s[f[i] + 1]
  BY <1>0, <1>4
<1> HIDE DEF k
<1>6. /\ \A p \in 1..Len(t) : p + 1 \in Places(s, m) <=> p \in Places(t, m)
      /\ 1 \in Places(s, m) <=> s[1].metric = m
      /\ \A p \in Places(s, m) : p \in 1..Len(t) + 1
  BY <1>0 DEF Places
<1>7. CASE s[1].metric # m
  <2> DEFINE g == [i \in 1..k |-> f[i] + 1]
  <2>1. \A i \in 1..k : g[i] = f[i] + 1 /\ f[i] \in 1..Len(t)
    BY <1>4
  <2>2. g \in [1..k -> Places(s, m)]
    BY <1>4, <1>6
  <2> HIDE DEF g
  <2>3. \A i, j \in 1..k : i < j => g[i] < g[j]
    <3> SUFFICES ASSUME NEW i \in 1..k, NEW j \in 1..k, i < j PROVE g[i] < g[j]
      OBVIOUS
    <3>1. f[i] < f[j]
      BY <1>4
    <3>2. f[i] \in Nat /\ f[j] \in Nat
      BY <2>1
    <3>3. QED
      BY <2>1, <3>1, <3>2
  <2>4. ASSUME NEW p \in Places(s, m) PROVE \E i \in 1..k : g[i] = p
    <3>1. p \in 2..Len(t) + 1
      BY <1>6, <1>7, <1>0
    <3>2. p - 1 \in 1..Len(t) /\ (p - 1) + 1 = p
      BY <3>1, <1>0
    <3>3. p - 1 \in Places(t, m)
      BY <3>2, <1>6
    <3>4. PICK i \in 1..k : f[i] = p - 1
      BY <3>3, <1>4
    <3>5. QED
      BY <3>2, <3>4, <2>1
  <2>5. Lists(g, k, s, m)
    BY <2>2, <2>3, <2>4, <1>4 DEF Lists
  <2>6. NumbersOf(s, m) = [i \in 1..k |-> s[g[i]].n]
    BY <2>5, <1>0, Listed
  <2>7. NumbersOf(s, m) = NumbersOf(t, m)
    BY <2>6, <1>2, <1>5, <2>1
  <2>8. QED
    BY <2>7, <1>7, <1>0 DEF t
<1>8. CASE s[1].metric = m
  <2> DEFINE k1 == k + 1
             g == [i \in 1..k1 |-> IF i = 1 THEN 1 ELSE f[i - 1] + 1]
  <2>1. ASSUME NEW i \in 1..k1
        PROVE  \/ i = 1 /\ g[i] = 1
               \/ i - 1 \in 1..k /\ g[i] = f[i - 1] + 1 /\ f[i - 1] \in 1..Len(t)
    BY <1>4
  <2>2. g \in [1..k1 -> Places(s, m)]
    <3>1. ASSUME NEW i \in 1..k1 PROVE g[i] \in Places(s, m)
      <4> HIDE DEF g
      <4>1. QED
        BY <2>1, <1>4, <1>6, <1>8
    <3>2. QED
      BY <3>1
  <2>3. \A i \in 1..k : i + 1 \in 1..k1 /\ g[i + 1] = f[i] + 1
    BY <1>4
  <2>4. 1 \in 1..k1 /\ g[1] = 1 /\ k1 \in Nat
    BY <1>4
  <2> HIDE DEF g
  <2>5. \A i, j \in 1..k1 : i < j => g[i] < g[j]
    <3> SUFFICES ASSUME NEW i \in 1..k1, NEW j \in 1..k1, i < j PROVE g[i] < g[j]
      OBVIOUS
    <3>1. j - 1 \in 1..k /\ g[j] = f[j - 1] + 1 /\ f[j - 1] \in 1..Len(t)
      BY <2>1, <1>4
    <3>2. CASE i = 1
      BY <3>1, <3>2, <2>4
    <3>3. CASE i # 1
      <4>1. i - 1 \in 1..k /\ g[i] = f[i - 1] + 1 /\ f[i - 1] \in 1..Len(t)
        BY <2>1, <3>3
      <4>2. i - 1 < j - 1
        BY <1>4
      <4>3. f[i - 1] < f[j - 1]
        BY <3>1, <4>1, <4>2, <1>4
      <4>4. QED
        BY <3>1, <4>1, <4>3
    <3>4. QED
      BY <3>2, <3>3
  <2>6. ASSUME NEW p \in Places(s, m) PROVE \E i \in 1..k1 : g[i] = p
    <3>1. CASE p = 1
      BY <3>1, <2>4
    <3>2. CASE p # 1
      <4>1. p - 1 \in 1..Len(t) /\ (p - 1) + 1 = p
        BY <3>2, <1>6, <1>0
      <4>2. p - 1 \in Places(t, m)
        BY <4>1, <1>6
      <4>3. PICK i \in 1..k : f[i] = p - 1
        BY <4>2, <1>4
      <4>4. QED
        BY <4>1, <4>3, <2>3
    <3>3. QED
      BY <3>1, <3>2
  <2>7. Lists(g, k1, s, m)
    BY <2>2, <2>4, <2>5, <2>6 DEF Lists
  <2> DEFINE u == [i \in 1..k1 |-> s[g[i]].n]
  <2> HIDE DEF k1
  <2>8. NumbersOf(s, m) = u
    BY <2>7, <1>0, Listed
  <2>9. u \in [1..k1 -> {u[i] : i \in 1..k1}] /\ \A i \in 1..k : u[i + 1] = s[f[i] + 1].n
    BY <2>3
  <2>10. u \in Seq({u[i] : i \in 1..k1}) /\ Len(u) = k1
    <3> DEFINE X == {u[i] : i \in 1..k1}
    <3>1. u \in [1..k1 -> X]
      BY <2>9
    <3> HIDE DEF X, u
    <3>2. u \in Seq(X) /\ Len(u) = k1
      BY <3>1, <2>4
    <3>3. QED
      BY <3>2 DEF X
  <2> HIDE DEF u
  <2>11. u # <<>> /\ Tail(u) = [i \in 1..k |-> u[i + 1]]
    <3> DEFINE X == {u[i] : i \in 1..k1}
    <3>1. u \in Seq(X) /\ Len(u) = k + 1 /\ k \in Nat
      BY <2>10, <1>4 DEF k1
    <3> HIDE DEF X
    <3>2. u # <<>> /\ Len(Tail(u)) = k /\ Tail(u) \in Seq(X)
          /\ \A i \in 1..k : Tail(u)[i] = u[i + 1]
      BY <3>1
    <3>3. DOMAIN Tail(u) = 1..k /\ Tail(u) = [i \in DOMAIN Tail(u) |-> Tail(u)[i]]
      <4> DEFINE v == Tail(u)
      <4>1. v \in Seq(X) /\ Len(v) = k
        BY <3>2
      <4> HIDE DEF v
      <4>2. DOMAIN v = 1..k /\ v = [i \in DOMAIN v |-> v[i]]
        BY <4>1
      <4>3. QED
        BY <4>2 DEF v
    <3>4. QED
      BY <3>2, <3>3
  <2>12. [i \in 1..k |-> u[i + 1]] = [i \in 1..k |-> t[f[i]].n]
    BY <2>9, <1>5
  <2>13. NumbersOf(s, m) # <<>> /\ NumbersOf(t, m) = Tail(NumbersOf(s, m))
    BY <2>8, <2>11, <2>12, <1>2
  <2>14. QED
    BY <2>13, <1>8, <1>0 DEF t
<1>9. QED
  BY <1>7, <1>8
-----------------------------------------------------------------------------
\* Start runs the forwarder last; the context is done when the forwarder has left, and
\* before the receiver calls the device.
Order ==
    /\ ctl = "run" <=> fw # "off"
    /\ waiting => ctl \in {"config", "start"}
    /\ cancelled => fw = "done" /\ stop
    /\ rx = "wait" => cancelled
    /\ \A i \in 1..Len(owed) : owed[i].what = "stop" => cancelled

Inv == TypeOK /\ Order

LEMMA Bounds ==
    /\ CapChan \in Nat /\ CapOut \in Nat /\ CapWire \in Nat
    /\ CapChan > 0 /\ CapOut > 0 /\ CapWire > 0
    /\ Numbers \in Nat /\ Numbers > 1 /\ Ids \in Nat /\ Ids > 1
    /\ Monitor \in {"sysmontap", "networking", "graphics"}
  BY PerfdAssumption DEF PerfdAssumption

\* The callback sends metrics that were asked for, or panics.
LEMMA EmitsType == ASSUME NEW shape PROVE Emits(shape) \in Seq(Metrics \cup {"panic"})
<1> DEFINE M == Metrics \cup {"panic"}
<1>1. CASE Monitor = "sysmontap"
  <2>0. {"pid", "cpu", "mem", "disk", "net"} \cap Options \subseteq M /\ "panic" \in M
    BY <1>1 DEF Metrics
  <2> HIDE DEF M
  <2>1. <<>> \in Seq(M)
    OBVIOUS
  <2>2. ProcessEmits(shape) \in Seq(M)
    BY <2>0, <2>1 DEF ProcessEmits
  <2>3. \A m \in {"cpu", "mem", "disk", "net"} : Sends(m) \in Seq(M)
    BY <2>0, <2>1 DEF Sends, Asked
  <2>4. SystemEmits(shape) \in Seq(M)
    BY <2>0, <2>3, ConcatProperties DEF SystemEmits
  <2>5. ProcessEmits(shape) \o SystemEmits(shape) \in Seq(M)
    BY <2>2, <2>4, ConcatProperties
  <2>6. Emits(shape) = IF shape = "other" THEN <<>>
                       ELSE ProcessEmits(shape) \o SystemEmits(shape)
    BY <1>1 DEF Emits
  <2>7. Emits(shape) \in Seq(M)
    BY <2>1, <2>5, <2>6
  <2>8. QED
    BY <2>7 DEF M
<1>2. CASE Monitor = "networking"
  <2>0. "network" \in M
    BY <1>2 DEF Metrics
  <2> HIDE DEF M
  <2>1. <<>> \in Seq(M) /\ <<"network">> \in Seq(M)
    BY <2>0
  <2>2. Emits(shape) = NetworkingEmits(shape)
    BY <1>2 DEF Emits
  <2>3. Emits(shape) \in Seq(M)
    BY <2>1, <2>2 DEF NetworkingEmits
  <2>4. QED
    BY <2>3 DEF M
<1>3. CASE Monitor = "graphics"
  <2>0. {"gpu", "fps"} \cap Options \subseteq M
    BY <1>3 DEF Metrics
  <2> HIDE DEF M
  <2>1. <<>> \in Seq(M)
    OBVIOUS
  <2>2. Sends("gpu") \in Seq(M) /\ Sends("fps") \in Seq(M)
    BY <2>0, <2>1 DEF Sends, Asked
  <2>3. Emits(shape) = GraphicsEmits
    BY <1>3 DEF Emits
  <2>4. Emits(shape) \in Seq(M)
    BY <2>2, <2>3, ConcatProperties DEF GraphicsEmits
  <2>5. QED
    BY <2>4 DEF M
<1>4. QED
  BY <1>1, <1>2, <1>3, Bounds

LEMMA InvInit == Init => Inv
<1> SUFFICES ASSUME Init PROVE Inv
  OBVIOUS
<1>1. /\ \A S : <<>> \in Seq(S) 
      /\ Len(<<>>) = 0
  OBVIOUS
<1>2. chan \in [Metrics -> Seq(Sample)] /\ \A m \in Metrics : Len(chan[m]) <= CapChan
  BY <1>1, Bounds DEF Init
<1>3. next \in [Metrics -> 0..Numbers - 1]
  BY Bounds DEF Init
<1>4. TypeOK
  <2>1. /\ rest \in Seq(Metrics \cup {"panic"}) /\ owed \in Seq(Request) /\ wire \in Seq(Wired)
        /\ fwHolds \in Seq(Sample) /\ out \in Seq(Sample) /\ pumpHolds \in Seq(Sample)
        /\ data \in Seq(Sample)
    BY <1>1 DEF Init
  <2>2. /\ Len(owed) = 0 /\ Len(wire) = 0 /\ Len(fwHolds) = 0 /\ Len(out) = 0
        /\ Len(pumpHolds) = 0 /\ Len(data) = 0
    BY <1>1 DEF Init
  <2>3. 0 \in 0..Ids - 1
    BY Bounds
  <2>4. QED
    <3>1. hand \in Wired \cup {NoHand} /\ fw = "off" /\ msgID \in 0..Ids - 1
      BY <2>3 DEF Init
    <3>2. CapOut >= 0 /\ CapWire >= 0
      BY Bounds
    <3>3. /\ ctl = "config" /\ rx = "loop" /\ waiting = FALSE /\ answered = FALSE
          /\ stop = FALSE /\ cancelled = FALSE /\ astray = FALSE /\ sampling = FALSE
          /\ devClosed = FALSE
      BY DEF Init
    <3>4. Len(fwHolds) = IF fw = "send" THEN 1 ELSE 0
      BY <2>2, <3>1
    <3>5. /\ Len(out) <= CapOut /\ Len(pumpHolds) <= 1 /\ Len(data) <= CapOut
          /\ Len(owed) <= CapWire /\ Len(wire) <= CapWire
      BY <2>2, <3>2
    <3>6. fw \in {"off", "select", "send", "done"}
      BY <3>1
    <3>7. QED
      BY <1>2, <1>3, <2>1, <3>1, <3>3, <3>4, <3>5, <3>6 DEF TypeOK
<1>5. QED
  BY <1>4 DEF Init, Order, Inv

\* Invoke keeps the calls and the latest identifier well formed.
LEMMA InvokeType ==
    ASSUME TypeOK, NEW what \in {"config", "start", "stop"}, Invoke(what)
    PROVE  /\ msgID' \in 0..Ids - 1 /\ answered' = FALSE
           /\ owed' \in Seq(Request) /\ Len(owed') = Len(owed) + 1 /\ Len(owed') <= CapWire
           /\ \A i \in 1..Len(owed) : owed'[i] = owed[i]
           /\ owed'[Len(owed')].what = what
<1>1. msgID' \in 0..Ids - 1 /\ answered' = FALSE
  BY Bounds DEF TypeOK, Invoke
<1> DEFINE r == [what |-> what, id |-> msgID']
<1>2. r \in Request
  BY <1>1 DEF Request
<1>3. owed' = Append(owed, r) /\ r.what = what /\ Len(owed) < CapWire
  BY DEF Invoke
<1>4. owed \in Seq(Request)
  BY DEF TypeOK
<1> HIDE DEF r
<1>5. QED
  BY <1>1, <1>2, <1>3, <1>4, Bounds

LEMMA UserInv == ASSUME Inv, User \/ Stop \/ Read PROVE Inv'
<1> USE DEF Inv
<1>1. CASE Call
  <2>1. CASE Invoke(ctl) /\ waiting' /\ UNCHANGED ctl
    <3>0. ctl \in {"config", "start"}
      BY <1>1 DEF Call
    <3>1. TypeOK'
      BY <1>1, <2>1, <3>0, InvokeType DEF Call, TypeOK, rvars, pvars
    <3>2. \A i \in 1..Len(owed') : owed'[i].what = "stop" => cancelled
      <4> TAKE i \in 1..Len(owed')
      <4>1. Len(owed) \in Nat /\ Len(owed') = Len(owed) + 1
        <5>1. Len(owed) \in Nat
          BY DEF TypeOK
        <5>2. QED
          BY <5>1, <2>1, <3>0, InvokeType
      <4>2. CASE i = Len(owed')
        BY <4>2, <2>1, <3>0, InvokeType
      <4>3. CASE i # Len(owed')
        <5>1. i \in 1..Len(owed)
          BY <4>1, <4>3
        <5>2. QED
          BY <5>1, <2>1, <3>0, InvokeType DEF Order
      <4>4. QED
        BY <4>2, <4>3
    <3>3. Order'
      BY <1>1, <2>1, <3>0, <3>2 DEF Call, Order, rvars, pvars
    <3>4. QED
      BY <3>1, <3>3
  <2>2. CASE ctl' = "failed" /\ UNCHANGED <<waiting, answered, msgID, owed>>
    BY <1>1, <2>2 DEF Call, TypeOK, Order, rvars, pvars
  <2>3. QED
    BY <1>1, <2>1, <2>2 DEF Call
<1>2. CASE Answered
  BY <1>2 DEF Answered, TypeOK, Order, rvars, pvars, dvars
<1>3. CASE TimeOut
  BY <1>3 DEF TimeOut, TypeOK, Order, rvars, pvars, dvars
<1>4. CASE Register
  BY <1>4 DEF Register, TypeOK, Order, rvars, pvars, dvars
<1>5. CASE Stop
  BY <1>5 DEF Stop, TypeOK, Order, rvars, pvars, dvars
<1>6. CASE Read
  <2>1. data' \in Seq(Sample) /\ Len(data') <= CapOut
    BY <1>6, Bounds DEF Read, TypeOK
  <2>2. QED
    BY <1>6, <2>1 DEF Read, TypeOK, Order, uvars, rvars, pvars, dvars
<1>7. QED
  BY <1>1, <1>2, <1>3, <1>4, <1>5, <1>6 DEF User
\* What the receiver leaves alone.
LEMMA ReceivedType ==
    ASSUME TypeOK, Received
    PROVE  /\ Head(wire) \in Wired /\ wire' \in Seq(Wired) /\ Len(wire') <= CapWire
  BY Bounds DEF Received, TypeOK

LEMMA ReceiverInv == ASSUME Inv, Receiver PROVE Inv'
<1> USE DEF Inv
<1>1. CASE RxRefuse
  BY <1>1, ReceivedType DEF RxRefuse, Received, TypeOK, Order, uvars, pvars
<1>2. CASE RxEarly
  BY <1>2, ReceivedType DEF RxEarly, Received, TypeOK, Order, rvars, pvars
<1>3. CASE RxSample
  <2>1. rest' \in Seq(Metrics \cup {"panic"})
    BY <1>3, EmitsType DEF RxSample
  <2>2. QED
    BY <1>3, <2>1, ReceivedType DEF RxSample, Received, TypeOK, Order, uvars, pvars
<1>4. CASE Emit
  <2> DEFINE m == Head(rest)
             v == [metric |-> m, n |-> next[m]]
  <2>1. /\ m \in Metrics /\ Len(chan[m]) < CapChan
        /\ chan' = [chan EXCEPT ![m] = Append(@, v)]
        /\ next' = [next EXCEPT ![m] = (@ + 1) % Numbers]
    BY <1>4 DEF Emit
  <2>2. rest' \in Seq(Metrics \cup {"panic"})
    BY <1>4 DEF Emit, TypeOK
  <2>3. chan \in [Metrics -> Seq(Sample)] /\ next \in [Metrics -> 0..Numbers - 1]
    BY DEF TypeOK
  <2>4. v \in Sample
    BY <2>1, <2>3 DEF Sample
  <2>5. next' \in [Metrics -> 0..Numbers - 1]
    <3>1. (next[m] + 1) % Numbers \in 0..Numbers - 1
      BY <2>1, <2>3, Bounds
    <3>2. QED
      BY <3>1, <2>1, <2>3
  <2>6. chan' \in [Metrics -> Seq(Sample)] /\ \A k \in Metrics : Len(chan'[k]) <= CapChan
    <3> HIDE DEF v, m
    <3>1. Append(chan[m], v) \in Seq(Sample) /\ Len(Append(chan[m], v)) <= CapChan
      BY <2>1, <2>3, <2>4, Bounds
    <3>2. \A k \in Metrics : chan'[k] = IF k = m THEN Append(chan[m], v) ELSE chan[k]
      BY <2>1, <2>3
    <3>3. chan' \in [Metrics -> Seq(Sample)]
      BY <3>1, <2>1, <2>3
    <3>4. QED
      BY <3>1, <3>2, <3>3 DEF TypeOK
  <2> HIDE DEF v, m
  <2>7. QED
    BY <1>4, <2>2, <2>5, <2>6 DEF Emit, TypeOK, Order, uvars, pvars, dvars
<1>5. CASE EmitPanic
  BY <1>5 DEF EmitPanic, TypeOK, Order, uvars, pvars, dvars
<1>6. CASE Emitted
  BY <1>6 DEF Emitted, TypeOK, Order, pvars, dvars
<1>7. CASE RxStop
  <2>1. CASE Invoke("stop") /\ rx' = "wait" /\ hand' = Head(wire)
    <3>1. TypeOK'
      BY <1>7, <2>1, ReceivedType, InvokeType DEF RxStop, Received, TypeOK, pvars
    <3>2. cancelled /\ cancelled' = cancelled
      BY <1>7 DEF RxStop
    <3>3. Order'
      BY <1>7, <2>1, <3>2 DEF RxStop, Order, pvars
    <3>4. QED
      BY <3>1, <3>3
  <2>2. CASE UNCHANGED <<rx, hand, answered, msgID, owed>>
    BY <1>7, <2>2, ReceivedType DEF RxStop, Received, TypeOK, Order, pvars
  <2>3. QED
    BY <1>7, <2>1, <2>2 DEF RxStop
<1>8. CASE RxReturn
  BY <1>8 DEF RxReturn, TypeOK, Order, uvars, pvars, dvars
<1>9. CASE RxOver
  BY <1>9 DEF RxOver, TypeOK, Order, uvars, pvars, dvars
<1>10. QED
  BY <1>1, <1>2, <1>3, <1>4, <1>5, <1>6, <1>7, <1>8, <1>9 DEF Receiver

LEMMA ForwarderInv == ASSUME Inv, FwStop \/ FwSend \/ \E m \in Metrics : FwTake(m) PROVE Inv'
<1> USE DEF Inv
<1>1. CASE FwStop
  BY <1>1 DEF FwStop, TypeOK, Order, uvars, rvars, dvars
<1>2. CASE FwSend
  <2>1. out' \in Seq(Sample) /\ Len(out') <= CapOut
    <3>1. /\ out \in Seq(Sample) /\ fwHolds \in Seq(Sample) /\ Len(fwHolds) = 1
          /\ Len(out) < CapOut /\ out' = out \o fwHolds
      BY <1>2 DEF FwSend, TypeOK
    <3>2. out' \in Seq(Sample) /\ Len(out') = Len(out) + 1
      <4> DEFINE X == Sample
      <4>1. out \in Seq(X) /\ fwHolds \in Seq(X)
        BY <3>1
      <4> HIDE DEF X
      <4>2. out \o fwHolds \in Seq(X) /\ Len(out \o fwHolds) = Len(out) + Len(fwHolds)
        BY <4>1
      <4>3. QED
        BY <4>2, <3>1 DEF X
    <3>3. Len(out) \in Nat
      BY <3>1
    <3>4. QED
      BY <3>1, <3>2, <3>3, Bounds
  <2>2. fwHolds' \in Seq(Sample) /\ Len(fwHolds') = 0
    BY <1>2 DEF FwSend
  <2>3. QED
    BY <1>2, <2>1, <2>2 DEF FwSend, TypeOK, Order, uvars, rvars, dvars
<1>3. ASSUME NEW m \in Metrics, FwTake(m) PROVE Inv'
  <2>1. chan[m] \in Seq(Sample) /\ chan[m] # <<>> /\ Len(chan[m]) <= CapChan
    BY <1>3 DEF FwTake, TypeOK
  <2>2. /\ Head(chan[m]) \in Sample /\ Tail(chan[m]) \in Seq(Sample)
        /\ Len(Tail(chan[m])) <= CapChan
    BY <2>1, Bounds
  <2>3. fwHolds' \in Seq(Sample) /\ Len(fwHolds') = 1 /\ fw' = "send"
    BY <1>3, <2>2 DEF FwTake
  <2>4. chan' \in [Metrics -> Seq(Sample)] /\ \A k \in Metrics : Len(chan'[k]) <= CapChan
    <3>1. chan \in [Metrics -> Seq(Sample)] /\ chan' = [chan EXCEPT ![m] = Tail(@)]
      BY <1>3 DEF FwTake, TypeOK
    <3>2. \A k \in Metrics : chan'[k] = IF k = m THEN Tail(chan[m]) ELSE chan[k]
      BY <3>1
    <3>3. QED
      BY <2>2, <3>1, <3>2 DEF TypeOK
  <2>5. QED
    BY <1>3, <2>3, <2>4 DEF FwTake, TypeOK, Order, uvars, rvars, dvars
<1>4. QED
  BY <1>1, <1>2, <1>3

LEMMA PumpInv == ASSUME Inv, PumpTake \/ PumpSend PROVE Inv'
<1> USE DEF Inv
<1>1. CASE PumpTake
  <2>1. out' \in Seq(Sample) /\ Len(out') <= CapOut
    BY <1>1, Bounds DEF PumpTake, TypeOK
  <2>2. pumpHolds' \in Seq(Sample) /\ Len(pumpHolds') <= 1
    BY <1>1 DEF PumpTake, TypeOK
  <2>3. QED
    BY <1>1, <2>1, <2>2 DEF PumpTake, TypeOK, Order, uvars, rvars, dvars
<1>2. CASE PumpSend
  <2>1. data' \in Seq(Sample) /\ Len(data') <= CapOut
    BY <1>2, ConcatProperties, Bounds DEF PumpSend, TypeOK
  <2>2. pumpHolds' \in Seq(Sample) /\ Len(pumpHolds') <= 1
    BY <1>2 DEF PumpSend
  <2>3. QED
    BY <1>2, <2>1, <2>2 DEF PumpSend, TypeOK, Order, uvars, rvars, dvars
<1>3. QED
  BY <1>1, <1>2

LEMMA DeviceInv == ASSUME Inv, DevHandle \/ DevSample \/ DevClose PROVE Inv'
<1> USE DEF Inv
<1>1. CASE DevHandle
  <2>1. owed \in Seq(Request) /\ owed # <<>> /\ owed' = Tail(owed) /\ Len(owed) <= CapWire
    BY <1>1 DEF DevHandle, TypeOK
  <2>2. owed' \in Seq(Request) /\ Len(owed') <= CapWire /\ Head(owed) \in Request
    BY <2>1, Bounds
  <2>3. \A i \in 1..Len(owed') : i + 1 \in 1..Len(owed) /\ owed'[i] = owed[i + 1]
    BY <2>1
  <2>4. sampling' \in BOOLEAN
    BY <1>1, <2>2 DEF DevHandle, TypeOK, Request
  <2>5. wire' \in Seq(Wired) /\ Len(wire') <= CapWire
    <3>1. [kind |-> "reply", id |-> Head(owed).id] \in Wired
      BY <2>2 DEF Wired, Request
    <3> DEFINE r == [kind |-> "reply", id |-> Head(owed).id]
    <3>2. CASE Len(wire) < CapWire /\ wire' = Append(wire, r)
      <4> HIDE DEF r
      <4>1. QED
        BY <3>1, <3>2, Bounds DEF TypeOK, r
    <3>3. QED
      BY <1>1, <3>2 DEF DevHandle, TypeOK
  <2>6. Order'
    BY <1>1, <2>3 DEF DevHandle, Order, uvars, rvars, pvars
  <2>7. QED
    <3>1. UNCHANGED <<uvars, cancelled, rvars, chan, pvars, next, devClosed>>
      BY <1>1 DEF DevHandle
    <3>2. QED
      BY <2>2, <2>4, <2>5, <2>6, <3>1 DEF TypeOK, uvars, rvars, pvars
<1>2. CASE DevSample
  <2>1. PICK s \in Shapes : wire' = Append(wire, [kind |-> "sample", shape |-> s])
    BY <1>2 DEF DevSample
  <2>2. [kind |-> "sample", shape |-> s] \in Wired
    BY DEF Wired
  <2>3. wire' \in Seq(Wired) /\ Len(wire') <= CapWire
    BY <1>2, <2>1, <2>2, Bounds DEF DevSample, TypeOK
  <2>4. QED
    BY <1>2, <2>3 DEF DevSample, TypeOK, Order, uvars, rvars, pvars
<1>3. CASE DevClose
  BY <1>3 DEF DevClose, TypeOK, Order, uvars, rvars, pvars
<1>4. QED
  BY <1>1, <1>2, <1>3

LEMMA InvNext == Inv /\ [Next]_vars => Inv'
<1> SUFFICES ASSUME Inv, [Next]_vars PROVE Inv'
  OBVIOUS
<1>1. CASE Next
  BY <1>1, UserInv, ReceiverInv, ForwarderInv, PumpInv, DeviceInv DEF Next
<1>2. CASE UNCHANGED vars
  BY <1>2 DEF Inv, TypeOK, Order, vars, uvars, rvars, pvars, dvars
<1>3. QED
  BY <1>1, <1>2

\* The invariant of the pipeline holds in every reachable state.
THEOREM InvHolds == Spec => []Inv
<1>1. Init => Inv
  BY InvInit
<1>2. Inv /\ [Next]_vars => Inv'
  BY InvNext
<1>3. QED
  BY <1>1, <1>2, PTL DEF Spec

\* Every variable keeps its type and every channel its capacity (the buffers of perfd.go).
THEOREM TypeCorrect == Spec => []TypeOK
<1>1. Inv => TypeOK
  BY DEF Inv
<1>2. QED
  BY <1>1, InvHolds, PTL

\* The device is told to stop only after the forwarder has left (perfd.go:215), whatever
\* the user, the forwarder and the receiver do in whatever order.
THEOREM ToldAfterForwarderHolds == Spec => []ToldAfterForwarder
<1>1. Inv => ToldAfterForwarder
  <2> SUFFICES ASSUME Inv, rx = "wait" \/ \E i \in DOMAIN owed : owed[i].what = "stop"
               PROVE  fw = "done" /\ stop
    BY DEF ToldAfterForwarder
  <2>1. DOMAIN owed = 1..Len(owed)
    BY DEF Inv, TypeOK
  <2>2. cancelled
    BY <2>1 DEF Inv, Order
  <2>3. QED
    BY <2>2 DEF Inv, Order
<1>2. QED
  BY <1>1, InvHolds, PTL
-----------------------------------------------------------------------------
\* The refinement. A metric's channel holds samples of that metric.
OwnChannel == \A m \in Metrics : \A i \in 1..Len(chan[m]) : chan[m][i].metric = m

\* The steps that touch the pipeline, those of the user, the receiver and the device
\* aside that leave all of it as it is.
LEMMA OtherSteps ==
    ASSUME [Next]_vars,
           ~Emit, ~Read, ~FwSend, ~PumpTake, ~PumpSend, ~(\E m \in Metrics : FwTake(m))
    PROVE  UNCHANGED <<chan, data, pumpHolds, out, fwHolds, next>>
<1>1. CASE User \/ Stop
  BY <1>1 DEF User, Call, Answered, TimeOut, Register, Stop, pvars, dvars
<1>2. CASE Receiver
  BY <1>2 DEF Receiver, RxRefuse, RxEarly, RxSample, EmitPanic, Emitted, RxStop, RxReturn,
              RxOver, pvars
<1>3. CASE FwStop
  BY <1>3 DEF FwStop
<1>4. CASE DevHandle \/ DevSample \/ DevClose
  BY <1>4 DEF DevHandle, DevSample, DevClose, pvars
<1>5. CASE UNCHANGED vars
  BY <1>5 DEF vars, pvars
<1>6. QED
  BY <1>1, <1>2, <1>3, <1>4, <1>5 DEF Next

LEMMA OwnChannelNext == Inv /\ OwnChannel /\ [Next]_vars => OwnChannel'
<1> SUFFICES ASSUME Inv, OwnChannel, [Next]_vars PROVE OwnChannel'
  OBVIOUS
<1>0. chan \in [Metrics -> Seq(Sample)]
  BY DEF Inv, TypeOK
<1>1. CASE Emit
  <2> DEFINE m == Head(rest)
             v == [metric |-> m, n |-> next[m]]
  <2>1. m \in Metrics /\ chan' = [chan EXCEPT ![m] = Append(@, v)] /\ v.metric = m
    BY <1>1 DEF Emit
  <2> HIDE DEF v, m
  <2>2. \A k \in Metrics : chan'[k] = IF k = m THEN Append(chan[m], v) ELSE chan[k]
    BY <2>1, <1>0
  <2>3. \A i \in 1..Len(Append(chan[m], v)) : Append(chan[m], v)[i].metric = m
    <3>1. chan[m] \in Seq(Sample) /\ \A i \in 1..Len(chan[m]) : chan[m][i].metric = m
      BY <2>1, <1>0 DEF OwnChannel
    <3>2. QED
      BY <2>1, <3>1
  <2>4. QED
    BY <2>2, <2>3 DEF OwnChannel
<1>2. ASSUME NEW m \in Metrics, FwTake(m) PROVE OwnChannel'
  <2>1. chan[m] # <<>> /\ chan' = [chan EXCEPT ![m] = Tail(@)]
    BY <1>2 DEF FwTake
  <2>2. \A k \in Metrics : chan'[k] = IF k = m THEN Tail(chan[m]) ELSE chan[k]
    BY <2>1, <1>0
  <2>3. \A i \in 1..Len(Tail(chan[m])) : Tail(chan[m])[i].metric = m
    <3>1. chan[m] \in Seq(Sample) /\ \A i \in 1..Len(chan[m]) : chan[m][i].metric = m
      BY <1>0 DEF OwnChannel
    <3>2. QED
      BY <2>1, <3>1
  <2>4. QED
    BY <2>2, <2>3 DEF OwnChannel
<1>3. CASE UNCHANGED chan
  BY <1>3 DEF OwnChannel
<1>4. QED
  BY <1>1, <1>2, <1>3, OtherSteps DEF Read, FwSend, PumpTake, PumpSend

All(s) == [i \in 1..Len(s) |-> s[i].n]

\* What All returns for a channel, with one more and with one less.
LEMMA AllType ==
    ASSUME NEW s \in Seq(Sample)
    PROVE  All(s) \in Seq(0..Numbers - 1) /\ Len(All(s)) = Len(s)
<1> DEFINE X == 0..Numbers - 1
<1>0. \A i \in 1..Len(s) : s[i] \in Sample
  OBVIOUS
<1>1. \A i \in 1..Len(s) : s[i].n \in X
  BY <1>0 DEF Sample
<1>2. All(s) \in [1..Len(s) -> X] /\ Len(s) \in Nat
  BY <1>1 DEF All
<1> HIDE DEF X
<1>3. All(s) \in Seq(X) /\ Len(All(s)) = Len(s)
  BY <1>2
<1>4. QED
  BY <1>3 DEF X

LEMMA AllAppend ==
    ASSUME NEW s \in Seq(Sample), NEW v \in Sample
    PROVE  All(Append(s, v)) = Append(All(s), v.n)
<1>1. Append(s, v) \in Seq(Sample) /\ v.n \in 0..Numbers - 1
  BY DEF Sample
<1>2. /\ All(s) \in Seq(0..Numbers - 1) /\ Len(All(s)) = Len(s)
      /\ All(Append(s, v)) \in Seq(0..Numbers - 1) /\ Len(All(Append(s, v))) = Len(s) + 1
  <2>1. Len(Append(s, v)) = Len(s) + 1
    OBVIOUS
  <2>2. QED
    BY <1>1, <2>1, AllType
<1>3. Append(All(s), v.n) \in Seq(0..Numbers - 1) /\ Len(Append(All(s), v.n)) = Len(s) + 1
  BY <1>1, <1>2
<1>4. ASSUME NEW i \in 1..Len(s) + 1 PROVE All(Append(s, v))[i] = Append(All(s), v.n)[i]
  <2>1. All(Append(s, v))[i] = Append(s, v)[i].n
    BY <1>1 DEF All
  <2>2. CASE i = Len(s) + 1
    BY <2>1, <2>2, <1>2
  <2>3. CASE i # Len(s) + 1
    <3>1. i \in 1..Len(s)
      BY <2>3
    <3>2. All(s)[i] = s[i].n
      BY <3>1 DEF All
    <3>3. Append(s, v)[i] = s[i] /\ Append(All(s), v.n)[i] = All(s)[i]
      BY <3>1, <1>2
    <3>4. QED
      BY <2>1, <3>2, <3>3
  <2>4. QED
    BY <2>2, <2>3
<1>5. QED
  BY <1>2, <1>3, <1>4, SeqEqual

LEMMA AllTail ==
    ASSUME NEW s \in Seq(Sample), s # <<>>
    PROVE  All(s) = <<Head(s).n>> \o All(Tail(s))
<1>1. Tail(s) \in Seq(Sample) /\ Head(s).n \in 0..Numbers - 1 /\ Len(s) > 0
      /\ Len(Tail(s)) = Len(s) - 1
  <2>1. Tail(s) \in Seq(Sample) /\ Head(s) \in Sample /\ Len(s) > 0 /\ Len(Tail(s)) = Len(s) - 1
    OBVIOUS
  <2>2. QED
    BY <2>1 DEF Sample
<1>2. /\ All(s) \in Seq(0..Numbers - 1) /\ Len(All(s)) = Len(s)
      /\ All(Tail(s)) \in Seq(0..Numbers - 1) /\ Len(All(Tail(s))) = Len(s) - 1
  BY <1>1, AllType
<1> DEFINE t == <<Head(s).n>> \o All(Tail(s))
<1>3. t \in Seq(0..Numbers - 1) /\ Len(t) = Len(s)
  <2>1. <<Head(s).n>> \in Seq(0..Numbers - 1) /\ Len(<<Head(s).n>>) = 1
    BY <1>1
  <2>2. Len(s) \in Nat
    OBVIOUS
  <2>3. QED
    BY <2>1, <2>2, <1>2, ConcatProperties
<1>4. ASSUME NEW i \in 1..Len(s) PROVE All(s)[i] = t[i]
  <2>1. All(s)[i] = s[i].n
    BY DEF All
  <2>2. CASE i = 1
    BY <2>1, <2>2, <1>1, <1>2
  <2>3. CASE i # 1
    <3>1. i - 1 \in 1..Len(Tail(s)) /\ (i - 1) + 1 = i
      BY <2>3, <1>1
    <3>2. All(Tail(s))[i - 1] = Tail(s)[i - 1].n /\ Tail(s)[i - 1] = s[i]
      BY <3>1 DEF All
    <3>3. t[i] = All(Tail(s))[i - 1]
      BY <3>1, <1>1, <1>2
    <3>4. QED
      BY <2>1, <3>2, <3>3
  <2>4. QED
    BY <2>2, <2>3
<1> HIDE DEF t
<1>5. All(s) = t
  BY <1>2, <1>3, <1>4, SeqEqual
<1>6. QED
  BY <1>5 DEF t
\* Sequences in a row.
LEMMA ConcatTail ==
    ASSUME NEW S, NEW a \in Seq(S), NEW b \in Seq(S), a # <<>>
    PROVE  /\ a \o b \in Seq(S) /\ a \o b # <<>> /\ Head(a \o b) = Head(a)
           /\ Tail(a \o b) = Tail(a) \o b
  OBVIOUS

LEMMA OnWayType ==
    ASSUME Inv, NEW m \in Metrics
    PROVE  /\ Taken \in Seq(Sample) /\ OnWay(m) = NumbersOf(Taken, m) \o All(chan[m])
           /\ NumbersOf(Taken, m) \in Seq(0..Numbers - 1)
           /\ chan[m] \in Seq(Sample) /\ All(chan[m]) \in Seq(0..Numbers - 1)
           /\ OnWay(m) \in Seq(0..Numbers - 1)
           /\ Len(OnWay(m)) <= Len(chan[m]) + 2 * CapOut + 2
<1>1. /\ data \in Seq(Sample) /\ pumpHolds \in Seq(Sample) /\ out \in Seq(Sample)
      /\ fwHolds \in Seq(Sample) /\ chan[m] \in Seq(Sample)
      /\ Len(data) <= CapOut /\ Len(pumpHolds) <= 1 /\ Len(out) <= CapOut
      /\ Len(fwHolds) <= 1
  BY DEF Inv, TypeOK
<1>2. Taken \in Seq(Sample) /\ Len(Taken) <= 2 * CapOut + 2
  <2>1. data \o pumpHolds \in Seq(Sample) /\ Len(data \o pumpHolds) <= CapOut + 1
    BY <1>1, ConcatProperties, Bounds
  <2>2. /\ data \o pumpHolds \o out \in Seq(Sample)
        /\ Len(data \o pumpHolds \o out) <= 2 * CapOut + 1
    BY <2>1, <1>1, ConcatProperties, Bounds
  <2>3. QED
    BY <2>2, <1>1, ConcatProperties, Bounds DEF Taken
<1>3. /\ NumbersOf(Taken, m) \in Seq(0..Numbers - 1)
      /\ Len(NumbersOf(Taken, m)) <= 2 * CapOut + 2
  <2>1. /\ NumbersOf(Taken, m) \in Seq(0..Numbers - 1)
        /\ Len(NumbersOf(Taken, m)) \in 0..Len(Taken)
    BY <1>2, NumbersType
  <2>2. Len(Taken) \in Nat
    BY <1>2
  <2>3. QED
    BY <2>1, <2>2, <1>2, Bounds
<1>4. All(chan[m]) \in Seq(0..Numbers - 1) /\ Len(All(chan[m])) = Len(chan[m])
  BY <1>1, AllType
<1>5. OnWay(m) = NumbersOf(Taken, m) \o All(chan[m])
  BY DEF OnWay, All
<1>6. /\ OnWay(m) \in Seq(0..Numbers - 1)
      /\ Len(OnWay(m)) = Len(NumbersOf(Taken, m)) + Len(chan[m])
  <2> DEFINE X == 0..Numbers - 1
  <2>1. NumbersOf(Taken, m) \in Seq(X) /\ All(chan[m]) \in Seq(X)
    BY <1>3, <1>4
  <2> HIDE DEF X
  <2>2. OnWay(m) \in Seq(X) /\ Len(OnWay(m)) = Len(NumbersOf(Taken, m)) + Len(All(chan[m]))
    BY <2>1, <1>5, ConcatProperties
  <2>3. QED
    BY <2>2, <1>4 DEF X
<1>7. Len(OnWay(m)) <= Len(chan[m]) + 2 * CapOut + 2
  <2> DEFINE a == Len(NumbersOf(Taken, m))
             b == Len(chan[m])
  <2>1. a \in Nat /\ b \in Nat /\ a <= 2 * CapOut + 2 /\ Len(OnWay(m)) = a + b
    BY <1>1, <1>3, <1>6
  <2> HIDE DEF a, b
  <2>2. Len(OnWay(m)) <= b + 2 * CapOut + 2
    BY <2>1, Bounds
  <2>3. QED
    BY <2>2 DEF b
<1>8. QED
  BY <1>1, <1>2, <1>3, <1>4, <1>5, <1>6, <1>7

LEMMA SameOnWay ==
    ASSUME Taken' = Taken, chan' = chan
    PROVE  \A m \in Metrics : OnWay(m)' = OnWay(m)
  BY DEF OnWay

LEMMA InitMaps == Init => Queue!Init
<1> SUFFICES ASSUME Init PROVE Queue!Init
  OBVIOUS
<1>1. Inv
  BY InvInit
<1>2. ASSUME NEW m \in Metrics PROVE OnWay(m) = <<>>
  <2>1. Taken = <<>> /\ chan[m] = <<>>
    BY DEF Init, Taken
  <2>2. NumbersOf(<<>>, m) = <<>>
    <3>1. <<>> \in Seq(Sample) /\ Len(<<>>) = 0
      OBVIOUS
    <3>2. /\ NumbersOf(<<>>, m) \in Seq(0..Numbers - 1)
          /\ Len(NumbersOf(<<>>, m)) \in 0..Len(<<>>)
      BY <3>1, NumbersType
    <3>3. Len(NumbersOf(<<>>, m)) = 0
      BY <3>1, <3>2
    <3>4. QED
      BY <3>2, <3>3
  <2>3. OnWay(m) \in Seq(0..Numbers - 1) /\ OnWay(m) = NumbersOf(Taken, m) \o All(chan[m])
    BY <1>1, OnWayType
  <2>4. All(<<>>) = <<>>
    BY DEF All
  <2>5. OnWay(m) = <<>> \o <<>>
    BY <2>1, <2>2, <2>3, <2>4
  <2>6. QED
    BY <2>5
<1>3. [m \in Metrics |-> OnWay(m)] = [m \in Metrics |-> <<>>]
  BY <1>2
<1>4. next = [m \in Metrics |-> 0]
  BY DEF Init
<1>5. QED
  BY <1>3, <1>4 DEF Queue!Init

\* The callback puts a sample.
LEMMA EmitPuts == ASSUME Inv, Emit PROVE Queue!Next
<1>0. PICK m \in Metrics : m = Head(rest)
  BY DEF Emit
<1> DEFINE v == [metric |-> m, n |-> next[m]]
<1>1. /\ Len(chan[m]) < CapChan
      /\ chan' = [chan EXCEPT ![m] = Append(@, v)] /\ v.n = next[m]
      /\ next' = [next EXCEPT ![m] = (@ + 1) % Numbers]
      /\ Taken' = Taken
  BY <1>0 DEF Emit, pvars, Taken
<1>2. chan \in [Metrics -> Seq(Sample)] /\ next[m] \in 0..Numbers - 1
  BY <1>1 DEF Inv, TypeOK
<1>3. v \in Sample
  BY <1>1, <1>2 DEF Sample
<1> HIDE DEF v
<1>4. \A k \in Metrics : chan'[k] = IF k = m THEN Append(chan[m], v) ELSE chan[k]
  BY <1>1, <1>2
<1>5. OnWay(m)' = Append(OnWay(m), next[m])
  <2>1. OnWay(m)' = NumbersOf(Taken, m) \o All(Append(chan[m], v))
    <3>1. OnWay(m)' = NumbersOf(Taken', m) \o All(chan'[m])
      BY DEF OnWay, All
    <3>2. QED
      BY <3>1, <1>1, <1>4
  <2>2. All(Append(chan[m], v)) = Append(All(chan[m]), next[m])
    BY <1>1, <1>2, <1>3, AllAppend
  <2>3. /\ OnWay(m) = NumbersOf(Taken, m) \o All(chan[m])
        /\ NumbersOf(Taken, m) \in Seq(0..Numbers - 1)
        /\ All(chan[m]) \in Seq(0..Numbers - 1)
    BY <1>1, OnWayType
  <2> DEFINE X == 0..Numbers - 1
             a == NumbersOf(Taken, m)
             b == All(chan[m])
             e == next[m]
  <2>4. a \in Seq(X) /\ b \in Seq(X) /\ e \in X
    BY <2>3, <1>2
  <2> HIDE DEF X, a, b, e
  <2>5. a \o Append(b, e) = Append(a \o b, e)
    BY <2>4
  <2>6. QED
    BY <2>1, <2>2, <2>3, <2>5 DEF a, b, e
<1>6. \A k \in Metrics : k # m => OnWay(k)' = OnWay(k)
  BY <1>1, <1>4 DEF OnWay
<1>7. Len(OnWay(m)) < Limit
  <2>1. Len(OnWay(m)) <= Len(chan[m]) + 2 * CapOut + 2 /\ OnWay(m) \in Seq(0..Numbers - 1)
    BY <1>1, OnWayType
  <2>2. Len(OnWay(m)) \in Nat /\ Len(chan[m]) \in Nat
    BY <2>1, <1>1, <1>2
  <2> DEFINE a == Len(OnWay(m))
             b == Len(chan[m])
  <2>3. a \in Nat /\ b \in Nat /\ a <= b + 2 * CapOut + 2 /\ b < CapChan
    BY <2>1, <2>2, <1>1
  <2> HIDE DEF a, b
  <2>4. a < CapChan + 2 * CapOut + 2
    BY <2>3, Bounds
  <2>5. QED
    BY <2>4 DEF a, Limit
<1> DEFINE Q == [k \in Metrics |-> OnWay(k)]
<1>8. Q' = [Q EXCEPT ![m] = Append(@, next[m])]
  <2>1. Q' = [k \in Metrics |-> OnWay(k)']
    OBVIOUS
  <2>2. \A k \in Metrics : OnWay(k)' = [Q EXCEPT ![m] = Append(@, next[m])][k]
    BY <1>1, <1>5, <1>6
  <2>3. QED
    BY <2>1, <2>2
<1>9. Queue!Put(m)
  BY <1>1, <1>7, <1>8 DEF Queue!Put
<1>10. QED
  BY <1>1, <1>9 DEF Queue!Next

\* The user gets the first sample of its metric.
LEMMA ReadGets == ASSUME Inv, Read PROVE Queue!Next
<1> DEFINE h == Head(data)
<1>1. /\ data \in Seq(Sample) /\ data # <<>> /\ data' = Tail(data)
      /\ pumpHolds' = pumpHolds /\ out' = out /\ fwHolds' = fwHolds
      /\ chan' = chan /\ next' = next
      /\ pumpHolds \in Seq(Sample) /\ out \in Seq(Sample) /\ fwHolds \in Seq(Sample)
  BY DEF Read, Inv, TypeOK
<1>2. h \in Sample /\ h.metric \in Metrics
  <2>1. h \in Sample
    BY <1>1
  <2>2. QED
    BY <2>1 DEF Sample
<1> HIDE DEF h
<1>2a. PICK m \in Metrics : m = h.metric
  BY <1>2
<1>3. Taken \in Seq(Sample)
  BY <1>2, OnWayType
<1>4. Taken # <<>> /\ Head(Taken) = h /\ Taken' = Tail(Taken)
  <2> DEFINE r == pumpHolds \o (out \o fwHolds)
  <2>1. r \in Seq(Sample)
    BY <1>1, ConcatProperties
  <2>2. Tail(data) \in Seq(Sample)
    BY <1>1
  <2>3. Taken = data \o r /\ Taken' = Tail(data) \o r
    <3>0. /\ pumpHolds \in Seq(Sample) /\ out \in Seq(Sample) /\ fwHolds \in Seq(Sample)
          /\ data \in Seq(Sample)
      BY <1>1
    <3>1. /\ ((data \o pumpHolds) \o out) \o fwHolds = data \o r
          /\ ((Tail(data) \o pumpHolds) \o out) \o fwHolds = Tail(data) \o r
      <4> DEFINE g == out \o fwHolds
      <4>1. g \in Seq(Sample)
        BY <3>0, ConcatProperties
      <4>2. ASSUME NEW d \in Seq(Sample)
            PROVE  ((d \o pumpHolds) \o out) \o fwHolds = d \o (pumpHolds \o g)
        <5> DEFINE e == d \o pumpHolds
        <5>1. e \in Seq(Sample)
          BY <3>0, ConcatProperties
        <5>2. (e \o out) \o fwHolds = e \o g
          <6> HIDE DEF e
          <6>1. QED
            BY <3>0, <5>1, ConcatAssociative
        <5>3. e \o g = d \o (pumpHolds \o g)
          <6> HIDE DEF g
          <6>1. QED
            BY <3>0, <4>1, ConcatAssociative
        <5>4. QED
          BY <5>2, <5>3
      <4>3. QED
        BY <4>2, <3>0, <2>2
    <3>2. /\ Taken = ((data \o pumpHolds) \o out) \o fwHolds
          /\ Taken' = ((Tail(data) \o pumpHolds) \o out) \o fwHolds
      BY <1>1 DEF Taken
    <3>3. QED
      BY <3>1, <3>2
  <2> HIDE DEF r
  <2>4. QED
    BY <1>1, <2>1, <2>3, ConcatTail DEF h
<1>5. ASSUME NEW k \in Metrics
      PROVE  /\ OnWay(k) = NumbersOf(Taken, k) \o All(chan[k])
             /\ OnWay(k)' = NumbersOf(Tail(Taken), k) \o All(chan[k])
             /\ NumbersOf(Taken, k) \in Seq(0..Numbers - 1)
             /\ All(chan[k]) \in Seq(0..Numbers - 1)
  BY <1>1, <1>4, OnWayType DEF OnWay, All
<1>6. \A k \in Metrics : k # m => OnWay(k)' = OnWay(k)
  BY <1>3, <1>4, <1>5, <1>2a, NumbersTail
<1>7. OnWay(m) # <<>> /\ OnWay(m)' = Tail(OnWay(m))
  <2>1. NumbersOf(Taken, m) # <<>> /\ NumbersOf(Tail(Taken), m) = Tail(NumbersOf(Taken, m))
    BY <1>3, <1>4, <1>2a, NumbersTail
  <2> DEFINE X == 0..Numbers - 1
             a == NumbersOf(Taken, m)
             b == All(chan[m])
  <2>2. a \in Seq(X) /\ b \in Seq(X) /\ a # <<>>
    BY <1>2, <1>5, <2>1
  <2> HIDE DEF X, a, b
  <2>3. a \o b # <<>> /\ Tail(a \o b) = Tail(a) \o b
    BY <2>2, ConcatTail
  <2>4. OnWay(m) = a \o b /\ OnWay(m)' = Tail(a) \o b
    BY <2>1, <1>2, <1>5 DEF a, b
  <2>5. QED
    BY <2>3, <2>4
<1> DEFINE Q == [k \in Metrics |-> OnWay(k)]
<1>8. Q' = [Q EXCEPT ![m] = Tail(@)]
  <2>1. Q' = [k \in Metrics |-> OnWay(k)']
    OBVIOUS
  <2>2. \A k \in Metrics : OnWay(k)' = [Q EXCEPT ![m] = Tail(@)][k]
    BY <1>2, <1>6, <1>7
  <2>3. QED
    BY <2>1, <2>2
<1>9. Queue!Get(m)
  BY <1>1, <1>2, <1>7, <1>8 DEF Queue!Get
<1>10. QED
  BY <1>2, <1>9 DEF Queue!Next
\* The forwarder takes a sample: it is the last of those taken, no longer the first of its
\* channel.
LEMMA TakeStutters ==
    ASSUME Inv, OwnChannel, NEW m \in Metrics, FwTake(m)
    PROVE  next' = next /\ \A k \in Metrics : OnWay(k)' = OnWay(k)
<1> DEFINE h == Head(chan[m])
<1>1. /\ fw = "select" /\ chan[m] # <<>> /\ fwHolds' = <<h>>
      /\ chan' = [chan EXCEPT ![m] = Tail(@)] /\ chan \in [Metrics -> Seq(Sample)]
      /\ data' = data /\ pumpHolds' = pumpHolds /\ out' = out /\ next' = next
      /\ fwHolds \in Seq(Sample) /\ Len(fwHolds) = 0
      /\ data \in Seq(Sample) /\ pumpHolds \in Seq(Sample) /\ out \in Seq(Sample)
  BY DEF FwTake, Inv, TypeOK
<1>2. chan[m] \in Seq(Sample) /\ h \in Sample /\ h.metric = m
  BY <1>1 DEF OwnChannel
<1> HIDE DEF h
<1>3. \A k \in Metrics : chan'[k] = IF k = m THEN Tail(chan[m]) ELSE chan[k]
  BY <1>1
<1>4. Taken \in Seq(Sample) /\ Taken' = Taken \o <<h>>
  <2> DEFINE a == (data \o pumpHolds) \o out
  <2>1. a \in Seq(Sample) /\ <<h>> \in Seq(Sample)
    BY <1>1, <1>2, ConcatProperties
  <2>2. fwHolds = <<>>
    BY <1>1
  <2>3. Taken = a \o <<>> /\ Taken' = a \o <<h>>
    BY <1>1, <2>2 DEF Taken
  <2>4. a \o <<>> = a
    BY <2>1, ConcatEmptySeq
  <2>5. QED
    BY <2>1, <2>3, <2>4
<1>5. \A k \in Metrics : NumbersOf(Taken', k) =
          IF k = m THEN Append(NumbersOf(Taken, m), h.n) ELSE NumbersOf(Taken, k)
  BY <1>2, <1>4, NumbersAppend
<1>6. \A k \in Metrics : OnWay(k)' = NumbersOf(Taken', k) \o All(chan'[k])
  BY DEF OnWay, All
<1>7. \A k \in Metrics : OnWay(k) = NumbersOf(Taken, k) \o All(chan[k])
  BY DEF OnWay, All
<1>8. ASSUME NEW k \in Metrics, k # m PROVE OnWay(k)' = OnWay(k)
  BY <1>3, <1>5, <1>6, <1>7, <1>8
<1>9. OnWay(m)' = OnWay(m)
  <2> DEFINE X == 0..Numbers - 1
             a == NumbersOf(Taken, m)
             b == All(Tail(chan[m]))
             e == h.n
  <2>1. a \in Seq(X) /\ b \in Seq(X) /\ e \in X
    <3>1. Tail(chan[m]) \in Seq(Sample)
      BY <1>1, <1>2
    <3>2. h.n \in 0..Numbers - 1
      BY <1>2 DEF Sample
    <3>3. QED
      BY <3>1, <3>2, AllType, OnWayType
  <2>2. All(chan[m]) = <<e>> \o b
    BY <1>1, <1>2, AllTail DEF h
  <2>3. OnWay(m)' = Append(a, e) \o b /\ OnWay(m) = a \o (<<e>> \o b)
    BY <1>3, <1>5, <1>6, <1>7, <2>2
  <2> HIDE DEF X, a, b, e
  <2>4. Append(a, e) = a \o <<e>> /\ <<e>> \in Seq(X)
    BY <2>1
  <2>5. (a \o <<e>>) \o b = a \o (<<e>> \o b)
    BY <2>1, <2>4, ConcatAssociative
  <2>6. QED
    BY <2>3, <2>4, <2>5
<1>10. QED
  BY <1>1, <1>8, <1>9

\* The other steps of the forwarder and the pump hand samples on in their order.
LEMMA HandedOn ==
    ASSUME Inv, FwSend \/ PumpTake \/ PumpSend
    PROVE  next' = next /\ \A k \in Metrics : OnWay(k)' = OnWay(k)
<1>0. /\ data \in Seq(Sample) /\ pumpHolds \in Seq(Sample) /\ out \in Seq(Sample)
      /\ fwHolds \in Seq(Sample)
  BY DEF Inv, TypeOK
<1>1. CASE FwSend
  <2>1. /\ out' = out \o fwHolds /\ fwHolds' = <<>> /\ pumpHolds' = pumpHolds
        /\ data' = data /\ chan' = chan /\ next' = next
    BY <1>1 DEF FwSend
  <2>2. /\ <<>> \in Seq(Sample) /\ out \o fwHolds \in Seq(Sample)
        /\ data \o pumpHolds \in Seq(Sample)
    BY <1>0, ConcatProperties
  <2>3. ((data \o pumpHolds) \o (out \o fwHolds)) \o <<>>
            = (data \o pumpHolds) \o (out \o fwHolds)
    BY <2>2, ConcatProperties, ConcatEmptySeq
  <2>4. (data \o pumpHolds) \o (out \o fwHolds) = ((data \o pumpHolds) \o out) \o fwHolds
    BY <1>0, <2>2, ConcatAssociative
  <2>5. Taken' = ((data \o pumpHolds) \o (out \o fwHolds)) \o <<>>
    BY <2>1 DEF Taken
  <2>6. Taken' = Taken
    BY <2>3, <2>4, <2>5 DEF Taken
  <2>7. QED
    BY <2>1, <2>6, SameOnWay
<1>2. CASE PumpTake
  <2>1. /\ pumpHolds = <<>> /\ out # <<>> /\ pumpHolds' = <<Head(out)>> /\ out' = Tail(out)
        /\ fwHolds' = fwHolds /\ data' = data /\ chan' = chan /\ next' = next
    BY <1>2 DEF PumpTake
  <2>2. /\ Head(out) \in Sample /\ Tail(out) \in Seq(Sample) /\ <<Head(out)>> \in Seq(Sample)
        /\ <<Head(out)>> \o Tail(out) = out
    BY <1>0, <2>1
  <2>3. (data \o <<Head(out)>>) \o Tail(out) = data \o (<<Head(out)>> \o Tail(out))
    BY <1>0, <2>2, ConcatAssociative
  <2>4. data \o <<>> = data
    BY <1>0, ConcatEmptySeq
  <2>5. Taken = ((data \o <<>>) \o out) \o fwHolds
    BY <2>1 DEF Taken
  <2>6. Taken' = ((data \o <<Head(out)>>) \o Tail(out)) \o fwHolds
    BY <2>1 DEF Taken
  <2>7. Taken' = Taken
    BY <2>2, <2>3, <2>4, <2>5, <2>6
  <2>8. QED
    BY <2>1, <2>7, SameOnWay
<1>3. CASE PumpSend
  <2>1. /\ data' = data \o pumpHolds /\ pumpHolds' = <<>> /\ out' = out
        /\ fwHolds' = fwHolds /\ chan' = chan /\ next' = next
    BY <1>3 DEF PumpSend
  <2>2. (data \o pumpHolds) \o <<>> = data \o pumpHolds
    BY <1>0, ConcatProperties, ConcatEmptySeq
  <2>3. Taken' = (((data \o pumpHolds) \o <<>>) \o out) \o fwHolds
    BY <2>1 DEF Taken
  <2>4. Taken' = Taken
    BY <2>2, <2>3 DEF Taken
  <2>5. QED
    BY <2>1, <2>4, SameOnWay
<1>4. QED
  BY <1>1, <1>2, <1>3

LEMMA StepMaps ==
    Inv /\ OwnChannel /\ [Next]_vars =>
        [Queue!Next]_<<next, [m \in Metrics |-> OnWay(m)]>>
<1> SUFFICES ASSUME Inv, OwnChannel, [Next]_vars
             PROVE  [Queue!Next]_<<next, [m \in Metrics |-> OnWay(m)]>>
  OBVIOUS
<1> DEFINE Q == [m \in Metrics |-> OnWay(m)]
<1>1. CASE Emit
  BY <1>1, EmitPuts
<1>2. CASE Read
  BY <1>2, ReadGets
<1>3. CASE UNCHANGED next /\ \A k \in Metrics : OnWay(k)' = OnWay(k)
  <2>1. Q' = [m \in Metrics |-> OnWay(m)']
    OBVIOUS
  <2>2. Q' = Q
    BY <1>3, <2>1
  <2>3. QED
    BY <1>3, <2>2
<1>4. ASSUME NEW m \in Metrics, FwTake(m)
      PROVE  next' = next /\ \A k \in Metrics : OnWay(k)' = OnWay(k)
  BY <1>4, TakeStutters
<1>5. CASE FwSend \/ PumpTake \/ PumpSend
  BY <1>3, <1>5, HandedOn
<1>6. CASE UNCHANGED <<chan, data, pumpHolds, out, fwHolds, next>>
  BY <1>3, <1>6, SameOnWay DEF Taken
<1>7. QED
  BY <1>1, <1>2, <1>3, <1>4, <1>5, <1>6, OtherSteps

\* The three channels and two goroutines between the callback and the user (perfd.go:246,
\* device.go:920) implement a queue for each metric: no sample is lost, doubled or
\* overtaken, before, during and after Stop, and there are never more than the channels and
\* the two goroutines hold.
THEOREM Implements == Spec => IsQueue
<1>1. Init => Queue!Init /\ OwnChannel
  <2>1. Init => OwnChannel
    BY DEF Init, OwnChannel
  <2>2. QED
    BY <2>1, InitMaps
<1>2. Inv /\ OwnChannel /\ [Next]_vars => OwnChannel'
  BY OwnChannelNext
<1>3. Inv /\ OwnChannel /\ [Next]_vars =>
          [Queue!Next]_<<next, [m \in Metrics |-> OnWay(m)]>>
  BY StepMaps
<1>4. QED
  BY <1>1, <1>2, <1>3, InvHolds, PTL DEF Spec, IsQueue, Queue!Spec
=============================================================================
