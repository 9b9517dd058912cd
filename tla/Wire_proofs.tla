---------------------------- MODULE Wire_proofs ----------------------------
(* Lemmas about the codec: sums over sequences, the lengths and the types.  *)
EXTENDS Wire, SequenceTheorems, WellFoundedInduction, TLAPS

-----------------------------------------------------------------------------
(* Induction on the naturals for a set, from the minimum of its complement. *)

\* A nonempty set of naturals has a least element.
LEMMA LeastElement ==
  ASSUME NEW T \in SUBSET Nat, T # {}
  PROVE  \E n \in T : \A k \in T : n <= k
<1> DEFINE R == {p \in Nat \X Nat : p[1] < p[2]}
<1>1. IsWellFoundedOn(R, Nat)
  BY NatLessThanWellFounded DEF OpToRel
<1> HIDE DEF R
<1>2. PICK n \in T : \A k \in T : ~(<<k, n>> \in R)
  BY <1>1, WFMin
<1>3. \A k \in T : k < n => <<k, n>> \in R
  BY DEF R
<1>4. \A k \in T : n <= k
  <2> SUFFICES ASSUME NEW k \in T, ~(n <= k) PROVE FALSE
    OBVIOUS
  <2>1. k < n
    OBVIOUS
  <2> QED BY <1>2, <1>3, <2>1
<1> QED BY <1>4

LEMMA SetInduction ==
  ASSUME NEW T \in SUBSET Nat, 0 \in T, \A n \in T : n + 1 \in T
  PROVE  T = Nat
<1> SUFFICES ASSUME Nat \ T # {} PROVE FALSE
  OBVIOUS
<1>1. PICK n \in Nat \ T : \A k \in Nat \ T : n <= k
  <2>1. Nat \ T \in SUBSET Nat
    OBVIOUS
  <2> QED BY <2>1, LeastElement
<1>2. n - 1 \in Nat
  BY <1>1
<1>3. n - 1 \in T
  BY <1>1, <1>2
<1>4. n - 1 + 1 = n
  BY <1>2
<1> QED BY <1>1, <1>3, <1>4

\* What a recursive function on 0..n is: a start, and a step from each value to
\* the next.  One exists for every start and every step.
Steps(S, n) == [1..n -> [S -> S]]
Recursion(S, n, start, step, f) ==
  /\ f \in [0..n -> S]
  /\ f[0] = start
  /\ \A k \in 1..n : f[k] = step[k][f[k - 1]]

LEMMA RecursiveFunction ==
  ASSUME NEW S, NEW n \in Nat, NEW start \in S, NEW step \in Steps(S, n)
  PROVE  \E f : Recursion(S, n, start, step, f)
<1> USE DEF Steps
<1> DEFINE Good(f, m) == f[0] = start /\ \A k \in 1..m : f[k] = step[k][f[k - 1]]
           T == {m \in Nat : m <= n => \E f \in [0..m -> S] : Good(f, m)}
<1>1. 0 \in T
  <2> DEFINE g == [k \in 0..0 |-> start]
  <2>1. g \in [0..0 -> S] /\ Good(g, 0)
    OBVIOUS
  <2> QED BY <2>1
<1>2. ASSUME NEW m \in T PROVE m + 1 \in T
  <2>0. m \in Nat /\ m + 1 \in Nat
    OBVIOUS
  <2>1. SUFFICES ASSUME m + 1 <= n PROVE \E f \in [0..(m + 1) -> S] : Good(f, m + 1)
    BY <2>0
  <2>2. PICK f \in [0..m -> S] : Good(f, m)
    BY <2>0, <2>1
  <2> DEFINE g == [k \in 0..(m + 1) |-> IF k = m + 1 THEN step[m + 1][f[m]] ELSE f[k]]
  <2>3. step[m + 1][f[m]] \in S
    <3>1. f[m] \in S /\ m + 1 \in 1..n
      BY <2>0, <2>1, <2>2
    <3>2. step[m + 1] \in [S -> S]
      BY <3>1
    <3> QED BY <3>1, <3>2
  <2>4. g \in [0..(m + 1) -> S]
    BY <2>0, <2>2, <2>3
  <2>5. g[0] = start
    BY <2>0, <2>2
  <2>6. ASSUME NEW k \in 1..(m + 1) PROVE g[k] = step[k][g[k - 1]]
    <3>1. k - 1 \in 0..(m + 1) /\ k - 1 # m + 1 /\ k \in 0..(m + 1)
      BY <2>0
    <3>2. g[k - 1] = f[k - 1]
      BY <3>1
    <3>3. CASE k = m + 1
      BY <3>1, <3>2, <3>3, <2>0
    <3>4. CASE k # m + 1
      <4>1. k \in 1..m
        BY <3>4, <2>0
      <4> QED BY <4>1, <3>1, <3>2, <3>4, <2>2
    <3> QED BY <3>3, <3>4
  <2> HIDE DEF g
  <2>7. Good(g, m + 1)
    BY <2>5, <2>6
  <2> QED BY <2>4, <2>7
<1> HIDE DEF T
<1>3. T = Nat
  <2>1. T \in SUBSET Nat
    BY DEF T
  <2> QED BY <2>1, <1>1, <1>2, SetInduction
<1>4. n \in T
  BY <1>3
<1> QED BY <1>4 DEF T, Recursion

-----------------------------------------------------------------------------
(* Sums *)

\* A sum is the last of the partial sums.
LEMMA PartialTotals ==
  ASSUME NEW s \in Seq(Nat)
  PROVE  \E f \in [0..Len(s) -> Nat] :
           /\ f[0] = 0
           /\ \A k \in 1..Len(s) : f[k] = f[k - 1] + s[k]
           /\ Total(s) = f[Len(s)]
<1> DEFINE n == Len(s)
           step == [k \in 1..n |-> [x \in Nat |-> x + s[k]]]
<1>0. n \in Nat /\ \A k \in 1..n : s[k] \in Nat
  OBVIOUS
<1> HIDE DEF n
<1>1. PICK f : Recursion(Nat, n, 0, step, f)
  <2>1. step \in Steps(Nat, n)
    BY <1>0 DEF Steps
  <2> HIDE DEF step
  <2> QED BY <2>1, <1>0, RecursiveFunction
<1>2. f \in [0..n -> Nat] /\ f[0] = 0
  BY <1>1 DEF Recursion
<1>4. \A k \in 1..n : f[k] = f[k - 1] + s[k]
  <2> TAKE k \in 1..n
  <2>1. f[k - 1] \in Nat
    BY <1>0, <1>2
  <2> QED BY <1>1, <2>1 DEF Recursion
<1> DEFINE Body(h) == [k \in 0..n |-> IF k = 0 THEN 0 ELSE h[k - 1] + s[k]]
           c == CHOOSE h : h = Body(h)
<1>3. Total(s) = c[n]
  BY DEF Total, n
<1>5. f = Body(f)
  BY <1>0, <1>2, <1>4
<1>6. c = Body(c)
  BY <1>5
<1> HIDE DEF c, step
<1>7. c[0] = 0 /\ \A k \in 1..n : c[k] = c[k - 1] + s[k]
  BY <1>0, <1>6
<1> DEFINE T == {m \in Nat : m <= n => c[m] \in Nat}
<1>8. 0 \in T /\ \A m \in T : m + 1 \in T
  <2>1. 0 \in T
    BY <1>7
  <2>2. ASSUME NEW m \in T, m + 1 <= n PROVE c[m + 1] \in Nat
    <3>1. m \in Nat /\ m + 1 \in 1..n /\ m + 1 - 1 = m /\ c[m] \in Nat
      BY <1>0, <2>2
    <3>2. c[m + 1] = c[m] + s[m + 1] /\ s[m + 1] \in Nat
      BY <3>1, <1>7, <1>0
    <3> QED BY <3>1, <3>2
  <2> QED BY <2>1, <2>2
<1>9. \A m \in 0..n : c[m] \in Nat
  <2>1. T = Nat
    <3> HIDE DEF T
    <3>1. T \in SUBSET Nat
      BY DEF T
    <3> QED BY <3>1, <1>8, SetInduction
  <2>2. ASSUME NEW m \in 0..n PROVE c[m] \in Nat
    <3>1. m \in Nat /\ m <= n
      BY <2>2, <1>0
    <3>2. m \in T
      BY <2>1, <3>1, Zenon
    <3> QED BY <3>1, <3>2
  <2> QED BY <2>2
<1>10. c \in [0..n -> Nat]
  BY <1>6, <1>9
<1> QED BY <1>3, <1>7, <1>10 DEF n

LEMMA TotalNat ==
  ASSUME NEW s \in Seq(Nat)
  PROVE  Total(s) \in Nat
BY PartialTotals

\* A sum of at most n numbers of at most b each.
LEMMA TotalBound ==
  ASSUME NEW s \in Seq(Nat), NEW b \in Nat, NEW n \in Nat,
         Len(s) <= n, \A k \in 1..Len(s) : s[k] <= b
  PROVE  Total(s) <= b * n
<1> DEFINE l == Len(s)
<1>0. l \in Nat /\ l <= n /\ \A k \in 1..l : s[k] \in Nat /\ s[k] <= b
  OBVIOUS
<1>1. PICK f \in [0..l -> Nat] :
        /\ f[0] = 0
        /\ \A k \in 1..l : f[k] = f[k - 1] + s[k]
        /\ Total(s) = f[l]
  BY PartialTotals
<1> HIDE DEF l
<1> DEFINE T == {m \in Nat : m <= l => f[m] <= b * m}
<1>2. 0 \in T
  BY <1>1
<1>3. ASSUME NEW m \in T PROVE m + 1 \in T
  <2>1. SUFFICES ASSUME m + 1 <= l PROVE f[m + 1] <= b * (m + 1)
    OBVIOUS
  <2>2. m \in Nat /\ m + 1 \in 1..l /\ m + 1 - 1 = m /\ m \in 0..l
    BY <2>1, <1>0
  <2>3. f[m] <= b * m /\ f[m] \in Nat
    BY <2>1, <2>2, <1>0
  <2> HIDE DEF T
  <2>4. f[m + 1] = f[m] + s[m + 1] /\ s[m + 1] <= b /\ s[m + 1] \in Nat
    BY <2>2, <1>0, <1>1
  <2>5. b * (m + 1) = b * m + b /\ b * m \in Nat
    BY <2>2
  <2> QED BY <2>3, <2>4, <2>5
<1>4. T = Nat
  <2> HIDE DEF T
  <2>1. T \in SUBSET Nat
    BY DEF T
  <2> QED BY <2>1, <1>2, <1>3, SetInduction
<1>5. Total(s) <= b * l
  <2>1. l \in T
    BY <1>0, <1>4, Zenon
  <2>2. l <= l
    BY <1>0
  <2> QED BY <2>1, <2>2, <1>1
<1>6. b * l <= b * n
  <2>1. \A i, j \in Nat : i <= j => b * i <= b * j
    OBVIOUS
  <2> QED BY <2>1, <1>0
<1>7. b * l \in Nat /\ b * n \in Nat /\ Total(s) \in Nat
  BY <1>0, TotalNat
<1> QED BY <1>5, <1>6, <1>7

\* Partial sums rise.
LEMMA PartialTotalsRise ==
  ASSUME NEW l \in Nat, NEW f \in [0..l -> Nat],
         \A k \in 1..l : f[k - 1] <= f[k]
  PROVE  \A i, m \in 0..l : i <= m => f[i] <= f[m]
<1> DEFINE T == {m \in Nat : m <= l => \A i \in 0..m : f[i] <= f[m]}
<1>1. 0 \in T
  OBVIOUS
<1>2. ASSUME NEW m \in T PROVE m + 1 \in T
  <2>1. SUFFICES ASSUME m + 1 <= l, NEW i \in 0..(m + 1) PROVE f[i] <= f[m + 1]
    OBVIOUS
  <2>2. m \in Nat /\ m + 1 \in 1..l /\ m + 1 - 1 = m /\ m \in 0..l /\ m + 1 \in 0..l
    BY <2>1
  <2>3. f[m] <= f[m + 1] /\ f[m] \in Nat /\ f[m + 1] \in Nat
    BY <2>2
  <2>4. CASE i \in 0..m
    <3>1. f[i] <= f[m] /\ i \in 0..l
      BY <2>1, <2>2, <2>4
    <3>2. f[i] \in Nat
      BY <3>1
    <3> QED BY <3>1, <3>2, <2>3
  <2>5. CASE i = m + 1
    BY <2>3, <2>5
  <2>6. i \in 0..m \/ i = m + 1
    BY <2>2
  <2> QED BY <2>4, <2>5, <2>6
<1>3. T = Nat
  <2> HIDE DEF T
  <2>1. T \in SUBSET Nat
    BY DEF T
  <2> QED BY <2>1, <1>1, <1>2, SetInduction
<1>4. SUFFICES ASSUME NEW i \in 0..l, NEW m \in 0..l, i <= m PROVE f[i] <= f[m]
  OBVIOUS
<1>5. m \in Nat /\ m <= l /\ i \in 0..m
  BY <1>4
<1>6. m \in T
  BY <1>3, <1>5, Zenon
<1> QED BY <1>5, <1>6

\* Numbers taken from s at rising places, and made no larger, add up to no more.
LEMMA TotalOfSome ==
  ASSUME NEW s \in Seq(Nat), NEW t \in Seq(Nat),
         NEW p \in [1..Len(t) -> 1..Len(s)],
         \A i, k \in 1..Len(t) : i < k => p[i] < p[k],
         \A k \in 1..Len(t) : t[k] <= s[p[k]]
  PROVE  Total(t) <= Total(s)
<1> DEFINE l == Len(s)
           n == Len(t)
<1>a. l \in Nat /\ n \in Nat
  OBVIOUS
<1>b. \A k \in 1..l : s[k] \in Nat
  OBVIOUS
<1>c. \A k \in 1..n : t[k] \in Nat /\ t[k] <= s[p[k]] /\ p[k] \in 1..l
  <2>1. \A k \in 1..n : t[k] \in Nat
    OBVIOUS
  <2>2. \A k \in 1..n : p[k] \in 1..l
    OBVIOUS
  <2> QED BY <2>1, <2>2
<1>d. \A i, k \in 1..n : i < k => p[i] < p[k]
  OBVIOUS
<1>0. /\ l \in Nat /\ n \in Nat
      /\ \A k \in 1..l : s[k] \in Nat
      /\ \A k \in 1..n : t[k] \in Nat /\ t[k] <= s[p[k]] /\ p[k] \in 1..l
      /\ \A i, k \in 1..n : i < k => p[i] < p[k]
  BY <1>a, <1>b, <1>c, <1>d, Zenon
<1>1. PICK f \in [0..l -> Nat] :
        /\ f[0] = 0
        /\ \A k \in 1..l : f[k] = f[k - 1] + s[k]
        /\ Total(s) = f[l]
  BY PartialTotals
<1>2. PICK g \in [0..n -> Nat] :
        /\ g[0] = 0
        /\ \A k \in 1..n : g[k] = g[k - 1] + t[k]
        /\ Total(t) = g[n]
  BY PartialTotals
<1> HIDE DEF l, n
<1>3. \A i, m \in 0..l : i <= m => f[i] <= f[m]
  <2>1. ASSUME NEW k \in 1..l PROVE f[k - 1] <= f[k]
    <3>1. f[k] = f[k - 1] + s[k] /\ s[k] \in Nat /\ k - 1 \in 0..l
      BY <1>0, <1>1
    <3>2. f[k - 1] \in Nat
      BY <3>1
    <3> QED BY <3>1, <3>2
  <2> QED BY <2>1, <1>0, PartialTotalsRise
<1> DEFINE T == {m \in Nat : m <= n => g[m] <= (IF m = 0 THEN 0 ELSE f[p[m]])}
<1>4. 0 \in T
  BY <1>2
<1>5. ASSUME NEW m \in T PROVE m + 1 \in T
  <2>0. m \in Nat /\ m + 1 # 0
    OBVIOUS
  <2>1. SUFFICES ASSUME m + 1 <= n PROVE g[m + 1] <= f[p[m + 1]]
    BY <2>0
  <2>2. m + 1 \in 1..n /\ m + 1 - 1 = m /\ m \in 0..n /\ m <= n
    BY <2>0, <2>1, <1>0
  <2>3. g[m] <= (IF m = 0 THEN 0 ELSE f[p[m]])
    BY <2>2
  <2> HIDE DEF T
  <2>4. g[m + 1] = g[m] + t[m + 1] /\ g[m] \in Nat
    <3> DEFINE k == m + 1
    <3>1. k \in 1..n /\ k - 1 = m
      BY <2>2
    <3> HIDE DEF k
    <3>2. g[k] = g[k - 1] + t[k]
      BY <1>2, <3>1
    <3>3. g[m] \in Nat
      BY <2>2, <1>2
    <3> QED BY <3>1, <3>2, <3>3 DEF k
  <2> DEFINE q == p[m + 1]
  <2>5. q \in 1..l /\ t[m + 1] <= s[q] /\ s[q] \in Nat /\ t[m + 1] \in Nat
    BY <2>2, <1>0
  <2> HIDE DEF q
  <2>6. f[q] = f[q - 1] + s[q] /\ q - 1 \in 0..l
    BY <2>5, <1>0, <1>1
  <2>7. f[q - 1] \in Nat
    BY <2>6
  <2>8. g[m] <= f[q - 1]
    <3>1. CASE m = 0
      BY <3>1, <2>7, <1>2
    <3>2. CASE m # 0
      <4>1. m \in 1..n /\ m < m + 1
        BY <2>0, <2>2, <3>2, <1>0
      <4>2. p[m] < q /\ p[m] \in 1..l
        BY <4>1, <2>2, <1>0 DEF q
      <4>3. p[m] <= q - 1 /\ p[m] \in 0..l
        <5> HIDE DEF q
        <5> DEFINE r == p[m]
        <5>1. r < q /\ r \in 1..l
          BY <4>2
        <5> HIDE DEF r
        <5>2. r <= q - 1 /\ r \in 0..l
          BY <5>1, <2>5, <1>a
        <5> QED BY <5>2 DEF r
      <4>4. f[p[m]] <= f[q - 1] /\ f[p[m]] \in Nat
        BY <4>3, <2>6, <1>3
      <4>5. g[m] <= f[p[m]]
        BY <3>2, <2>3
      <4> DEFINE x == g[m] y == f[p[m]] z == f[q - 1]
      <4>6. x \in Nat /\ y \in Nat /\ z \in Nat /\ x <= y /\ y <= z
        BY <4>4, <4>5, <2>4, <2>7
      <4> HIDE DEF x, y, z
      <4>7. x <= z
        BY <4>6
      <4> QED BY <4>7 DEF x, z
    <3> QED BY <3>1, <3>2
  <2>9. g[m + 1] <= f[q]
    <3> DEFINE x == g[m] y == t[m + 1] z == f[q - 1] w == s[q]
    <3>1. /\ x \in Nat /\ y \in Nat /\ z \in Nat /\ w \in Nat /\ x <= z /\ y <= w
          /\ g[m + 1] = x + y /\ f[q] = z + w
      BY <2>4, <2>5, <2>6, <2>7, <2>8, Zenon
    <3> HIDE DEF x, y, z, w
    <3> QED BY <3>1
  <2> QED BY <2>9 DEF q
<1>6. T = Nat
  <2> HIDE DEF T
  <2>1. T \in SUBSET Nat
    BY DEF T
  <2> QED BY <2>1, <1>4, <1>5, SetInduction
<1>7. g[n] <= (IF n = 0 THEN 0 ELSE f[p[n]])
  <2>1. n \in T
    BY <1>0, <1>6, Zenon
  <2>2. n <= n
    BY <1>0
  <2> QED BY <2>1, <2>2
<1> HIDE DEF T
<1>8. f[l] \in Nat /\ g[n] \in Nat
  BY <1>0
<1>9. CASE n = 0
  BY <1>1, <1>2, <1>8, <1>9
<1>10. CASE n # 0
  <2>1. n \in 1..n
    BY <1>0, <1>10
  <2>2. p[n] \in 1..l
    BY <2>1, <1>0
  <2>3. p[n] \in 0..l /\ p[n] <= l /\ l \in 0..l
    BY <2>2, <1>0
  <2>4. f[p[n]] <= f[l] /\ f[p[n]] \in Nat
    BY <2>3, <1>3
  <2> QED BY <2>4, <1>1, <1>2, <1>7, <1>8, <1>10
<1> QED BY <1>9, <1>10

\* A sum over a list of at most n elements that count at most b each.
LEMMA TotalOver ==
  ASSUME NEW S, NEW list \in Seq(S), NEW b \in Nat, NEW n \in Nat, Len(list) <= n,
         NEW t, DOMAIN t = DOMAIN list, t = [k \in DOMAIN list |-> t[k]],
         \A k \in DOMAIN list : t[k] \in 0..b
  PROVE  t \in Seq(Nat) /\ Len(t) = Len(list) /\ Total(t) \in 0..(b * n)
<1>1. DOMAIN list = 1..Len(list) /\ Len(list) \in Nat
  OBVIOUS
<1>2. \A k \in 1..Len(list) : t[k] \in Nat /\ t[k] <= b
  BY <1>1
<1>3. t \in [1..Len(list) -> Nat]
  BY <1>1, <1>2
<1>4. t \in Seq(Nat) /\ Len(t) = Len(list)
  BY <1>1, <1>3
<1>5. Total(t) <= b * n
  BY <1>2, <1>4, TotalBound
<1>6. Total(t) \in Nat
  BY <1>4, TotalNat
<1>7. b * n \in Nat
  OBVIOUS
<1> QED BY <1>4, <1>5, <1>6, <1>7

\* No more addends, and none larger.
LEMMA TotalOfSmaller ==
  ASSUME NEW s \in Seq(Nat), NEW t \in Seq(Nat), Len(t) <= Len(s),
         \A k \in 1..Len(t) : t[k] <= s[k]
  PROVE  Total(t) <= Total(s)
<1> DEFINE p == [k \in 1..Len(t) |-> k]
<1>1. p \in [1..Len(t) -> 1..Len(s)]
  <2>1. Len(t) \in Nat /\ Len(s) \in Nat
    OBVIOUS
  <2> QED BY <2>1
<1>2. \A i, k \in 1..Len(t) : i < k => p[i] < p[k]
  OBVIOUS
<1>3. \A k \in 1..Len(t) : t[k] <= s[p[k]]
  OBVIOUS
<1> HIDE DEF p
<1> QED BY <1>1, <1>2, <1>3, TotalOfSome


LEMMA TotalOfNone == Total(<<>>) = 0
<1>1. <<>> \in Seq(Nat) /\ Len(<<>>) = 0
  OBVIOUS
<1>2. PICK f \in [0..Len(<<>>) -> Nat] : f[0] = 0 /\ Total(<<>>) = f[Len(<<>>)]
  BY <1>1, PartialTotals
<1> QED BY <1>1, <1>2

-----------------------------------------------------------------------------
(* Lengths and types *)

LEMMA MinOfTwo ==
  ASSUME NEW a \in Int, NEW b \in Int, a <= b
  PROVE  Min({a, b}) = a
<1>1. a \in {a, b} /\ \A y \in {a, b} : a <= y
  OBVIOUS
<1>2. \A x \in {a, b} : (\A y \in {a, b} : x <= y) => x = a
  OBVIOUS
<1> QED BY <1>1, <1>2, Zenon DEF Min

LEMMA MaxOfTwo ==
  ASSUME NEW a \in Int, NEW b \in Int, a <= b
  PROVE  Max({a, b}) = b
<1>1. b \in {a, b} /\ \A y \in {a, b} : b >= y
  OBVIOUS
<1>2. \A x \in {a, b} : (\A y \in {a, b} : x >= y) => x = b
  OBVIOUS
<1> QED BY <1>1, <1>2, Zenon DEF Max

\* Max({lo, Min({hi, x})}) is between lo and hi.
LEMMA Clamped ==
  ASSUME NEW lo \in Int, NEW hi \in Int, NEW x \in Int, lo <= hi
  PROVE  Max({lo, Min({hi, x})}) \in lo..hi
<1>1. Min({hi, x}) \in Int /\ Min({hi, x}) <= hi
  <2>1. CASE hi <= x
    BY <2>1, MinOfTwo
  <2>2. CASE x <= hi
    <3>1. {hi, x} = {x, hi}
      OBVIOUS
    <3> QED BY <2>2, <3>1, MinOfTwo
  <2> QED BY <2>1, <2>2
<1> DEFINE y == Min({hi, x})
<1> HIDE DEF y
<1>2. CASE lo <= y
  <2>1. y \in lo..hi
    BY <1>1, <1>2 DEF y
  <2>2. Max({lo, y}) = y
    BY <1>2, <2>1, MaxOfTwo
  <2> QED BY <2>1, <2>2 DEF y
<1>3. CASE y <= lo
  <2>1. {lo, y} = {y, lo} /\ y \in Int
    BY <1>1 DEF y
  <2>2. Max({lo, y}) = lo
    BY <1>3, <2>1, MaxOfTwo
  <2> QED BY <2>2 DEF y
<1> QED BY <1>1, <1>2, <1>3 DEF y

LEMMA TypeCodes ==
  /\ Origin.code = 1 /\ AsPath.code = 2 /\ NextHop.code = 3
  /\ MultiExitDisc.code = 4 /\ LocalPref.code = 5 /\ AtomicAggregate.code = 6
  /\ Aggregator.code = 7 /\ MpReachNlri.code = 14 /\ MpUnreachNlri.code = 15
BY DEF Type, Origin, AsPath, NextHop, MultiExitDisc, LocalPref, AtomicAggregate,
       Aggregator, MpReachNlri, MpUnreachNlri

\* A code has one type.
LEMMA TypesByCode ==
  ASSUME NEW type \in Types
  PROVE  (CHOOSE t \in Types : t.code = type.code) = type
<1>1. \A t \in Types : t.code = type.code => t = type
  BY TypeCodes DEF Types
<1>2. \E t \in Types : t.code = type.code
  OBVIOUS
<1> DEFINE c == CHOOSE t \in Types : t.code = type.code
<1>3. c \in Types /\ c.code = type.code
  BY <1>2
<1> QED BY <1>1, <1>3

\* What decoding makes of the size of an attribute, type by type.
LEMMA DecodedSize ==
  ASSUME NEW a, NEW type \in Types, a.code = type.code
  PROVE  /\ DecodeAttribute(a) =
              Attribute(type, IF type.whole THEN a.size ELSE type.least)
         /\ Least(a) = type.least
<1>1. (CHOOSE t \in Types : t.code = a.code) = type
  BY TypesByCode
<1>2. \E t \in Types : t.code = a.code
  OBVIOUS
<1> QED BY <1>1, <1>2 DEF DecodeAttribute, Least

LEMMA DecodedRaw ==
  ASSUME NEW a, \A type \in Types : type.code # a.code
  PROVE  DecodeAttribute(a) = a /\ Least(a) = 0
BY DEF DecodeAttribute, Least
=============================================================================
