----------------------------- MODULE GridFacts -----------------------------
(***************************************************************************)
(* Facts that the proofs about the solvers share: the least-number         *)
(* principle, derived from the well-foundedness of strict inclusion on     *)
(* finite sets, division, sums over lists; what the dilation window of     *)
(* GridGeom reaches, and what the row order lists.                         *)
(***************************************************************************)
EXTENDS GridGeom, FiniteSetTheorems, TLAPS

\* A set of naturals that is not empty has a least element: of the initial
\* segments below its elements, one contains no other.
LEMMA LeastOf ==
  ASSUME NEW S \in SUBSET Nat, S # {}
  PROVE  \E m \in S : \A k \in S : m <= k
<1> DEFINE R == StrictSubsetOrdering(Nat)
           T == {0 .. m - 1 : m \in S}
<1>1. IsWellFoundedOn(R, FiniteSubsetsOf(Nat))
  BY FS_StrictSubsetOrderingWellFounded
<1>2. T \subseteq FiniteSubsetsOf(Nat) /\ T # {}
  <2>1. ASSUME NEW m \in S PROVE 0 .. m - 1 \in FiniteSubsetsOf(Nat)
    BY FS_Interval DEF FiniteSubsetsOf
  <2>2. QED
    BY <2>1
<1> HIDE DEF R, T
<1>3. \E x \in T : \A y \in T : ~(<<y, x>> \in R)
  BY <1>1, <1>2, WFMin, Zenon
<1>4. PICK m \in S : \A y \in T : ~(<<y, 0 .. m - 1>> \in R)
  BY <1>3 DEF T
<1>5. ASSUME NEW k \in S, k < m PROVE FALSE
  <2>1. 0 .. k - 1 \in T /\ 0 .. m - 1 \in SUBSET Nat /\ 0 .. k - 1 \in SUBSET Nat
    BY DEF T
  <2>2. 0 .. k - 1 \subseteq 0 .. m - 1 /\ k \in 0 .. m - 1 /\ k \notin 0 .. k - 1
    BY <1>5
  <2>3. <<0 .. k - 1, 0 .. m - 1>> \in R
    BY <2>1, <2>2 DEF R, StrictSubsetOrdering
  <2>4. QED
    BY <1>4, <2>1, <2>3
<1>6. QED
  BY <1>5

\* A set of naturals that is not empty and bounded has a greatest element.
LEMMA GreatestOf ==
  ASSUME NEW n \in Nat, NEW S \in SUBSET (0 .. n), S # {}
  PROVE  \E m \in S : \A k \in S : k <= m
<1> DEFINE T == {n - k : k \in S}
<1>1. T \in SUBSET Nat /\ T # {}
  <2>1. ASSUME NEW k \in S PROVE n - k \in Nat
    <3>1. k \in 0 .. n
      OBVIOUS
    <3>2. QED
      BY <3>1
  <2>2. QED
    BY <2>1
<1> HIDE DEF T
<1>2. PICK d \in T : \A e \in T : d <= e
  BY <1>1, LeastOf
<1>3. PICK m \in S : d = n - m
  BY DEF T
<1>4. ASSUME NEW k \in S PROVE k <= m
  <2>1. n - k \in T
    BY DEF T
  <2>2. QED
    BY <1>2, <1>3, <2>1
<1>5. QED
  BY <1>4

\* Pairs of naturals that are not empty have one lexicographic minimum.
LEMMA FirstPair ==
  ASSUME NEW Q \in SUBSET (Nat \X Nat), Q # {}
  PROVE  \E p \in Q :
           /\ \A q \in Q : p[1] < q[1] \/ (p[1] = q[1] /\ p[2] <= q[2])
           /\ \A r \in Q :
                (\A q \in Q : r[1] < q[1] \/ (r[1] = q[1] /\ r[2] <= q[2])) => r = p
<1> DEFINE Least(p) == \A q \in Q : p[1] < q[1] \/ (p[1] = q[1] /\ p[2] <= q[2])
<1>1. \A q \in Q : q = <<q[1], q[2]>> /\ q[1] \in Nat /\ q[2] \in Nat
  OBVIOUS
<1>2. PICK m \in {q[1] : q \in Q} : \A n \in {q[1] : q \in Q} : m <= n
  <2>1. {q[1] : q \in Q} \in SUBSET Nat /\ {q[1] : q \in Q} # {}
    BY <1>1
  <2>2. QED
    BY <2>1, LeastOf
<1>3. PICK k \in {q[2] : q \in {p \in Q : p[1] = m}} :
        \A n \in {q[2] : q \in {p \in Q : p[1] = m}} : k <= n
  <2>1. /\ {q[2] : q \in {p \in Q : p[1] = m}} \in SUBSET Nat
        /\ {q[2] : q \in {p \in Q : p[1] = m}} # {}
    BY <1>1, <1>2
  <2>2. QED
    BY <2>1, LeastOf
<1>4. PICK p \in Q : p[1] = m /\ p[2] = k
  BY <1>3
<1>5. ASSUME NEW q \in Q PROVE p[1] < q[1] \/ (p[1] = q[1] /\ p[2] <= q[2])
  <2>1. m <= q[1] /\ m \in Nat /\ q[1] \in Nat
    BY <1>1, <1>2, <1>4
  <2>2. CASE q[1] = m
    BY <1>3, <1>4, <2>2
  <2>3. CASE q[1] # m
    BY <1>4, <2>1, <2>3
  <2>4. QED
    BY <2>2, <2>3
<1>6. ASSUME NEW r \in Q, Least(r) PROVE r = p
  <2>1. /\ p[1] < r[1] \/ (p[1] = r[1] /\ p[2] <= r[2])
        /\ r[1] < p[1] \/ (r[1] = p[1] /\ r[2] <= p[2])
    BY <1>5, <1>6
  <2>2. p[1] \in Nat /\ p[2] \in Nat /\ r[1] \in Nat /\ r[2] \in Nat
    BY <1>1
  <2>3. p[1] = r[1] /\ p[2] = r[2]
    BY <2>1, <2>2
  <2>4. QED
    BY <1>1, <2>3
<1>7. QED
  BY <1>5, <1>6

\* Quotient and remainder.
LEMMA DivMod ==
  ASSUME NEW a \in Nat, NEW k \in Nat \ {0}
  PROVE  a \div k \in Nat /\ a % k \in 0 .. k - 1 /\ a = k * (a \div k) + (a % k)
OBVIOUS

\* A number that lies in the q-th interval of length k has quotient q.
LEMMA DivIs ==
  ASSUME NEW a \in Nat, NEW k \in Nat \ {0}, NEW q \in Nat, k * q <= a, a < k * q + k
  PROVE  a \div k = q
<1> DEFINE d == a \div k
<1>1. d \in Nat /\ k * d <= a /\ a < k * d + k
  BY DivMod
<1> HIDE DEF d
<1>2. ~(d < q)
  <2>1. SUFFICES ASSUME d < q PROVE FALSE
    OBVIOUS
  <2>2. k * (d + 1) <= k * q
    BY <1>1, <2>1, SMTT(30)
  <2>3. k * (d + 1) = k * d + k
    BY <1>1
  <2>4. QED
    BY <1>1, <2>2, <2>3
<1>3. ~(q < d)
  <2>1. SUFFICES ASSUME q < d PROVE FALSE
    OBVIOUS
  <2>2. k * (q + 1) <= k * d
    BY <1>1, <2>1, SMTT(30)
  <2>3. k * (q + 1) = k * q + k
    OBVIOUS
  <2>4. QED
    BY <1>1, <2>2, <2>3
<1>4. d = q
  BY <1>1, <1>2, <1>3
<1>5. QED
  BY <1>4 DEF d

\* Division is monotone, and a multiple of the divisor passes through it.
LEMMA DivMonotone ==
  ASSUME NEW a \in Nat, NEW b \in Nat, NEW k \in Nat \ {0}, a <= b
  PROVE  a \div k <= b \div k
<1> DEFINE d == a \div k
           e == b \div k
<1>1. d \in Nat /\ e \in Nat /\ k * d <= a /\ b < k * e + k
  BY DivMod
<1> HIDE DEF d, e
<1>2. ~(e < d)
  <2>1. SUFFICES ASSUME e < d PROVE FALSE
    OBVIOUS
  <2>2. k * (e + 1) <= k * d
    BY <1>1, <2>1, SMTT(30)
  <2>3. k * (e + 1) = k * e + k
    BY <1>1
  <2>4. QED
    BY <1>1, <2>2, <2>3
<1>3. d <= e
  BY <1>1, <1>2
<1>4. QED
  BY <1>3 DEF d, e

LEMMA DivShift ==
  ASSUME NEW a \in Nat, NEW n \in Nat, NEW k \in Nat \ {0}
  PROVE  (a + k * n) \div k = (a \div k) + n
<1> DEFINE d == a \div k
<1>1. d \in Nat /\ k * d <= a /\ a < k * d + k
  BY DivMod
<1> HIDE DEF d
<1>2. k * (d + n) = k * d + k * n /\ k * n \in Nat
  BY <1>1
<1>3. a + k * n \in Nat /\ d + n \in Nat
  BY <1>1, <1>2
<1>4. (a + k * n) \div k = d + n
  BY <1>1, <1>2, <1>3, DivIs
<1>5. QED
  BY <1>4 DEF d

\* The index of the q-th of m inner steps in the p-th of n outer ones.
LEMMA PairIndex ==
  ASSUME NEW n \in Nat, NEW m \in Nat \ {0}, NEW p \in Nat, NEW q \in Nat, q < m
  PROVE  /\ m * p + q \in Nat
         /\ (m * p + q) \div m = p /\ (m * p + q) % m = q
         /\ p < n => m * p + q < m * n
<1> DEFINE x == m * p + q
<1>1. m * p \in Nat /\ x \in Nat /\ m * p <= x /\ x < m * p + m
  OBVIOUS
<1>2. x \div m = p
  <2> HIDE DEF x
  <2>1. QED
    BY <1>1, DivIs
<1>3. x % m = q
  <2>1. x = m * (x \div m) + (x % m) /\ x % m \in Nat
    <3> HIDE DEF x
    <3>1. QED
      BY <1>1, DivMod
  <2> DEFINE r == x % m
             z == m * p
  <2>2. x = z + r /\ x = z + q
    BY <1>2, <2>1
  <2>3. r \in Nat /\ z \in Nat
    BY <1>1, <2>1
  <2> HIDE DEF r, x, z
  <2>4. r = q
    BY <2>2, <2>3
  <2>5. QED
    BY <2>4 DEF r
<1>4. ASSUME p < n PROVE x < m * n
  <2>1. m * (p + 1) <= m * n
    BY <1>4, SMTT(30)
  <2>2. m * (p + 1) = m * p + m
    OBVIOUS
  <2> DEFINE z == m * p
             y == m * n
  <2>3. z + m <= y /\ x < z + m /\ z \in Nat /\ y \in Nat
    BY <1>1, <2>1, <2>2
  <2> HIDE DEF x, y, z
  <2>4. x < y
    BY <1>1, <2>3
  <2>5. QED
    BY <2>4 DEF y
<1>5. QED
  BY <1>1, <1>2, <1>3, <1>4

\* A finite set of naturals that is not empty has a greatest element: of the
\* sets of elements above its elements, one contains no other.
LEMMA HasGreatest ==
  ASSUME NEW S \in SUBSET Nat, IsFiniteSet(S), S # {}
  PROVE  \E m \in S : \A k \in S : k <= m
<1> DEFINE R == StrictSubsetOrdering(S)
           Above(m) == {k \in S : m <= k}
           T == {Above(m) : m \in S}
<1>1. IsWellFoundedOn(R, FiniteSubsetsOf(S))
  BY FS_StrictSubsetOrderingWellFounded
<1>2. T \subseteq FiniteSubsetsOf(S) /\ T # {}
  <2>1. ASSUME NEW m \in S PROVE Above(m) \in FiniteSubsetsOf(S)
    BY FS_Subset DEF FiniteSubsetsOf
  <2>2. QED
    BY <2>1
<1> HIDE DEF R, T
<1>3. \E x \in T : \A y \in T : ~(<<y, x>> \in R)
  BY <1>1, <1>2, WFMin, Zenon
<1>4. PICK m \in S : \A y \in T : ~(<<y, Above(m)>> \in R)
  BY <1>3 DEF T
<1>5. ASSUME NEW k \in S, m < k PROVE FALSE
  <2>1. Above(k) \in T /\ Above(m) \in SUBSET S /\ Above(k) \in SUBSET S
    BY DEF T
  <2>2. Above(k) \subseteq Above(m) /\ m \in Above(m) /\ m \notin Above(k)
    <3>1. m \in Nat /\ k \in Nat /\ \A j \in S : j \in Nat
      OBVIOUS
    <3>2. m \in Above(m) /\ ~(k <= m)
      BY <1>5, <3>1
    <3>3. ASSUME NEW j \in S, k <= j PROVE m <= j
      BY <1>5, <3>1, <3>3
    <3>4. QED
      BY <3>2, <3>3
  <2>3. <<Above(k), Above(m)>> \in R
    BY <2>1, <2>2 DEF R, StrictSubsetOrdering
  <2>4. QED
    BY <1>4, <2>1, <2>3
<1>6. QED
  BY <1>5

\* A function on 0 .. n given by its first value and by how each value
\* follows from the one before.
Recursive(A, b, n, step) ==
  \E f \in [0 .. n -> A] : f[0] = b /\ \A i \in 1 .. n : f[i] = step[i][f[i - 1]]

\* Such a function exists.
LEMMA RecursiveExists ==
  ASSUME NEW A, NEW b \in A, NEW n \in Nat, NEW step \in [1 .. n -> [A -> A]]
  PROVE  Recursive(A, b, n, step)
<1> DEFINE Good(k) == \E f \in [0 .. k -> A] :
                        f[0] = b /\ \A i \in 1 .. k : f[i] = step[i][f[i - 1]]
           T == {k \in 0 .. n : ~Good(k)}
<1>1. SUFFICES ASSUME T # {} PROVE FALSE
  <2>1. n \in 0 .. n
    OBVIOUS
  <2>2. SUFFICES Good(n)
    BY DEF Recursive
  <2> HIDE DEF Good
  <2>3. T = {} => Good(n)
    BY <2>1
  <2>4. QED
    BY <2>3 DEF Good
<1>2. T \in SUBSET Nat
  OBVIOUS
<1>3. PICK m \in T : \A k \in T : m <= k
  BY <1>1, <1>2, LeastOf
<1>4. m # 0
  <2>1. SUFFICES Good(0)
    OBVIOUS
  <2>2. [i \in 0 .. 0 |-> b] \in [0 .. 0 -> A]
    OBVIOUS
  <2>3. [i \in 0 .. 0 |-> b][0] = b /\ \A i \in 1 .. 0 : FALSE
    OBVIOUS
  <2>4. QED
    BY <2>2, <2>3
<1>5. m - 1 \in 0 .. n /\ m \in 1 .. n /\ m - 1 \notin T
  BY <1>3, <1>4
<1>6. PICK f \in [0 .. m - 1 -> A] :
        f[0] = b /\ \A i \in 1 .. m - 1 : f[i] = step[i][f[i - 1]]
  BY <1>5
<1> DEFINE g == [i \in 0 .. m |-> IF i = m THEN step[m][f[m - 1]] ELSE f[i]]
<1>7. step[m][f[m - 1]] \in A
  BY <1>5
<1>8. g \in [0 .. m -> A]
  BY <1>5, <1>7
<1>9. g[0] = b
  BY <1>5, <1>6
<1>10. ASSUME NEW i \in 1 .. m PROVE g[i] = step[i][g[i - 1]]
  <2>1. g[i - 1] = f[i - 1]
    BY <1>5
  <2>2. CASE i = m
    BY <1>5, <2>1, <2>2
  <2>3. CASE i # m
    BY <1>5, <1>6, <2>1, <2>3
  <2>4. QED
    BY <2>2, <2>3
<1>11. Good(m)
  BY <1>8, <1>9, <1>10
<1>12. QED
  BY <1>3, <1>11

\* The sum over a list, step by step.
LEMMA SumUnfold ==
  ASSUME NEW n \in Nat, NEW t \in [1 .. n -> Nat]
  PROVE  \E f \in [0 .. n -> Nat] :
           /\ f[0] = 0 /\ \A i \in 1 .. n : f[i] = f[i - 1] + t[i]
           /\ SumOf(t) = f[n]
<1> DEFINE sum[i \in 0 .. Len(t)] == IF i = 0 THEN 0 ELSE sum[i - 1] + t[i]
           step == [i \in 1 .. n |-> [x \in Nat |-> x + t[i]]]
<1>1. Len(t) = n
  OBVIOUS
<1>2. step \in [1 .. n -> [Nat -> Nat]]
  OBVIOUS
<1>3. \A i \in 1 .. n, x \in Nat : step[i][x] = x + t[i]
  OBVIOUS
<1> HIDE DEF step
<1>4. PICK f \in [0 .. n -> Nat] :
        f[0] = 0 /\ \A i \in 1 .. n : f[i] = step[i][f[i - 1]]
  <2>1. Recursive(Nat, 0, n, step)
    BY <1>2, RecursiveExists
  <2>2. QED
    BY <2>1 DEF Recursive
<1>5. ASSUME NEW i \in 1 .. n PROVE f[i] = f[i - 1] + t[i]
  <2>1. f[i - 1] \in Nat
    <3>1. i - 1 \in 0 .. n
      OBVIOUS
    <3>2. QED
      BY <3>1
  <2>2. QED
    BY <1>3, <1>4, <2>1
<1>6. f = [i \in 0 .. Len(t) |-> IF i = 0 THEN 0 ELSE f[i - 1] + t[i]]
  <2>1. ASSUME NEW i \in 0 .. n PROVE f[i] = IF i = 0 THEN 0 ELSE f[i - 1] + t[i]
    <3>1. i = 0 \/ i \in 1 .. n
      OBVIOUS
    <3>2. QED
      BY <1>4, <1>5, <3>1
  <2>2. QED
    BY <1>1, <2>1
<1>7. sum = [i \in 0 .. Len(t) |-> IF i = 0 THEN 0 ELSE sum[i - 1] + t[i]]
  BY <1>6, Zenon
<1>8. SumOf(t) = sum[Len(t)]
  BY Zenon DEF SumOf
<1> HIDE DEF sum
<1>9. /\ sum[0] = 0 /\ \A i \in 1 .. n : sum[i] = sum[i - 1] + t[i]
      /\ DOMAIN sum = 0 .. n
  <2>1. sum[0] = 0 /\ DOMAIN sum = 0 .. n
    BY <1>1, <1>7
  <2>2. \A i \in 1 .. n : i \in 0 .. n /\ i # 0
    OBVIOUS
  <2>3. QED
    BY <1>1, <1>7, <2>1, <2>2
<1>10. \A k \in 0 .. n : sum[k] = f[k]
  <2> DEFINE T == {k \in 0 .. n : sum[k] # f[k]}
  <2>1. SUFFICES ASSUME T # {} PROVE FALSE
    OBVIOUS
  <2>2. T \in SUBSET Nat
    OBVIOUS
  <2>3. PICK m \in T : \A k \in T : m <= k
    BY <2>1, <2>2, LeastOf
  <2>4. m # 0
    BY <1>4, <1>9, <2>3
  <2>5. m \in 1 .. n /\ m - 1 \in 0 .. n /\ m - 1 \notin T
    BY <2>3, <2>4
  <2>6. sum[m - 1] = f[m - 1]
    BY <2>5
  <2>7. sum[m] = f[m]
    BY <1>5, <1>9, <2>5, <2>6
  <2>8. QED
    BY <2>3, <2>7
<1>11. SumOf(t) = f[n]
  BY <1>1, <1>8, <1>10
<1>12. QED
  BY <1>4, <1>5, <1>11

\* The sum is monotone.
LEMMA SumFacts ==
  ASSUME NEW n \in Nat, NEW t \in [1 .. n -> Nat]
  PROVE  /\ SumOf(t) \in Nat
         /\ \A u \in [1 .. n -> Nat] :
              (\A i \in 1 .. n : t[i] <= u[i]) => SumOf(t) <= SumOf(u)
<1>1. PICK f \in [0 .. n -> Nat] :
        /\ f[0] = 0 /\ \A i \in 1 .. n : f[i] = f[i - 1] + t[i]
        /\ SumOf(t) = f[n]
  BY SumUnfold
<1>2. ASSUME NEW u \in [1 .. n -> Nat], \A i \in 1 .. n : t[i] <= u[i]
      PROVE  SumOf(t) <= SumOf(u)
  <2>1. PICK g \in [0 .. n -> Nat] :
          /\ g[0] = 0 /\ \A i \in 1 .. n : g[i] = g[i - 1] + u[i]
          /\ SumOf(u) = g[n]
    BY SumUnfold
  <2> DEFINE T == {k \in 0 .. n : ~(f[k] <= g[k])}
  <2>2. T = {}
    <3>1. SUFFICES ASSUME T # {} PROVE FALSE
      OBVIOUS
    <3>2. T \in SUBSET Nat
      OBVIOUS
    <3>3. PICK m \in T : \A k \in T : m <= k
      BY <3>1, <3>2, LeastOf
    <3>4. m # 0
      BY <1>1, <2>1, <3>3
    <3>5. m \in 1 .. n /\ m - 1 \in 0 .. n /\ m - 1 \notin T
      BY <3>3, <3>4
    <3>6. /\ f[m - 1] <= g[m - 1] /\ t[m] <= u[m]
          /\ f[m - 1] \in Nat /\ g[m - 1] \in Nat /\ t[m] \in Nat /\ u[m] \in Nat
      BY <1>2, <3>5
    <3>7. f[m] = f[m - 1] + t[m] /\ g[m] = g[m - 1] + u[m]
      BY <1>1, <2>1, <3>5
    <3>8. f[m] <= g[m]
      <4>1. \A w, x, y, z \in Nat : w <= x /\ y <= z => w + y <= x + z
        OBVIOUS
      <4>2. f[m - 1] + t[m] <= g[m - 1] + u[m]
        BY <3>6, <4>1
      <4>3. QED
        BY <3>7, <4>2
    <3>9. QED
      BY <3>3, <3>8
  <2>3. n \in 0 .. n
    OBVIOUS
  <2>4. f[n] <= g[n]
    BY <2>2, <2>3
  <2>5. QED
    BY <1>1, <2>1, <2>4
<1>3. SumOf(t) \in Nat
  BY <1>1
<1>4. QED
  BY <1>2, <1>3
-----------------------------------------------------------------------------
Thetas == 0 .. NTheta - 1
-----------------------------------------------------------------------------
(* The transition table and the dilation window. *)

LEMMA TransFacts ==
  ASSUME NEW a \in Actions, NEW t \in Thetas, NEW i \in DOMAIN Trans[a][t]
  PROVE  /\ Trans[a][t][i].dix \in Int /\ Trans[a][t][i].diy \in Int
         /\ Trans[a][t][i].dit \in Int /\ Trans[a][t][i].prob \in Nat
         /\ Trans[a][t][i] \in AllTrans
<1> DEFINE R == [dix : Int, diy : Int, dit : Int, prob : Nat]
           trs == Trans[a][t]
<1>1. trs \in Seq(R)
  BY GeomAssumption DEF Thetas
<1> HIDE DEF R
<1>2. \A k \in DOMAIN trs : trs[k] \in R
  <2> HIDE DEF trs
  <2>1. QED
    BY <1>1
<1>3. trs[i] \in R
  BY <1>2
<1>4. trs[i] \in AllTrans
  <2>1. <<a, t>> \in Actions \X (0 .. NTheta - 1)
    BY DEF Thetas
  <2>2. QED
    BY <2>1 DEF AllTrans
<1> HIDE DEF trs
<1>5. QED
  BY <1>3, <1>4 DEF R, trs

LEMMA TransLen ==
  ASSUME NEW a \in Actions, NEW t \in Thetas
  PROVE  /\ Len(Trans[a][t]) \in Nat \ {0}
         /\ DOMAIN Trans[a][t] = 1 .. Len(Trans[a][t])
<1>1. /\ Trans[a][t] \in Seq([dix : Int, diy : Int, dit : Int, prob : Nat])
      /\ Trans[a][t] # <<>>
  BY GeomAssumption DEF Thetas
<1>2. QED
  BY <1>1

LEMMA FinitePairs == IsFiniteSet(Actions \X Thetas) /\ IsFiniteSet(Thetas)
<1>1. IsFiniteSet(Thetas)
  BY GeomAssumption, FS_Interval DEF Thetas
<1>2. QED
  BY <1>1, GeomAssumption, FS_Product

\* A union over the actions and headings is finite if its members are.
LEMMA FiniteOver ==
  ASSUME NEW f, \A p \in Actions \X Thetas : IsFiniteSet(f[p])
  PROVE  IsFiniteSet(UNION {f[p] : p \in Actions \X Thetas})
<1> DEFINE P == Actions \X Thetas
           S == {f[p] : p \in P}
<1> HIDE DEF P
<1>1. IsFiniteSet(S)
  <2> DEFINE g == [p \in P |-> f[p]]
  <2>1. g \in Surjection(P, S)
    BY DEF Surjection
  <2>2. QED
    BY <2>1, FinitePairs, FS_Surjection DEF P
<1>2. \A x \in S : IsFiniteSet(x)
  BY DEF P
<1>3. IsFiniteSet(UNION S)
  BY <1>1, <1>2, FS_UNION
<1>4. QED
  BY <1>3 DEF P

\* The images of the transitions of one list under a function are finitely many.
LEMMA FiniteList ==
  ASSUME NEW a \in Actions, NEW t \in Thetas, NEW g
  PROVE  IsFiniteSet({g[i] : i \in DOMAIN Trans[a][t]})
<1> DEFINE D == DOMAIN Trans[a][t]
           h == [i \in D |-> g[i]]
<1>1. IsFiniteSet(D)
  BY TransLen, FS_Interval
<1> HIDE DEF D
<1>2. h \in Surjection(D, {g[i] : i \in D})
  BY DEF Surjection
<1>3. IsFiniteSet({g[i] : i \in D})
  BY <1>1, <1>2, FS_Surjection
<1>4. QED
  BY <1>3 DEF D

LEMMA MaxFacts ==
  ASSUME NEW S \in SUBSET Nat, IsFiniteSet(S), S # {}
  PROVE  Max(S) \in S /\ \A k \in S : k <= Max(S)
<1>1. PICK m \in S : \A k \in S : k <= m
  BY HasGreatest
<1>2. \E x \in S : \A y \in S : x >= y
  BY <1>1
<1>3. Max(S) \in S /\ \A y \in S : Max(S) >= y
  BY <1>2 DEF Max
<1>4. QED
  BY <1>3

LEMMA MinFacts ==
  ASSUME NEW S \in SUBSET Nat, S # {}
  PROVE  Min(S) \in S /\ \A k \in S : Min(S) <= k
<1>1. PICK m \in S : \A k \in S : m <= k
  BY LeastOf
<1>2. QED
  BY <1>1 DEF Min

LEMMA AbsFacts ==
  ASSUME NEW n \in Int
  PROVE  AbsInt(n) \in Nat /\ AbsInt(-n) = AbsInt(n)
BY DEF AbsInt

LEMMA AllTransFinite == IsFiniteSet(AllTrans)
<1> DEFINE P == Actions \X Thetas
           f == [p \in P |-> {Trans[p[1]][p[2]][i] : i \in DOMAIN Trans[p[1]][p[2]]}]
<1>1. ASSUME NEW p \in P PROVE IsFiniteSet(f[p])
  <2>1. p[1] \in Actions /\ p[2] \in Thetas
    OBVIOUS
  <2>2. IsFiniteSet({Trans[p[1]][p[2]][i] : i \in DOMAIN Trans[p[1]][p[2]]})
    BY <2>1, FiniteList
  <2>3. QED
    BY <2>2
<1>2. IsFiniteSet(UNION {f[p] : p \in P})
  <2> HIDE DEF f
  <2>1. QED
    BY <1>1, FiniteOver
<1>3. AllTrans \subseteq UNION {f[p] : p \in P}
  <2>1. SUFFICES ASSUME NEW x \in AllTrans PROVE x \in UNION {f[p] : p \in P}
    OBVIOUS
  <2>2. PICK p \in P : x \in {Trans[p[1]][p[2]][i] : i \in DOMAIN Trans[p[1]][p[2]]}
    BY DEF AllTrans, Thetas
  <2>3. f[p] = {Trans[p[1]][p[2]][i] : i \in DOMAIN Trans[p[1]][p[2]]}
    OBVIOUS
  <2> HIDE DEF f, P
  <2>4. QED
    BY <2>2, <2>3
<1> HIDE DEF f, P
<1>4. QED
  BY <1>2, <1>3, FS_Subset

\* The bounds of the window: no transition reaches further.
LEMMA DispFacts ==
  /\ DispX \in Nat /\ DispY \in Nat
  /\ \A tr \in AllTrans : AbsInt(tr.dix) <= DispX /\ AbsInt(tr.diy) <= DispY
<1>1. \A tr \in AllTrans : tr.dix \in Int /\ tr.diy \in Int
  <2>1. SUFFICES ASSUME NEW tr \in AllTrans PROVE tr.dix \in Int /\ tr.diy \in Int
    OBVIOUS
  <2>2. PICK p \in Actions \X Thetas :
          tr \in {Trans[p[1]][p[2]][i] : i \in DOMAIN Trans[p[1]][p[2]]}
    BY DEF AllTrans, Thetas
  <2>3. PICK i \in DOMAIN Trans[p[1]][p[2]] : tr = Trans[p[1]][p[2]][i]
    BY <2>2
  <2>4. p[1] \in Actions /\ p[2] \in Thetas
    OBVIOUS
  <2>5. QED
    BY <2>3, <2>4, TransFacts
<1>2. ASSUME NEW f \in [AllTrans -> Nat]
      PROVE  LET S == {1} \union {f[tr] : tr \in AllTrans}
             IN  Max(S) \in Nat /\ \A tr \in AllTrans : f[tr] <= Max(S)
  <2> DEFINE I == {f[tr] : tr \in AllTrans}
             S == {1} \union I
  <2>1. f \in Surjection(AllTrans, I)
    BY DEF Surjection
  <2>2. IsFiniteSet(I)
    BY <2>1, AllTransFinite, FS_Surjection
  <2>3. IsFiniteSet(S)
    BY <2>2, FS_AddElement
  <2>4. S \in SUBSET Nat /\ S # {}
    OBVIOUS
  <2>5. \A tr \in AllTrans : f[tr] \in S
    OBVIOUS
  <2> HIDE DEF S
  <2>6. Max(S) \in S /\ \A k \in S : k <= Max(S)
    BY <2>3, <2>4, MaxFacts
  <2>7. Max(S) \in Nat /\ \A tr \in AllTrans : f[tr] <= Max(S)
    BY <2>4, <2>5, <2>6
  <2>8. QED
    BY <2>7 DEF S
<1> DEFINE fx == [tr \in AllTrans |-> AbsInt(tr.dix)]
           fy == [tr \in AllTrans |-> AbsInt(tr.diy)]
<1>3. fx \in [AllTrans -> Nat] /\ fy \in [AllTrans -> Nat]
  BY <1>1, AbsFacts
<1>4. /\ {fx[tr] : tr \in AllTrans} = {AbsInt(tr.dix) : tr \in AllTrans}
      /\ {fy[tr] : tr \in AllTrans} = {AbsInt(tr.diy) : tr \in AllTrans}
  OBVIOUS
<1>5. \A tr \in AllTrans : fx[tr] = AbsInt(tr.dix) /\ fy[tr] = AbsInt(tr.diy)
  OBVIOUS
<1> HIDE DEF fx, fy
<1>6. DispX \in Nat /\ \A tr \in AllTrans : fx[tr] <= DispX
  BY <1>2, <1>3, <1>4 DEF DispX
<1>7. DispY \in Nat /\ \A tr \in AllTrans : fy[tr] <= DispY
  BY <1>2, <1>3, <1>4 DEF DispY
<1>8. QED
  BY <1>5, <1>6, <1>7

LEMMA ModOnce ==
  ASSUME NEW n \in Nat \ {0}, NEW x \in 0 .. 2 * n - 1
  PROVE  x % n = IF x < n THEN x ELSE x - n
<1>1. x = n * (x \div n) + (x % n) /\ x \div n \in Nat /\ x % n \in Nat
  BY DivMod
<1>2. CASE x < n
  <2>1. x \div n = 0
    BY <1>2, DivIs
  <2>2. QED
    BY <1>1, <1>2, <2>1
<1>3. CASE n <= x
  <2>1. x \div n = 1
    BY <1>3, DivIs
  <2>2. QED
    BY <1>1, <1>3, <2>1
<1>4. QED
  BY <1>2, <1>3

LEMMA ModRange ==
  ASSUME NEW n \in Nat \ {0}, NEW x \in Int
  PROVE  x % n \in 0 .. n - 1
OBVIOUS

\* The distance around the circle is the same from either end.
LEMMA CircFacts ==
  ASSUME NEW a \in Thetas, NEW b \in Thetas
  PROVE  CircDist(a, b) \in Nat /\ CircDist(a, b) = CircDist(b, a)
<1> DEFINE d == (a - b + NTheta) % NTheta
           e == (b - a + NTheta) % NTheta
<1>1. NTheta \in Nat \ {0} /\ a \in Nat /\ b \in Nat /\ a < NTheta /\ b < NTheta
  BY GeomAssumption DEF Thetas
<1>2. /\ a - b + NTheta \in 0 .. 2 * NTheta - 1
      /\ b - a + NTheta \in 0 .. 2 * NTheta - 1
  BY <1>1
<1>3. d = IF a < b THEN a - b + NTheta ELSE a - b
  <2> DEFINE x == a - b + NTheta
  <2>1. x \in 0 .. 2 * NTheta - 1 /\ (x < NTheta <=> a < b) /\ x - NTheta = a - b
    BY <1>1
  <2> HIDE DEF x
  <2>2. x % NTheta = IF x < NTheta THEN x ELSE x - NTheta
    BY <1>1, <2>1, ModOnce
  <2>3. x % NTheta = IF a < b THEN x ELSE a - b
    BY <2>1, <2>2
  <2>4. QED
    BY <2>3 DEF x
<1>4. e = IF b < a THEN b - a + NTheta ELSE b - a
  <2> DEFINE x == b - a + NTheta
  <2>1. x \in 0 .. 2 * NTheta - 1 /\ (x < NTheta <=> b < a) /\ x - NTheta = b - a
    BY <1>1
  <2> HIDE DEF x
  <2>2. x % NTheta = IF x < NTheta THEN x ELSE x - NTheta
    BY <1>1, <2>1, ModOnce
  <2>3. x % NTheta = IF b < a THEN x ELSE b - a
    BY <2>1, <2>2
  <2>4. QED
    BY <2>3 DEF x
<1>5. CircDist(a, b) = Min({d, NTheta - d}) /\ CircDist(b, a) = Min({e, NTheta - e})
  BY DEF CircDist
<1> HIDE DEF d, e
<1>6. d \in Nat /\ NTheta - d \in Nat
  BY <1>1, <1>3
<1>7. Min({d, NTheta - d}) \in Nat
  <2>1. Min({d, NTheta - d}) \in {d, NTheta - d}
    BY <1>6, MinFacts
  <2>2. QED
    BY <1>6, <2>1
<1>8. CASE a = b
  BY <1>5, <1>7, <1>8
<1>9. CASE a # b
  <2>1. e = NTheta - d /\ d = NTheta - e
    BY <1>1, <1>3, <1>4, <1>9
  <2>2. {d, NTheta - d} = {e, NTheta - e}
    BY <2>1
  <2>3. QED
    BY <1>5, <1>7, <2>2
<1>10. QED
  BY <1>8, <1>9

\* No transition turns further than DispT.
LEMMA DispTFacts ==
  /\ DispT \in Nat
  /\ \A a \in Actions, t \in Thetas : \A i \in DOMAIN Trans[a][t] :
       CircDist((Trans[a][t][i].dit + NTheta) % NTheta, t) <= DispT
<1> DEFINE P == Actions \X Thetas
           h(p) == {CircDist((Trans[p[1]][p[2]][i].dit + NTheta) % NTheta, p[2]) :
                      i \in DOMAIN Trans[p[1]][p[2]]}
           f == [p \in P |-> h(p)]
           U == UNION {f[p] : p \in P}
           V == UNION {h(p) : p \in P}
<1>1. ASSUME NEW p \in P PROVE IsFiniteSet(f[p]) /\ f[p] \in SUBSET Nat
  <2>1. p[1] \in Actions /\ p[2] \in Thetas
    OBVIOUS
  <2> DEFINE g == [i \in DOMAIN Trans[p[1]][p[2]] |->
                     CircDist((Trans[p[1]][p[2]][i].dit + NTheta) % NTheta, p[2])]
  <2>2. IsFiniteSet({g[i] : i \in DOMAIN Trans[p[1]][p[2]]})
    <3> HIDE DEF g
    <3>1. QED
      BY <2>1, FiniteList
  <2>3. {g[i] : i \in DOMAIN Trans[p[1]][p[2]]} = f[p]
    OBVIOUS
  <2>4. ASSUME NEW i \in DOMAIN Trans[p[1]][p[2]] PROVE g[i] \in Nat
    <3>1. Trans[p[1]][p[2]][i].dit + NTheta \in Int /\ NTheta \in Nat \ {0}
      BY <2>1, TransFacts, GeomAssumption
    <3>2. (Trans[p[1]][p[2]][i].dit + NTheta) % NTheta \in Thetas
      BY <3>1, ModRange DEF Thetas
    <3>3. QED
      BY <2>1, <3>2, CircFacts
  <2> HIDE DEF g, f
  <2>5. QED
    BY <2>2, <2>3, <2>4
<1>2. IsFiniteSet(U) /\ U \in SUBSET Nat
  <2> HIDE DEF f
  <2>1. IsFiniteSet(U)
    BY <1>1, FiniteOver
  <2>2. QED
    BY <1>1, <2>1
<1>3. U = V
  <2>1. \A p \in P : f[p] = h(p)
    BY Zenon
  <2> HIDE DEF f, h, P
  <2>2. QED
    BY <2>1
<1>4. DispT = Max({0} \union V)
  BY Zenon DEF DispT, Thetas
<1>5. IsFiniteSet({0} \union U) /\ {0} \union U \in SUBSET Nat
  <2> HIDE DEF U
  <2>1. QED
    BY <1>2, FS_AddElement
<1>6. DispT \in Nat /\ \A k \in U : k <= DispT
  <2> HIDE DEF U, V
  <2>1. Max({0} \union U) \in {0} \union U /\ \A k \in {0} \union U : k <= Max({0} \union U)
    BY <1>5, MaxFacts
  <2>2. QED
    BY <1>3, <1>4, <1>5, <2>1
<1>7. ASSUME NEW a \in Actions, NEW t \in Thetas, NEW i \in DOMAIN Trans[a][t]
      PROVE  CircDist((Trans[a][t][i].dit + NTheta) % NTheta, t) \in U
  <2> DEFINE c == CircDist((Trans[a][t][i].dit + NTheta) % NTheta, t)
  <2>1. <<a, t>> \in P /\ c \in h(<<a, t>>)
    OBVIOUS
  <2> HIDE DEF h, P, c
  <2>2. c \in V
    BY <2>1
  <2>3. QED
    BY <1>3, <2>2 DEF c
<1>8. QED
  <2> HIDE DEF U
  <2>1. QED
    BY <1>6, <1>7

\* A state that an evaluation of s reads lies in the window around s: it is
\* near, and no further around the circle than DispT.
LEMMA WindowReaches ==
  ASSUME NEW s \in GridStates, NEW a \in Actions, NEW i \in DOMAIN Trans[a][s[2]],
         Target(s[1], Trans[a][s[2]][i])[1] \in GridCols
  PROVE  LET d == Target(s[1], Trans[a][s[2]][i])
         IN  /\ d \in GridStates
             /\ <<d[1], s[1]>> \in GridNear
             /\ CircDist(s[2], d[2]) <= DispT
<1> DEFINE tr == Trans[a][s[2]][i]
           d == Target(s[1], tr)
<1>1. /\ s[2] \in Thetas /\ s[1] \in GridCols /\ s[1][1] \in Int /\ s[1][2] \in Int
  BY DEF GridStates, GridCols, Thetas
<1>2. tr.dix \in Int /\ tr.diy \in Int /\ tr.dit \in Int /\ tr \in AllTrans
  BY <1>1, TransFacts
<1>3. CircDist((tr.dit + NTheta) % NTheta, s[2]) <= DispT
  BY <1>1, DispTFacts
<1> HIDE DEF tr
<1>4. d = <<<<s[1][1] + tr.dix, s[1][2] + tr.diy>>, (tr.dit + NTheta) % NTheta>>
  BY DEF Target
<1>5. NTheta \in Nat \ {0} /\ tr.dit + NTheta \in Int
  BY <1>2, GeomAssumption
<1>6. d[2] \in Thetas /\ d[2] = (tr.dit + NTheta) % NTheta
  <2>1. (tr.dit + NTheta) % NTheta \in Thetas
    BY <1>5, ModRange DEF Thetas
  <2>2. d[2] = (tr.dit + NTheta) % NTheta
    BY <1>4
  <2>3. QED
    BY <2>1, <2>2
<1>7. d[1] \in GridCols
  BY DEF tr
<1>8. d \in GridStates
  BY <1>4, <1>6, <1>7 DEF GridStates, Thetas
<1>9. CircDist(s[2], d[2]) <= DispT
  BY <1>1, <1>3, <1>6, CircFacts
<1>10. d[1][1] - s[1][1] = tr.dix /\ d[1][2] - s[1][2] = tr.diy
  BY <1>1, <1>2, <1>4
<1>11. <<d[1], s[1]>> \in GridNear
  <2>1. AbsInt(tr.dix) <= DispX /\ AbsInt(tr.diy) <= DispY
    BY <1>2, DispFacts
  <2>2. <<d[1], s[1]>> \in GridCols \X GridCols
    BY <1>1, <1>7
  <2> HIDE DEF d
  <2>3. QED
    BY <1>10, <2>1, <2>2 DEF GridNear
<1>12. QED
  BY <1>8, <1>9, <1>11 DEF tr
-----------------------------------------------------------------------------
(* The row order of the candidates. *)

\* The loop of Sublist, step by step.
LEMMA SublistUnfold ==
  ASSUME NEW n \in Nat, NEW q, Len(q) = n, NEW S
  PROVE  \E p : /\ p[0] = <<>>
                /\ \A i \in 1 .. n :
                     p[i] = IF q[i] \in S THEN Append(p[i - 1], q[i]) ELSE p[i - 1]
                /\ Sublist(q, S) = p[n]
<1> DEFINE A == Seq(S)
           pick[i \in 0 .. n] ==
             IF i = 0 THEN <<>>
             ELSE IF q[i] \in S THEN Append(pick[i - 1], q[i]) ELSE pick[i - 1]
           step == [i \in 1 .. n |-> [x \in A |->
                      IF q[i] \in S THEN Append(x, q[i]) ELSE x]]
<1>1. n \in Nat /\ Len(q) = n
  OBVIOUS
<1>2. \A i \in 1 .. n, x \in A : q[i] \in S => Append(x, q[i]) \in A
  OBVIOUS
<1> HIDE DEF A
<1>3. step \in [1 .. n -> [A -> A]] /\ <<>> \in A
  BY <1>2 DEF A
<1>4. \A i \in 1 .. n, x \in A :
        step[i][x] = IF q[i] \in S THEN Append(x, q[i]) ELSE x
  OBVIOUS
<1>5. PICK f \in [0 .. n -> A] :
        f[0] = <<>> /\ \A i \in 1 .. n : f[i] = step[i][f[i - 1]]
  <2> HIDE DEF step
  <2>1. Recursive(A, <<>>, n, step)
    BY <1>1, <1>3, RecursiveExists
  <2>2. QED
    BY <2>1 DEF Recursive
<1>6. \A i \in 1 .. n :
        f[i] = IF q[i] \in S THEN Append(f[i - 1], q[i]) ELSE f[i - 1]
  <2>1. ASSUME NEW i \in 1 .. n PROVE f[i - 1] \in A
    <3>1. i - 1 \in 0 .. n
      BY <1>1
    <3>2. QED
      BY <3>1
  <2> HIDE DEF step
  <2>2. QED
    BY <1>4, <1>5, <2>1
<1> HIDE DEF step
<1>7. f = [i \in 0 .. n |->
             IF i = 0 THEN <<>>
             ELSE IF q[i] \in S THEN Append(f[i - 1], q[i]) ELSE f[i - 1]]
  <2>1. ASSUME NEW i \in 0 .. n
        PROVE  f[i] = IF i = 0 THEN <<>>
                      ELSE IF q[i] \in S THEN Append(f[i - 1], q[i]) ELSE f[i - 1]
    <3>1. i = 0 \/ i \in 1 .. n
      BY <1>1
    <3>2. QED
      BY <1>5, <1>6, <3>1
  <2>2. QED
    BY <2>1
<1>8. pick = [i \in 0 .. n |->
             IF i = 0 THEN <<>>
             ELSE IF q[i] \in S THEN Append(pick[i - 1], q[i]) ELSE pick[i - 1]]
  BY <1>7, Zenon
<1> HIDE DEF pick
<1>9. pick[0] = <<>>
  BY <1>1, <1>8
<1>10. \A i \in 1 .. n :
         pick[i] = IF q[i] \in S THEN Append(pick[i - 1], q[i]) ELSE pick[i - 1]
  <2>1. ASSUME NEW i \in 1 .. n PROVE i \in 0 .. n /\ i # 0
    BY <1>1
  <2>2. QED
    BY <1>8, <2>1
<1>11. Sublist(q, S) = pick[n]
  <2> USE DEF pick
  <2>1. QED
    BY <1>1, Zenon DEF Sublist
<1>12. QED
  BY <1>9, <1>10, <1>11

\* The rows list every column once.
LEMMA RowMajorFacts ==
  /\ NX * NY \in Nat
  /\ \A i \in 1 .. NX * NY : RowMajor[i] \in GridCols
  /\ \A i, j \in 1 .. NX * NY : RowMajor[i] = RowMajor[j] => i = j
  /\ \A c \in GridCols : \E i \in 1 .. NX * NY : RowMajor[i] = c
<1> DEFINE n == NX * NY
<1>1. NX \in Nat \ {0} /\ NY \in Nat \ {0} /\ n \in Nat
  <2>1. NX \in Nat \ {0} /\ NY \in Nat \ {0}
    BY GeomAssumption
  <2>2. QED
    BY <2>1
<1>2. \A i \in 1 .. n : RowMajor[i] = <<(i - 1) % NX, (i - 1) \div NX>>
  BY DEF RowMajor
<1>3. ASSUME NEW i \in 1 .. n
      PROVE  /\ (i - 1) % NX \in 0 .. NX - 1
             /\ (i - 1) \div NX \in 0 .. NY - 1
             /\ i - 1 = NX * ((i - 1) \div NX) + ((i - 1) % NX)
  <2> DEFINE q == (i - 1) \div NX
             r == (i - 1) % NX
  <2>1. i - 1 \in Nat
    OBVIOUS
  <2>2. q \in Nat /\ r \in 0 .. NX - 1 /\ i - 1 = NX * q + r
    BY <1>1, <2>1, DivMod
  <2> HIDE DEF q, r
  <2>3. q < NY
    <3>1. SUFFICES ASSUME NY <= q PROVE FALSE
      BY <1>1, <2>2
    <3>2. NX * NY <= NX * q
      BY <1>1, <2>2, <3>1, SMTT(30)
    <3>3. QED
      BY <1>1, <2>2, <3>2
  <2>4. q \in 0 .. NY - 1
    BY <1>1, <2>2, <2>3
  <2>5. QED
    BY <2>2, <2>4 DEF q, r
<1>4. ASSUME NEW i \in 1 .. n PROVE RowMajor[i] \in GridCols
  <2>1. (i - 1) % NX \in 0 .. NX - 1 /\ (i - 1) \div NX \in 0 .. NY - 1
    BY <1>3
  <2>2. RowMajor[i] = <<(i - 1) % NX, (i - 1) \div NX>>
    BY <1>2
  <2>3. QED
    BY <2>1, <2>2 DEF GridCols
<1>5. ASSUME NEW i \in 1 .. n, NEW j \in 1 .. n, RowMajor[i] = RowMajor[j]
      PROVE  i = j
  <2>1. (i - 1) % NX = (j - 1) % NX /\ (i - 1) \div NX = (j - 1) \div NX
    BY <1>2, <1>5
  <2>2. i - 1 = j - 1
    BY <1>3, <2>1
  <2>3. QED
    BY <2>2
<1>6. ASSUME NEW c \in GridCols PROVE \E i \in 1 .. n : RowMajor[i] = c
  <2>1. /\ c[1] \in 0 .. NX - 1 /\ c[2] \in 0 .. NY - 1 /\ c = <<c[1], c[2]>>
    BY DEF GridCols
  <2> DEFINE x == c[1]
             y == c[2]
             k == NX * y + x
  <2>2. x \in Nat /\ y \in Nat /\ x < NX /\ y + 1 <= NY
    BY <1>1, <2>1
  <2> HIDE DEF x, y
  <2>3. k \in Nat /\ NX * y <= k /\ k < NX * y + NX
    BY <1>1, <2>2
  <2>4. NX * (y + 1) <= NX * NY
    BY <1>1, <2>2, SMTT(30)
  <2>5. NX * (y + 1) = NX * y + NX
    BY <1>1, <2>2
  <2>6. k + 1 \in 1 .. n
    <3>1. k < n
      <4> DEFINE m == NX * y
      <4>1. k < m + NX /\ m + NX <= n /\ m \in Int
        BY <1>1, <2>2, <2>3, <2>4, <2>5
      <4> HIDE DEF k, n, m
      <4>2. QED
        BY <1>1, <2>3, <4>1
    <3> HIDE DEF k, n
    <3>2. QED
      BY <1>1, <2>3, <3>1
  <2>7. k \div NX = y
    <3> HIDE DEF k
    <3>1. QED
      BY <1>1, <2>2, <2>3, DivIs
  <2>8. k % NX = x
    <3>1. k = NX * (k \div NX) + (k % NX) /\ k % NX \in Nat
      <4> HIDE DEF k
      <4>1. QED
        BY <1>1, <2>3, DivMod
    <3>2. k = NX * y + (k % NX)
      BY <2>7, <3>1
    <3> DEFINE r == k % NX
    <3> HIDE DEF r
    <3>3. k = NX * y + r /\ r \in Nat
      BY <3>1, <3>2 DEF r
    <3>4. r = x
      BY <1>1, <2>2, <3>3
    <3>5. QED
      BY <3>4 DEF r
  <2>9. RowMajor[k + 1] = <<x, y>>
    <3> HIDE DEF k, n
    <3>1. PICK j \in 1 .. n : j = k + 1
      BY <2>6
    <3>2. j - 1 = k
      BY <2>3, <3>1
    <3>3. RowMajor[j] = <<(j - 1) % NX, (j - 1) \div NX>>
      BY <1>2
    <3>4. QED
      BY <2>7, <2>8, <3>1, <3>2, <3>3
  <2> HIDE DEF k
  <2>10. QED
    BY <2>1, <2>6, <2>9 DEF x, y
<1>7. QED
  BY <1>1, <1>4, <1>5, <1>6
\* A sublist lists the members of S that q lists, and each once if q does.
LEMMA SublistFacts ==
  ASSUME NEW n \in Nat, NEW q, Len(q) = n, NEW S
  PROVE  LET r == Sublist(q, S)
         IN  /\ r \in Seq(S)
             /\ \A j \in 1 .. Len(r) : \E i \in 1 .. n : r[j] = q[i] /\ q[i] \in S
             /\ (\A i, j \in 1 .. n : q[i] = q[j] => i = j) =>
                  \A j, l \in 1 .. Len(r) : r[j] = r[l] => j = l
             /\ \A i \in 1 .. n : q[i] \in S => \E j \in 1 .. Len(r) : r[j] = q[i]
<1> DEFINE A == Seq(S)
           Once == \A i, j \in 1 .. n : q[i] = q[j] => i = j
<1>1. n \in Nat /\ Len(q) = n
  OBVIOUS
<1>2. PICK pick : /\ pick[0] = <<>>
                  /\ \A i \in 1 .. n :
                       pick[i] = IF q[i] \in S THEN Append(pick[i - 1], q[i]) ELSE pick[i - 1]
                  /\ Sublist(q, S) = pick[n]
  BY SublistUnfold
<1> HIDE DEF A, Once
<1>9. pick[0] = <<>>
  BY <1>2
<1>10. \A i \in 1 .. n :
         pick[i] = IF q[i] \in S THEN Append(pick[i - 1], q[i]) ELSE pick[i - 1]
  BY <1>2
<1> DEFINE Lists(k) ==
             /\ pick[k] \in A
             /\ \A j \in 1 .. Len(pick[k]) :
                  \E i \in 1 .. k : pick[k][j] = q[i] /\ q[i] \in S
             /\ Once => \A j, l \in 1 .. Len(pick[k]) : pick[k][j] = pick[k][l] => j = l
             /\ \A i \in 1 .. k :
                  q[i] \in S => \E j \in 1 .. Len(pick[k]) : pick[k][j] = q[i]
<1>11. Lists(0)
  BY <1>9 DEF A
<1>12. ASSUME NEW k \in 1 .. n, Lists(k - 1) PROVE Lists(k)
  <2> DEFINE p == pick[k - 1]
             c == q[k]
  <2>1. k - 1 \in Nat /\ \A i \in 1 .. k : i \in 1 .. k - 1 \/ i = k
    BY <1>1
  <2>2. /\ p \in Seq(S)
        /\ \A j \in 1 .. Len(p) : \E i \in 1 .. k - 1 : p[j] = q[i] /\ q[i] \in S
        /\ Once => \A j, l \in 1 .. Len(p) : p[j] = p[l] => j = l
        /\ \A i \in 1 .. k - 1 : q[i] \in S => \E j \in 1 .. Len(p) : p[j] = q[i]
    BY <1>12 DEF A
  <2>3. pick[k] = IF c \in S THEN Append(p, c) ELSE p
    BY <1>10
  <2>4. \A i \in 1 .. k - 1 : i \in 1 .. k
    BY <2>1
  <2> HIDE DEF p
  <2>5. CASE c \notin S
    <3>1. pick[k] = p
      BY <2>3, <2>5
    <3>2. \A j \in 1 .. Len(p) : \E i \in 1 .. k : p[j] = q[i] /\ q[i] \in S
      BY <2>2, <2>4
    <3>3. \A i \in 1 .. k : q[i] \in S => \E j \in 1 .. Len(p) : p[j] = q[i]
      BY <2>1, <2>2, <2>5
    <3>4. QED
      BY <2>2, <3>1, <3>2, <3>3 DEF A
  <2>6. CASE c \in S
    <3> DEFINE z == Append(p, c)
               m == Len(p)
    <3>1. /\ z \in Seq(S) /\ Len(z) = m + 1 /\ z[m + 1] = c /\ m \in Nat
          /\ \A j \in 1 .. m : z[j] = p[j]
      BY <2>2, <2>6
    <3>2. pick[k] = z
      BY <2>3, <2>6
    <3> HIDE DEF z, c, m
    <3>3. \A j \in 1 .. m + 1 : j \in 1 .. m \/ j = m + 1
      BY <3>1
    <3>4. \A j \in 1 .. m : \E i \in 1 .. k - 1 : z[j] = q[i] /\ q[i] \in S
      BY <2>2, <3>1 DEF m
    <3>5. ASSUME NEW j \in 1 .. m + 1
          PROVE  \E i \in 1 .. k : z[j] = q[i] /\ q[i] \in S
      <4>1. CASE j \in 1 .. m
        BY <2>4, <3>4, <4>1
      <4>2. CASE j = m + 1
        BY <2>1, <2>6, <3>1, <4>2 DEF c
      <4>3. QED
        BY <3>3, <4>1, <4>2
    <3>6. ASSUME Once, NEW j \in 1 .. m PROVE z[j] # c
      <4>1. PICK i \in 1 .. k - 1 : z[j] = q[i]
        BY <3>4
      <4>2. i \in 1 .. n /\ k \in 1 .. n /\ i # k
        BY <1>1, <2>1, <4>1
      <4>3. q[i] # q[k]
        BY <3>6, <4>2 DEF Once
      <4>4. QED
        BY <4>1, <4>3 DEF c
    <3>7. ASSUME Once, NEW j \in 1 .. m + 1, NEW l \in 1 .. m + 1, z[j] = z[l]
          PROVE  j = l
      <4>1. CASE j \in 1 .. m /\ l \in 1 .. m
        BY <2>2, <3>1, <3>7, <4>1 DEF m
      <4>2. CASE j = m + 1 \/ l = m + 1
        BY <3>1, <3>3, <3>6, <3>7, <4>2
      <4>3. QED
        BY <3>3, <4>1, <4>2
    <3>8. ASSUME NEW i \in 1 .. k, q[i] \in S
          PROVE  \E j \in 1 .. m + 1 : z[j] = q[i]
      <4>1. CASE i = k
        <5>1. m + 1 \in 1 .. m + 1
          BY <3>1
        <5>2. QED
          BY <3>1, <4>1, <5>1 DEF c
      <4>2. CASE i \in 1 .. k - 1
        <5>1. PICK j \in 1 .. m : p[j] = q[i]
          BY <2>2, <3>8, <4>2 DEF m
        <5>2. z[j] = q[i] /\ j \in 1 .. m + 1
          BY <3>1, <5>1
        <5>3. QED
          BY <5>2
      <4>3. QED
        BY <2>1, <4>1, <4>2
    <3>9. Len(pick[k]) = m + 1 /\ pick[k] \in A
      BY <3>1, <3>2 DEF A
    <3>10. QED
      BY <3>2, <3>5, <3>7, <3>8, <3>9
  <2>7. QED
    BY <2>5, <2>6
<1>13. Lists(n)
  <2> DEFINE T == {k \in 0 .. n : ~Lists(k)}
  <2>1. SUFFICES ASSUME T # {} PROVE FALSE
    <3>1. n \in 0 .. n
      BY <1>1
    <3> HIDE DEF Lists
    <3>2. T = {} => Lists(n)
      BY <3>1
    <3>3. QED
      BY <3>2 DEF Lists
  <2> HIDE DEF Lists
  <2>2. T \in SUBSET Nat
    BY <1>1
  <2>3. PICK m \in T : \A k \in T : m <= k
    BY <2>1, <2>2, LeastOf
  <2>4. m # 0
    BY <1>11, <2>3
  <2>5. m \in 1 .. n /\ m - 1 \in 0 .. n /\ m - 1 \notin T
    BY <1>1, <2>3, <2>4
  <2>6. Lists(m - 1)
    BY <2>5
  <2>7. Lists(m)
    BY <1>12, <2>5, <2>6
  <2>8. QED
    BY <2>3, <2>7
<1>14. Sublist(q, S) = pick[n]
  BY <1>2
<1>15. QED
  BY <1>13, <1>14 DEF A, Once

\* Sublist keeps the order of the list.
LEMMA SublistOrder ==
  ASSUME NEW n \in Nat, NEW q, Len(q) = n, NEW S
  PROVE  \E f \in [1 .. Len(Sublist(q, S)) -> 1 .. n] :
           /\ \A j \in 1 .. Len(Sublist(q, S)) : Sublist(q, S)[j] = q[f[j]] /\ q[f[j]] \in S
           /\ \A j, l \in 1 .. Len(Sublist(q, S)) : j < l => f[j] < f[l]
<1>1. PICK pick : /\ pick[0] = <<>>
                  /\ \A i \in 1 .. n :
                       pick[i] = IF q[i] \in S THEN Append(pick[i - 1], q[i]) ELSE pick[i - 1]
                  /\ Sublist(q, S) = pick[n]
  BY SublistUnfold
<1> DEFINE Placed(p, f, k) ==
             /\ f \in [1 .. Len(p) -> 1 .. k]
             /\ \A j \in 1 .. Len(p) : p[j] = q[f[j]] /\ q[f[j]] \in S
             /\ \A j, l \in 1 .. Len(p) : j < l => f[j] < f[l]
           Good(k) == pick[k] \in Seq(S) /\ \E f : Placed(pick[k], f, k)
<1>2. Good(0)
  <2>1. pick[0] = <<>> /\ <<>> \in Seq(S) /\ Len(<<>>) = 0
    BY <1>1
  <2>2. [j \in 1 .. 0 |-> j] \in [1 .. 0 -> 1 .. 0] /\ \A j \in 1 .. 0 : FALSE
    OBVIOUS
  <2>3. Placed(<<>>, [j \in 1 .. 0 |-> j], 0)
    BY <2>1, <2>2
  <2> HIDE DEF Placed
  <2>4. QED
    BY <2>1, <2>3
<1>3. ASSUME NEW k \in 1 .. n, Good(k - 1) PROVE Good(k)
  <2> DEFINE p == pick[k - 1]
             c == q[k]
             m == Len(p)
  <2>1. pick[k] = IF c \in S THEN Append(p, c) ELSE p
    BY <1>1
  <2>2. p \in Seq(S)
    BY <1>3
  <2>3. PICK f : Placed(p, f, k - 1)
    <3> HIDE DEF Placed
    <3>1. QED
      BY <1>3
  <2> HIDE DEF p, c
  <2>4. m \in Nat /\ k \in Nat /\ \A i \in 1 .. k - 1 : i \in 1 .. k /\ i < k
    BY <2>2
  <2>5. CASE c \notin S
    <3>1. pick[k] = p
      BY <2>1, <2>5
    <3>2. f \in [1 .. Len(p) -> 1 .. k]
      BY <2>3, <2>4
    <3>3. Placed(p, f, k)
      BY <2>3, <3>2
    <3> HIDE DEF Placed
    <3>4. QED
      BY <2>2, <3>1, <3>3
  <2>6. CASE c \in S
    <3> DEFINE z == Append(p, c)
               g == [j \in 1 .. m + 1 |-> IF j = m + 1 THEN k ELSE f[j]]
    <3>1. /\ z \in Seq(S) /\ Len(z) = m + 1 /\ z[m + 1] = c
          /\ \A j \in 1 .. m : z[j] = p[j]
      BY <2>2, <2>6
    <3>2. pick[k] = z
      BY <2>1, <2>6
    <3> HIDE DEF z, m
    <3>3. \A j \in 1 .. m + 1 : j \in 1 .. m \/ j = m + 1
      BY <2>4
    <3>4. /\ f \in [1 .. m -> 1 .. k - 1]
          /\ \A j \in 1 .. m : p[j] = q[f[j]] /\ q[f[j]] \in S
          /\ \A j, l \in 1 .. m : j < l => f[j] < f[l]
      BY <2>3 DEF m
    <3>5. /\ g[m + 1] = k
          /\ \A j \in 1 .. m : g[j] = f[j] /\ f[j] \in 1 .. k /\ f[j] < k
      BY <2>4, <3>4
    <3>6. g \in [1 .. m + 1 -> 1 .. k]
      BY <2>4, <3>4
    <3> HIDE DEF g
    <3>7. ASSUME NEW j \in 1 .. m + 1 PROVE z[j] = q[g[j]] /\ q[g[j]] \in S
      <4>1. CASE j \in 1 .. m
        BY <3>1, <3>4, <3>5, <4>1
      <4>2. CASE j = m + 1
        BY <2>6, <3>1, <3>5, <4>2 DEF c
      <4>3. QED
        BY <3>3, <4>1, <4>2
    <3>8. ASSUME NEW j \in 1 .. m + 1, NEW l \in 1 .. m + 1, j < l PROVE g[j] < g[l]
      <4>1. j \in 1 .. m
        BY <2>4, <3>8
      <4>2. CASE l \in 1 .. m
        BY <3>4, <3>5, <3>8, <4>1, <4>2
      <4>3. CASE l = m + 1
        BY <3>5, <4>1, <4>3
      <4>4. QED
        BY <3>3, <4>2, <4>3
    <3>9. Placed(z, g, k)
      BY <3>1, <3>6, <3>7, <3>8
    <3> HIDE DEF Placed
    <3>10. QED
      BY <3>1, <3>2, <3>9
  <2>7. QED
    BY <2>5, <2>6
<1> HIDE DEF Good
<1>4. Good(n)
  <2> DEFINE T == {k \in 0 .. n : ~Good(k)}
  <2>1. SUFFICES ASSUME T # {} PROVE FALSE
    <3>1. n \in 0 .. n
      OBVIOUS
    <3>2. QED
      BY <3>1
  <2>2. T \in SUBSET Nat
    OBVIOUS
  <2>3. PICK m \in T : \A k \in T : m <= k
    BY <2>1, <2>2, LeastOf
  <2>4. m # 0
    BY <1>2, <2>3
  <2>5. m \in 1 .. n /\ m - 1 \in 0 .. n /\ m - 1 \notin T
    BY <2>3, <2>4
  <2>6. Good(m)
    BY <1>3, <2>5
  <2>7. QED
    BY <2>3, <2>6
<1>5. PICK f : Placed(pick[n], f, n)
  <2> HIDE DEF Placed
  <2>1. QED
    BY <1>4 DEF Good
<1>6. QED
  BY <1>1, <1>5

\* In short: every listed member of S.
LEMMA SublistHas ==
  ASSUME NEW q, NEW S, Len(q) \in Nat
  PROVE  /\ Sublist(q, S) \in Seq(S)
         /\ \A i \in 1 .. Len(q) :
              q[i] \in S => \E j \in 1 .. Len(Sublist(q, S)) : Sublist(q, S)[j] = q[i]
<1>1. PICK n \in Nat : Len(q) = n
  OBVIOUS
<1> DEFINE r == Sublist(q, S)
<1>2. /\ r \in Seq(S)
      /\ \A j \in 1 .. Len(r) : \E i \in 1 .. n : r[j] = q[i] /\ q[i] \in S
      /\ (\A i, j \in 1 .. n : q[i] = q[j] => i = j) =>
           \A j, l \in 1 .. Len(r) : r[j] = r[l] => j = l
      /\ \A i \in 1 .. n : q[i] \in S => \E j \in 1 .. Len(r) : r[j] = q[i]
  BY <1>1, SublistFacts, ZenonT(40)
<1>3. QED
  BY <1>1, <1>2

LEMMA ScanLists ==
  ASSUME NEW S \in SUBSET GridCols, NEW rev \in BOOLEAN
  PROVE  /\ GridScan(S, rev) \in Seq(GridCols)
         /\ \A i, j \in 1 .. Len(GridScan(S, rev)) :
              GridScan(S, rev)[i] = GridScan(S, rev)[j] => i = j
         /\ \A c \in S : \E i \in 1 .. Len(GridScan(S, rev)) : GridScan(S, rev)[i] = c
         /\ \A i \in 1 .. Len(GridScan(S, rev)) : GridScan(S, rev)[i] \in S
<1> DEFINE q == Sublist(RowMajor, S)
<1>1. /\ q \in Seq(GridCols) /\ Len(q) \in Nat
      /\ \A i \in 1 .. Len(q) : q[i] \in S
      /\ \A i, j \in 1 .. Len(q) : q[i] = q[j] => i = j
      /\ \A c \in S : \E i \in 1 .. Len(q) : q[i] = c
  <2>1. NX * NY \in Nat /\ Len(RowMajor) = NX * NY
    BY RowMajorFacts DEF RowMajor
  <2>2. /\ q \in Seq(S)
        /\ \A j \in 1 .. Len(q) : \E i \in 1 .. NX * NY : q[j] = RowMajor[i] /\ RowMajor[i] \in S
        /\ (\A i, j \in 1 .. NX * NY : RowMajor[i] = RowMajor[j] => i = j) =>
             \A j, l \in 1 .. Len(q) : q[j] = q[l] => j = l
        /\ \A i \in 1 .. NX * NY : RowMajor[i] \in S => \E j \in 1 .. Len(q) : q[j] = RowMajor[i]
    BY <2>1, SublistFacts
  <2> HIDE DEF q
  <2>3. q \in Seq(GridCols) /\ Len(q) \in Nat
    BY <2>2
  <2>4. \A c \in S : \E i \in 1 .. NX * NY : RowMajor[i] = c
    BY RowMajorFacts
  <2>5. \A c \in S : \E i \in 1 .. Len(q) : q[i] = c
    BY <2>2, <2>4
  <2>6. \A i, j \in 1 .. Len(q) : q[i] = q[j] => i = j
    BY <2>2, RowMajorFacts
  <2>7. QED
    BY <2>2, <2>3, <2>5, <2>6
<1>2. GridScan(S, rev) = IF rev THEN [i \in 1 .. Len(q) |-> q[Len(q) + 1 - i]] ELSE q
  BY Zenon DEF GridScan
<1> HIDE DEF q
<1>3. CASE ~rev
  BY <1>1, <1>2, <1>3
<1>4. CASE rev
  <2> DEFINE r == [i \in 1 .. Len(q) |-> q[Len(q) + 1 - i]]
  <2>1. \A i \in 1 .. Len(q) : Len(q) + 1 - i \in 1 .. Len(q)
    BY <1>1
  <2>2. r \in Seq(GridCols) /\ Len(r) = Len(q)
    BY <1>1, <2>1
  <2>3. \A i \in 1 .. Len(q) : r[i] = q[Len(q) + 1 - i]
    OBVIOUS
  <2> HIDE DEF r
  <2>4. ASSUME NEW i \in 1 .. Len(q), NEW j \in 1 .. Len(q), r[i] = r[j]
        PROVE  i = j
    <3>1. PICK k \in 1 .. Len(q) : k = Len(q) + 1 - i
      BY <2>1
    <3>2. PICK l \in 1 .. Len(q) : l = Len(q) + 1 - j
      BY <2>1
    <3>3. q[k] = q[l]
      BY <2>3, <2>4, <3>1, <3>2
    <3>4. k = l
      BY <1>1, <3>3
    <3>5. QED
      BY <1>1, <3>1, <3>2, <3>4
  <2>5. ASSUME NEW c \in S PROVE \E i \in 1 .. Len(q) : r[i] = c
    <3>1. PICK i \in 1 .. Len(q) : q[i] = c
      BY <1>1
    <3>2. /\ Len(q) + 1 - i \in 1 .. Len(q)
          /\ Len(q) + 1 - (Len(q) + 1 - i) = i
      BY <1>1
    <3>3. r[Len(q) + 1 - i] = q[Len(q) + 1 - (Len(q) + 1 - i)]
      BY <2>3, <3>2
    <3>4. QED
      BY <3>1, <3>2, <3>3
  <2>6. \A i \in 1 .. Len(q) : r[i] \in S
    BY <1>1, <2>1, <2>3
  <2>7. GridScan(S, rev) = r
    BY <1>2, <1>4 DEF r
  <2>8. QED
    BY <2>2, <2>4, <2>5, <2>6, <2>7
<1>5. QED
  BY <1>3, <1>4
=============================================================================
