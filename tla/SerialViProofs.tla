--------------------------- MODULE SerialViProofs ---------------------------
(***************************************************************************)
(* Theorems about SerialVi: no frontier forgets a state.  A state that one *)
(* more visit would lower is still to come in the round or near something  *)
(* that fell, for every map, action list, block size and budget, and for   *)
(* every arithmetic for which costs are steady (CostsSteady).              *)
(***************************************************************************)
EXTENDS SerialVi, GridFacts
-----------------------------------------------------------------------------
(* The costs of the ten backups, as one function of a table. *)

\* Where outcome i of action a takes state s.
Reads(a, s, i) == Target(s[1], Trans[a][s[2]][i])

\* What action_cost_topk and the others divide by.
Share(a, s) ==
  LET trs == Trans[a][s[2]]
  IN  IF kind = "topk" /\ Len(trs) > TopK
      THEN SumOf([i \in 1 .. Len(trs) |-> IF i \in Used(a, s) THEN trs[i].prob ELSE 0])
      ELSE ProbBase

Open(v, a, s) ==
  /\ Share(a, s) # 0
  /\ \A i \in Used(a, s) :
       /\ Reads(a, s, i)[1] \in GridCols \intersect free
       /\ kind = "pad" => v[Reads(a, s, i)] # TopCost

CostBy(v, a, s) ==
  IF Open(v, a, s) THEN (UsedSum(v, a, s) % Word) \div Share(a, s) ELSE TopCost

BestBy(v, s) == Best({<<CostBy(v, a, s), a>> : a \in acts})

LEMMA OutcomeFacts ==
  ASSUME NEW s \in GridStates, NEW a \in Actions
  PROVE  LET trs == Trans[a][s[2]] IN
         /\ Len(trs) \in Nat \ {0} /\ DOMAIN trs = 1 .. Len(trs)
         /\ \A i \in 1 .. Len(trs) : trs[i] \in Outcomes(a, s) /\ trs[i].prob \in Nat
         /\ Used(a, s) \subseteq 1 .. Len(trs)
<1>1. s[2] \in Thetas
  BY DEF GridStates, Thetas
<1>2. Len(Trans[a][s[2]]) \in Nat \ {0} /\ DOMAIN Trans[a][s[2]] = 1 .. Len(Trans[a][s[2]])
  BY <1>1, TransLen
<1>3. \A i \in DOMAIN Trans[a][s[2]] :
        Trans[a][s[2]][i] \in Outcomes(a, s) /\ Trans[a][s[2]][i].prob \in Nat
  BY <1>1, TransFacts DEF Outcomes
<1>4. Used(a, s) \subseteq DOMAIN Trans[a][s[2]]
  BY DEF Used, Kept
<1>5. QED
  BY <1>2, <1>3, <1>4

\* Every kind's cost is of this form.
LEMMA CostIs ==
  ASSUME NEW s \in GridStates, NEW a \in Actions
  PROVE  Cost(a, s) = CostBy(value, a, s)
<1> DEFINE trs == Trans[a][s[2]]
           n == Len(trs)
           sum == UsedSum(value, a, s)
<1>1. /\ DOMAIN trs = 1 .. n /\ Used(a, s) \subseteq 1 .. n
      /\ \A i \in 1 .. n : trs[i] \in Outcomes(a, s)
      /\ \A tr \in Outcomes(a, s) : \E i \in 1 .. n : tr = trs[i]
  BY OutcomeFacts DEF Outcomes
<1>2. ProbBase # 0
  BY RawAssumption
<1>3. \A i : Lands(free, s[1], trs[i]) <=> Reads(a, s, i)[1] \in GridCols \intersect free
  BY DEF Lands, Reads
<1>4. ASSUME ~(kind = "topk" /\ n > TopK)
      PROVE  /\ Share(a, s) = ProbBase /\ Used(a, s) = 1 .. n
             /\ sum = Weighted(value, s[1], trs)
             /\ (\A tr \in Outcomes(a, s) : Lands(free, s[1], tr)) <=>
                  \A i \in 1 .. n : Reads(a, s, i)[1] \in GridCols \intersect free
             /\ RawCost(a, s) = IF \A i \in 1 .. n : Reads(a, s, i)[1] \in GridCols \intersect free
                                THEN (sum % Word) \div ProbBase ELSE TopCost
  <2>1. Share(a, s) = ProbBase
    BY <1>4 DEF Share
  <2>2. Used(a, s) = 1 .. n
    BY <1>1, <1>4 DEF Used
  <2>3. sum = Weighted(value, s[1], trs)
    <3>1. [i \in 1 .. n |-> IF i \in Used(a, s) THEN Term(value, s[1], trs[i]) ELSE 0]
            = [i \in 1 .. n |-> Term(value, s[1], trs[i])]
      BY <2>2
    <3>2. QED
      BY <3>1 DEF UsedSum, Weighted
  <2>4. (\A tr \in Outcomes(a, s) : Lands(free, s[1], tr)) <=>
          \A i \in 1 .. n : Reads(a, s, i)[1] \in GridCols \intersect free
    <3> HIDE DEF trs, n
    <3>1. QED
      BY <1>1, <1>3
  <2>5. RawCost(a, s) = IF \A tr \in Outcomes(a, s) : Lands(free, s[1], tr)
                        THEN (Weighted(value, s[1], trs) % Word) \div ProbBase ELSE TopCost
    BY DEF RawCost, CostMod
  <2> HIDE DEF trs, n, sum
  <2>6. QED
    BY <2>1, <2>2, <2>3, <2>4, <2>5
<1>5. CostBy(value, a, s) = IF Open(value, a, s) THEN (sum % Word) \div Share(a, s) ELSE TopCost
  BY DEF CostBy
<1>6. CASE kind = "pad"
  <2>1. Cost(a, s) = ClampCost(a, s) /\ ~(kind = "topk" /\ n > TopK)
    BY <1>6 DEF Cost
  <2>2. (\A tr \in Outcomes(a, s) : Lands(free, s[1], tr) => value[Target(s[1], tr)] # TopCost) <=>
          \A i \in 1 .. n : Reads(a, s, i)[1] \in GridCols \intersect free => value[Reads(a, s, i)] # TopCost
    <3>1. \A i : Reads(a, s, i) = Target(s[1], trs[i])
      BY DEF Reads
    <3> HIDE DEF trs, n
    <3>2. QED
      BY <1>1, <1>3, <3>1
  <2>3. Open(value, a, s) <=>
          \A i \in 1 .. n : /\ Reads(a, s, i)[1] \in GridCols \intersect free
                            /\ value[Reads(a, s, i)] # TopCost
    BY <1>2, <1>4, <1>6, <2>1 DEF Open
  <2> HIDE DEF trs, n, sum
  <2>4. ClampCost(a, s) = IF \A tr \in Outcomes(a, s) : Lands(free, s[1], tr) => value[Target(s[1], tr)] # TopCost
                          THEN RawCost(a, s) ELSE TopCost
    BY DEF ClampCost
  <2>5. QED
    BY <1>4, <1>5, <2>1, <2>2, <2>3, <2>4
<1>7. CASE kind # "pad" /\ ~(kind = "topk" /\ n > TopK)
  <2>1. Open(value, a, s) <=> \A i \in 1 .. n : Reads(a, s, i)[1] \in GridCols \intersect free
    BY <1>2, <1>4, <1>7 DEF Open
  <2>2. Cost(a, s) = RawCost(a, s)
    <3>1. CASE kind = "topk"
      <4>1. n <= TopK
        BY <1>7, <3>1, OutcomeFacts, SerialAssumption
      <4>2. QED
        BY <3>1, <4>1 DEF Cost, TopKCost
    <3>2. CASE kind # "topk"
      BY <1>7, <3>2 DEF Cost
    <3>3. QED
      BY <3>1, <3>2
  <2> HIDE DEF trs, n, sum
  <2>3. QED
    BY <1>4, <1>5, <1>7, <2>1, <2>2
<1>8. CASE kind = "topk" /\ n > TopK
  <2> DEFINE prob == [i \in 1 .. n |-> IF i \in Kept(trs, TopK) THEN trs[i].prob ELSE 0]
             cost == [i \in 1 .. n |-> IF i \in Kept(trs, TopK) THEN Term(value, s[1], trs[i]) ELSE 0]
  <2>1. Used(a, s) = Kept(trs, TopK)
    BY <1>8 DEF Used
  <2>2. sum = SumOf(cost) /\ Share(a, s) = SumOf(prob)
    BY <1>8, <2>1 DEF UsedSum, Share
  <2>3. ~(n <= TopK)
    BY <1>8, OutcomeFacts, SerialAssumption
  <2>4. Cost(a, s) = IF (\A i \in Kept(trs, TopK) : Lands(free, s[1], trs[i])) /\ SumOf(prob) # 0
                     THEN (SumOf(cost) % Word) \div SumOf(prob) ELSE TopCost
    BY <1>8, <2>3 DEF Cost, TopKCost
  <2>5. Open(value, a, s) <=>
          /\ Share(a, s) # 0
          /\ \A i \in Used(a, s) : Reads(a, s, i)[1] \in GridCols \intersect free
    BY <1>8 DEF Open
  <2> HIDE DEF trs, n, sum, prob, cost
  <2>6. QED
    BY <1>3, <1>5, <2>1, <2>2, <2>4, <2>5
<1>9. QED
  BY <1>6, <1>7, <1>8

\* The sum of a usable action is a number that grows with the values it loads.
LEMMA SumGrows ==
  ASSUME NEW s \in GridStates, NEW a \in Actions,
         \A i \in Used(a, s) : Reads(a, s, i)[1] \in GridCols \intersect free,
         NEW v \in [GridStates -> Nat], NEW w \in [GridStates -> Nat]
  PROVE  /\ \A i \in Used(a, s) : Reads(a, s, i) \in GridStates
         /\ UsedSum(v, a, s) \in Nat
         /\ (\A i \in Used(a, s) : v[Reads(a, s, i)] <= w[Reads(a, s, i)]) =>
              UsedSum(v, a, s) <= UsedSum(w, a, s)
<1> DEFINE trs == Trans[a][s[2]]
           n == Len(trs)
           U == Used(a, s)
           T(x) == [i \in 1 .. n |-> IF i \in U THEN Term(x, s[1], trs[i]) ELSE 0]
<1>1. /\ n \in Nat /\ DOMAIN trs = 1 .. n /\ U \subseteq 1 .. n
      /\ \A i \in 1 .. n : trs[i].prob \in Nat
  BY OutcomeFacts
<1>2. s[2] \in Thetas
  BY DEF GridStates, Thetas
<1>3. ASSUME NEW i \in U PROVE Reads(a, s, i) \in GridStates
  <2>1. i \in DOMAIN Trans[a][s[2]] /\ Target(s[1], Trans[a][s[2]][i])[1] \in GridCols
    BY <1>1 DEF Reads
  <2>2. QED
    BY <2>1, WindowReaches DEF Reads
<1>4. ASSUME NEW x \in [GridStates -> Nat], NEW i \in U
      PROVE  /\ Term(x, s[1], trs[i]) \in Nat
             /\ Term(x, s[1], trs[i]) =
                  (x[Reads(a, s, i)] + Penalty[Reads(a, s, i)]) * trs[i].prob
  <2>1. /\ x[Reads(a, s, i)] \in Nat /\ Penalty[Reads(a, s, i)] \in Nat
        /\ trs[i].prob \in Nat
    BY <1>1, <1>3, RawAssumption
  <2>2. \A k, l, m \in Nat : (k + l) * m \in Nat
    OBVIOUS
  <2>3. Term(x, s[1], trs[i]) = (x[Reads(a, s, i)] + Penalty[Reads(a, s, i)]) * trs[i].prob
    BY DEF Term, Reads
  <2> HIDE DEF trs
  <2>4. QED
    BY <2>1, <2>2, <2>3
<1>5. \A x \in [GridStates -> Nat] : T(x) \in [1 .. n -> Nat]
  <2> HIDE DEF trs, U, n
  <2>1. QED
    BY <1>4
<1>6. \A x : UsedSum(x, a, s) = SumOf(T(x))
  BY DEF UsedSum
<1>7. ASSUME \A i \in U : v[Reads(a, s, i)] <= w[Reads(a, s, i)], NEW i \in 1 .. n
      PROVE  T(v)[i] <= T(w)[i]
  <2>1. CASE i \in U
    <3>1. /\ v[Reads(a, s, i)] \in Nat /\ w[Reads(a, s, i)] \in Nat
          /\ v[Reads(a, s, i)] <= w[Reads(a, s, i)] /\ Penalty[Reads(a, s, i)] \in Nat
          /\ trs[i].prob \in Nat
      BY <1>1, <1>3, <1>7, <2>1, RawAssumption
    <3>2. \A x, y, k, m \in Nat : x <= y => (x + k) * m <= (y + k) * m
      OBVIOUS
    <3>3. /\ T(v)[i] = (v[Reads(a, s, i)] + Penalty[Reads(a, s, i)]) * trs[i].prob
          /\ T(w)[i] = (w[Reads(a, s, i)] + Penalty[Reads(a, s, i)]) * trs[i].prob
      BY <1>4, <2>1
    <3> HIDE DEF T, trs
    <3>4. QED
      BY <3>1, <3>2, <3>3
  <2>2. CASE i \notin U
    BY <2>2
  <2>3. QED
    BY <2>1, <2>2
<1>8. (\A i \in U : v[Reads(a, s, i)] <= w[Reads(a, s, i)]) =>
        \A i \in 1 .. n : T(v)[i] <= T(w)[i]
  BY <1>7
<1> HIDE DEF T, U
<1>9. T(v) \in [1 .. n -> Nat] /\ T(w) \in [1 .. n -> Nat]
  BY <1>5
<1>10. SumOf(T(v)) \in Nat
  BY <1>1, <1>9, SumFacts
<1>11. (\A i \in 1 .. n : T(v)[i] <= T(w)[i]) => SumOf(T(v)) <= SumOf(T(w))
  BY <1>1, <1>9, SumFacts
<1>12. QED
  BY <1>3, <1>6, <1>8, <1>10, <1>11 DEF U

LEMMA ShareFacts ==
  ASSUME NEW s \in GridStates, NEW a \in Actions
  PROVE  Share(a, s) \in Nat
<1> DEFINE trs == Trans[a][s[2]]
           n == Len(trs)
           prob == [i \in 1 .. n |-> IF i \in Used(a, s) THEN trs[i].prob ELSE 0]
<1>1. n \in Nat /\ prob \in [1 .. n -> Nat]
  BY OutcomeFacts
<1>2. ProbBase \in Nat
  BY RawAssumption
<1>3. SumOf(prob) \in Nat
  <2> HIDE DEF prob, n
  <2>1. QED
    BY <1>1, SumFacts
<1>4. Share(a, s) = SumOf(prob) \/ Share(a, s) = ProbBase
  BY DEF Share
<1> HIDE DEF prob
<1>5. QED
  BY <1>2, <1>3, <1>4

LEMMA CostFacts ==
  ASSUME NEW s \in GridStates, NEW a \in Actions, NEW v \in [GridStates -> Nat]
  PROVE  /\ CostBy(v, a, s) \in Nat
         /\ CostBy(v, a, s) # TopCost => Open(v, a, s)
         /\ Open(v, a, s) /\ UsedSum(v, a, s) < Word =>
              CostBy(v, a, s) = UsedSum(v, a, s) \div Share(a, s)
<1> DEFINE W == UsedSum(v, a, s)
           d == Share(a, s)
<1>1. CostBy(v, a, s) = IF Open(v, a, s) THEN (W % Word) \div d ELSE TopCost
  BY DEF CostBy
<1>2. Word \in Nat \ {0} /\ TopCost \in Nat /\ d \in Nat
  BY RawAssumption, ShareFacts
<1>3. Open(v, a, s) => W \in Nat /\ d # 0
  BY SumGrows DEF Open
<1> HIDE DEF W, d
<1>4. \A n \in Nat : n % Word \in Nat /\ (n < Word => n % Word = n)
  BY <1>2
<1>5. d # 0 => \A n \in Nat : n \div d \in Nat
  BY <1>2, DivMod
<1>6. QED
  BY <1>1, <1>2, <1>3, <1>4, <1>5 DEF W, d

\* A cost depends on what it loads only.
LEMMA CostSame ==
  ASSUME NEW s, NEW a, NEW v, NEW w,
         \A i \in Used(a, s) : v[Reads(a, s, i)] = w[Reads(a, s, i)]
  PROVE  CostBy(v, a, s) = CostBy(w, a, s)
<1> DEFINE trs == Trans[a][s[2]]
           U == Used(a, s)
<1>1. \A i \in U : Term(v, s[1], trs[i]) = Term(w, s[1], trs[i])
  BY DEF Term, Reads
<1>2. UsedSum(v, a, s) = UsedSum(w, a, s)
  <2>1. [i \in 1 .. Len(trs) |-> IF i \in U THEN Term(v, s[1], trs[i]) ELSE 0]
          = [i \in 1 .. Len(trs) |-> IF i \in U THEN Term(w, s[1], trs[i]) ELSE 0]
    <3> HIDE DEF U, trs
    <3>1. QED
      BY <1>1
  <2>2. QED
    BY <2>1, Zenon DEF UsedSum
<1>3. Open(v, a, s) <=> Open(w, a, s)
  <2> HIDE DEF U, trs
  <2>1. QED
    BY DEF Open
<1>4. QED
  BY <1>2, <1>3 DEF CostBy

\* Where the sum does not wrap, a table of higher values has higher costs.
LEMMA CostRaised ==
  ASSUME NEW s \in GridStates, NEW a \in Actions,
         NEW v \in [GridStates -> 0 .. TopCost], NEW w \in [GridStates -> 0 .. TopCost],
         \A t \in GridStates : v[t] <= w[t],
         CostBy(w, a, s) < TopCost, UsedSum(w, a, s) < Word
  PROVE  CostBy(v, a, s) <= CostBy(w, a, s)
<1>1. v \in [GridStates -> Nat] /\ w \in [GridStates -> Nat] /\ TopCost \in Nat
  BY RawAssumption
<1>2. CostBy(w, a, s) \in Nat /\ CostBy(w, a, s) # TopCost
  BY <1>1, CostFacts
<1>3. Open(w, a, s)
  BY <1>1, <1>2, CostFacts
<1>4. \A i \in Used(a, s) : Reads(a, s, i) \in GridStates
  BY <1>1, <1>3, SumGrows DEF Open
<1>5. Open(v, a, s)
  <2>1. ASSUME NEW i \in Used(a, s), w[Reads(a, s, i)] # TopCost
        PROVE  v[Reads(a, s, i)] # TopCost
    <3>1. v[Reads(a, s, i)] \in 0 .. TopCost /\ w[Reads(a, s, i)] \in 0 .. TopCost
      BY <1>4
    <3>2. v[Reads(a, s, i)] <= w[Reads(a, s, i)]
      BY <1>4
    <3>3. QED
      BY <1>1, <2>1, <3>1, <3>2
  <2>2. QED
    BY <1>3, <2>1 DEF Open
<1>6. /\ UsedSum(v, a, s) \in Nat /\ UsedSum(w, a, s) \in Nat
      /\ UsedSum(v, a, s) <= UsedSum(w, a, s)
  BY <1>1, <1>3, <1>4, SumGrows DEF Open
<1>7. Share(a, s) \in Nat \ {0} /\ Word \in Nat
  BY <1>3, ShareFacts, RawAssumption DEF Open
<1>8. UsedSum(v, a, s) < Word
  BY <1>6, <1>7
<1>9. /\ CostBy(v, a, s) = UsedSum(v, a, s) \div Share(a, s)
      /\ CostBy(w, a, s) = UsedSum(w, a, s) \div Share(a, s)
  BY <1>1, <1>3, <1>5, <1>8, CostFacts
<1>10. QED
  BY <1>6, <1>7, <1>9, DivMonotone
-----------------------------------------------------------------------------
(* The best action. *)

LEMMA BestFacts ==
  ASSUME NEW s \in GridStates, NEW v \in [GridStates -> Nat], acts \subseteq Actions
  PROVE  /\ BestBy(v, s)[1] \in 0 .. TopCost /\ BestBy(v, s)[2] \in acts \union {NoAction}
         /\ BestBy(v, s)[1] < TopCost =>
              BestBy(v, s)[2] \in acts /\ BestBy(v, s)[1] = CostBy(v, BestBy(v, s)[2], s)
         /\ \A a \in acts : BestBy(v, s)[1] <= CostBy(v, a, s)
<1> DEFINE P == {<<CostBy(v, a, s), a>> : a \in acts}
           Q == P \union {<<TopCost, NoAction>>}
           Least(p) == \A q \in Q : p[1] < q[1] \/ (p[1] = q[1] /\ p[2] <= q[2])
           b == BestBy(v, s)
<1>1. \A a \in acts : CostBy(v, a, s) \in Nat /\ a \in Nat
  BY CostFacts, RawAssumption
<1>2. TopCost \in Nat /\ NoAction \in Nat
  BY RawAssumption DEF NoAction
<1>3. /\ <<TopCost, NoAction>> \in Q /\ \A a \in acts : <<CostBy(v, a, s), a>> \in Q
      /\ \A q \in Q : q = <<TopCost, NoAction>> \/ \E a \in acts : q = <<CostBy(v, a, s), a>>
  OBVIOUS
<1>4. b = CHOOSE p \in Q : Least(p)
  BY DEF BestBy, Best
<1> HIDE DEF P, Q
<1>5. Q \in SUBSET (Nat \X Nat) /\ Q # {}
  <2>1. \A q \in Q : q \in Nat \X Nat
    <3>1. SUFFICES ASSUME NEW q \in Q PROVE q \in Nat \X Nat
      OBVIOUS
    <3>2. CASE q = <<TopCost, NoAction>>
      BY <1>2, <3>2
    <3>3. CASE \E a \in acts : q = <<CostBy(v, a, s), a>>
      BY <1>1, <3>3
    <3>4. QED
      BY <1>3, <3>2, <3>3
  <2>2. QED
    BY <1>3, <2>1
<1>6. \E p \in Q : Least(p)
  BY <1>5, FirstPair
<1>7. b \in Q /\ Least(b)
  <2> HIDE DEF Least, b
  <2>1. QED
    BY <1>4, <1>6
<1> HIDE DEF b
<1>8. /\ b[1] \in Nat /\ b[2] \in acts \union {NoAction}
      /\ b[1] < TopCost => b[2] \in acts /\ b[1] = CostBy(v, b[2], s)
  <2>1. CASE b = <<TopCost, NoAction>>
    BY <1>2, <2>1
  <2>2. CASE \E a \in acts : b = <<CostBy(v, a, s), a>>
    BY <1>1, <2>2
  <2>3. QED
    BY <1>3, <1>7, <2>1, <2>2
<1>9. b[1] <= TopCost
  <2> DEFINE q == <<TopCost, NoAction>>
  <2>1. b[1] < q[1] \/ b[1] = q[1]
    BY <1>3, <1>7
  <2>2. QED
    BY <1>2, <1>8, <2>1
<1>10. ASSUME NEW a \in acts PROVE b[1] <= CostBy(v, a, s)
  <2> DEFINE q == <<CostBy(v, a, s), a>>
  <2>1. b[1] < q[1] \/ b[1] = q[1]
    BY <1>3, <1>7
  <2>2. QED
    BY <1>1, <1>8, <2>1
<1>11. b[1] \in 0 .. TopCost
  BY <1>2, <1>8, <1>9
<1>12. QED
  BY <1>8, <1>10, <1>11 DEF b

\* What CostsSteady says of a table v and a state u.
SteadyBy(v, u) ==
  \A a \in acts :
    CostBy(v, a, u) < Reach =>
      /\ UsedSum(v, a, u) < Word
      /\ \E i \in Used(a, u) : v[Reads(a, u, i)] < TopCost

\* When one state's value changes, the backup of a state falls below what it was
\* only if the state reads a value that fell.
LEMMA ChangeSpreads ==
  ASSUME NEW v \in [GridStates -> 0 .. TopCost], NEW w \in [GridStates -> 0 .. TopCost],
         NEW s \in GridStates, \A t \in GridStates : t # s => w[t] = v[t],
         NEW u \in GridStates, acts \subseteq Actions,
         SteadyBy(w, u), BestBy(w, u)[1] < Reach
  PROVE  \/ BestBy(v, u)[1] <= BestBy(w, u)[1]
         \/ w[s] < v[s] /\ \E a \in acts : \E i \in Used(a, u) :
              Reads(a, u, i) = s
<1> DEFINE a == BestBy(w, u)[2]
<1>1. /\ v \in [GridStates -> Nat] /\ w \in [GridStates -> Nat]
      /\ TopCost \in Nat /\ Reach \in Nat /\ Reach < TopCost
  BY RawAssumption
<1>2. BestBy(w, u)[1] \in 0 .. TopCost /\ BestBy(w, u)[1] < TopCost
  BY <1>1, BestFacts
<1>3. a \in acts /\ BestBy(w, u)[1] = CostBy(w, a, u) /\ a \in Actions
  BY <1>1, <1>2, BestFacts
<1>4. BestBy(v, u)[1] \in 0 .. TopCost /\ BestBy(v, u)[1] <= CostBy(v, a, u)
  BY <1>1, <1>3, BestFacts
<1>5. CostBy(v, a, u) \in Nat /\ CostBy(w, a, u) \in Nat
  BY <1>1, <1>3, CostFacts
<1> HIDE DEF a
<1>6. Open(w, a, u)
  BY <1>1, <1>2, <1>3, CostFacts
<1>7. \A i \in Used(a, u) : Reads(a, u, i) \in GridStates
  BY <1>1, <1>3, <1>6, SumGrows DEF Open
<1>8. CASE \A i \in Used(a, u) : Reads(a, u, i) # s
  <2>1. CostBy(v, a, u) = CostBy(w, a, u)
    <3>1. \A i \in Used(a, u) : v[Reads(a, u, i)] = w[Reads(a, u, i)]
      BY <1>7, <1>8
    <3>2. QED
      BY <3>1, CostSame
  <2>2. QED
    BY <1>3, <1>4, <2>1
<1>9. CASE \E i \in Used(a, u) : Reads(a, u, i) = s
  <2>1. CASE w[s] < v[s]
    BY <1>3, <1>9, <2>1
  <2>2. CASE ~(w[s] < v[s])
    <3>1. \A t \in GridStates : v[t] <= w[t]
      <4>1. SUFFICES ASSUME NEW t \in GridStates PROVE v[t] <= w[t]
        OBVIOUS
      <4>2. v[t] \in Nat /\ w[t] \in Nat
        BY <1>1
      <4>3. QED
        BY <2>2, <4>2
    <3>2. UsedSum(w, a, u) < Word
      BY <1>3 DEF SteadyBy
    <3>3. CostBy(v, a, u) <= CostBy(w, a, u)
      BY <1>2, <1>3, <3>1, <3>2, CostRaised
    <3>4. QED
      BY <1>2, <1>3, <1>4, <1>5, <3>3
  <2>3. QED
    BY <2>1, <2>2
<1>10. QED
  BY <1>8, <1>9
-----------------------------------------------------------------------------
(* Indices of nested loops. *)

\* Rounding up: the blocks of size z that a distance of d can cross.
LEMMA CeilFacts ==
  ASSUME NEW d \in Nat, NEW z \in Nat \ {0}
  PROVE  /\ CeilDiv(d, z) \in Nat /\ d <= z * CeilDiv(d, z)
         /\ \A x \in Nat : x < d => x \div z < CeilDiv(d, z)
<1> DEFINE c == CeilDiv(d, z)
           e == d + z - 1
<1>1. e \in Nat /\ c = e \div z
  BY DEF CeilDiv
<1>2. c \in Nat /\ e < z * c + z
  <2> HIDE DEF e, c
  <2>1. QED
    BY <1>1, DivMod
<1>3. d <= z * c
  <2> DEFINE y == z * c
  <2>1. y \in Int /\ d + z - 1 < y + z
    BY <1>2
  <2> HIDE DEF y
  <2>2. d <= y
    BY <2>1
  <2>3. QED
    BY <2>2 DEF y
<1> HIDE DEF c
<1>4. ASSUME NEW x \in Nat, x < d PROVE x \div z < c
  <2> DEFINE q == x \div z
  <2>1. q \in Nat /\ z * q <= x
    BY DivMod
  <2> HIDE DEF q
  <2>2. SUFFICES ASSUME c <= q PROVE FALSE
    BY <1>2, <2>1 DEF q
  <2>3. z * c <= z * q
    BY <1>2, <2>1, <2>2, SMTT(30)
  <2> DEFINE y == z * c
             w == z * q
  <2>4. y \in Nat /\ w \in Nat /\ y <= w /\ d <= y /\ w <= x
    BY <1>2, <1>3, <2>1, <2>3
  <2> HIDE DEF y, w
  <2>5. QED
    BY <1>4, <2>4
<1>5. QED
  BY <1>2, <1>3, <1>4 DEF c

LEMMA BlocksApart ==
  ASSUME NEW a \in Nat, NEW b \in Nat, NEW d \in Nat, NEW z \in Nat \ {0},
         AbsInt(a - b) <= d
  PROVE  AbsInt((a \div z) - (b \div z)) <= CeilDiv(d, z)
<1> DEFINE c == CeilDiv(d, z)
           k == z * c
<1>1. c \in Nat /\ d <= k /\ k \in Nat
  BY CeilFacts
<1> HIDE DEF c
<1>2. ASSUME NEW x \in Nat, NEW y \in Nat, x <= y + d
      PROVE  (x \div z) <= (y \div z) + c
  <2>1. x <= y + k /\ y + k \in Nat
    <3> HIDE DEF k
    <3>1. QED
      BY <1>1, <1>2
  <2>2. (x \div z) <= (y + k) \div z
    <3> HIDE DEF k
    <3>1. QED
      BY <2>1, DivMonotone
  <2>3. (y + k) \div z = (y \div z) + c
    BY <1>1, DivShift
  <2>4. QED
    BY <2>2, <2>3
<1>3. a <= b + d /\ b <= a + d
  BY DEF AbsInt
<1>4. (a \div z) <= (b \div z) + c /\ (b \div z) <= (a \div z) + c
  BY <1>2, <1>3
<1> DEFINE e == a \div z
           f == b \div z
<1>5. e \in Nat /\ f \in Nat /\ e <= f + c /\ f <= e + c
  BY <1>4, DivMod
<1> HIDE DEF e, f
<1>6. AbsInt(e - f) <= c
  BY <1>1, <1>5 DEF AbsInt
<1>7. QED
  BY <1>6 DEF e, f, c

\* Headings within d of each other are at most d steps around the circle apart.
LEMMA StepsAround ==
  ASSUME NEW a \in Thetas, NEW b \in Thetas, NEW d \in Nat, CircDist(a, b) <= d
  PROVE  \E i \in -d .. d : b = (a + NTheta + i) % NTheta
<1> DEFINE x == (a - b + NTheta) % NTheta
<1>1. NTheta \in Nat \ {0} /\ a \in Nat /\ b \in Nat /\ a < NTheta /\ b < NTheta
  BY GeomAssumption DEF Thetas
<1>2. x = IF a < b THEN a - b + NTheta ELSE a - b
  <2> DEFINE y == a - b + NTheta
  <2>1. y \in 0 .. 2 * NTheta - 1 /\ (y < NTheta <=> a < b) /\ y - NTheta = a - b
    BY <1>1
  <2> HIDE DEF y
  <2>2. y % NTheta = IF y < NTheta THEN y ELSE y - NTheta
    BY <1>1, <2>1, ModOnce
  <2>3. QED
    BY <2>1, <2>2 DEF y
<1> HIDE DEF x
<1>3. x \in Nat /\ NTheta - x \in Nat
  BY <1>1, <1>2
<1>4. x <= d \/ NTheta - x <= d
  <2>1. CircDist(a, b) = Min({x, NTheta - x})
    BY DEF CircDist, x
  <2>2. Min({x, NTheta - x}) \in {x, NTheta - x}
    BY <1>3, MinFacts
  <2>3. QED
    BY <2>1, <2>2
<1>5. \A q \in Nat : (NTheta * q + b) % NTheta = b
  BY <1>1, PairIndex
<1>6. (NTheta * 0 + b) % NTheta = b /\ (NTheta * 1 + b) % NTheta = b /\ (NTheta * 2 + b) % NTheta = b
  BY <1>5
<1>7. NTheta * 0 + b = b /\ NTheta * 1 + b = NTheta + b /\ NTheta * 2 + b = NTheta + NTheta + b
  BY <1>1
<1>8. b % NTheta = b /\ (NTheta + b) % NTheta = b /\ (NTheta + NTheta + b) % NTheta = b
  BY <1>6, <1>7
<1>9. CASE x <= d
  <2>1. a + NTheta + (-x) = b \/ a + NTheta + (-x) = NTheta + b
    BY <1>1, <1>2
  <2>2. -x \in -d .. d
    BY <1>3, <1>9
  <2>3. QED
    BY <1>8, <2>1, <2>2
<1>10. CASE NTheta - x <= d
  <2>1. \/ a + NTheta + (NTheta - x) = NTheta + b
        \/ a + NTheta + (NTheta - x) = NTheta + NTheta + b
    BY <1>1, <1>2
  <2>2. NTheta - x \in -d .. d
    BY <1>3, <1>10
  <2>3. QED
    BY <1>8, <2>1, <2>2
<1>11. QED
  BY <1>4, <1>9, <1>10
-----------------------------------------------------------------------------
(* Stages. *)

LEMMA StageFacts ==
  /\ Len(Stages) \in Nat \ {0}
  /\ \A i \in 1 .. Len(Stages) :
       /\ Stages[i].size \in Nat \ {0}
       /\ kind \notin {"reference", "stream"} => Stages[i].by # "map"
<1> DEFINE Good(q) == /\ Len(q) \in Nat \ {0}
                      /\ \A i \in 1 .. Len(q) :
                           /\ q[i].size \in Nat \ {0}
                           /\ kind \notin {"reference", "stream"} => q[i].by # "map"
<1>1. Fine \in Nat \ {0}
  BY SerialAssumption
<1>2. CASE kind \in {"reference", "stream"}
  BY <1>2 DEF Stages, Stage
<1>3. CASE kind = "pyramid"
  <2> DEFINE S == {n \in Nat : n > Fine /\ (n < NX \/ n < NY)}
             l == Levels
             q == [i \in DOMAIN l |-> Stage("blocks", l[i], 1, CoarseBudget)]
             z == <<Stage("blocks", Fine, 1, MaxIter)>>
  <2>1. Len(Coarse) \in Nat
    BY SerialAssumption
  <2>2. l \in Seq(S)
    BY <2>1, SublistHas DEF Levels
  <2>3. \A x \in S : x \in Nat \ {0}
    BY <1>1
  <2> HIDE DEF S, l
  <2>4. Len(l) \in Nat /\ DOMAIN l = 1 .. Len(l) /\ \A i \in 1 .. Len(l) : l[i] \in Nat \ {0}
    BY <2>2, <2>3
  <2>5. /\ \A i \in 1 .. Len(l) : q[i].size = l[i] /\ q[i].by = "blocks"
        /\ z[1].size = Fine /\ z[1].by = "blocks"
    BY <2>4 DEF Stage
  <2>6. /\ Len(q) = Len(l) /\ Len(z) = 1
        /\ \A i \in 1 .. Len(l) : (q \o z)[i] = q[i]
        /\ (q \o z)[Len(l) + 1] = z[1]
        /\ Len(q \o z) = Len(l) + 1
    BY <2>4
  <2>7. Stages = q \o z
    BY <1>3 DEF Stages, l
  <2> HIDE DEF q, z
  <2>8. \A i \in 1 .. Len(l) + 1 : i \in 1 .. Len(l) \/ i = Len(l) + 1
    BY <2>4
  <2>9. \A i \in 1 .. Len(l) + 1 : (q \o z)[i].size \in Nat \ {0} /\ (q \o z)[i].by = "blocks"
    BY <1>1, <2>4, <2>5, <2>6, <2>8
  <2>10. QED
    BY <2>4, <2>6, <2>7, <2>9
<1>4. CASE kind = "coarse_theta" /\ Step > 1
  BY <1>4 DEF Stages, Stage
<1>5. CASE ~(kind \in {"reference", "stream", "pyramid"}) /\ ~(kind = "coarse_theta" /\ Step > 1)
  <2>1. \/ Stages = <<Stage("layers", 1, 1, MaxIter)>>
        \/ Stages = <<Stage("columns", 1, 1, MaxIter)>>
        \/ Stages = <<Stage("blocks", Fine, 1, MaxIter)>>
        \/ Stages = <<Stage("cells", 1, 1, MaxIter)>>
    BY <1>5 DEF Stages
  <2>2. ASSUME NEW by \in {"layers", "columns", "blocks", "cells"}, NEW size \in Nat \ {0},
               Stages = <<Stage(by, size, 1, MaxIter)>>
        PROVE  Good(Stages)
    <3>1. Len(Stages) = 1 /\ Stages[1].size = size /\ Stages[1].by = by
      BY <2>2 DEF Stage
    <3>2. QED
      BY <3>1
  <2> HIDE DEF Good
  <2>3. Good(Stages)
    BY <1>1, <2>1, <2>2
  <2>4. QED
    BY <2>3 DEF Good
<1>6. QED
  BY <1>2, <1>3, <1>4, <1>5
-----------------------------------------------------------------------------
(* Near a member of a frontier. *)

Near(d, s) ==
  CASE Now.by = "cells" -> NearState(d, s)
    [] Now.by = "layers" ->
         /\ <<d[1], s[1]>> \in GridNear
         /\ \E i \in -DispT .. DispT : d[2] = (s[2] + NTheta + i) % NTheta
    [] Now.by = "columns" -> <<d, s[1]>> \in GridNear
    [] Now.by = "blocks" -> BlockOf(s) \in Passable /\ NearBlock(BlockOf(s), d)
    [] OTHER -> TRUE

LEMMA CandidatesAre ==
  \A F : Candidates(F) = {s \in GridStates : \E d \in F : Near(d, s)}
<1>1. SUFFICES ASSUME NEW F
               PROVE  Candidates(F) = {s \in GridStates : \E d \in F : Near(d, s)}
  OBVIOUS
<1>2. CASE Now.by = "cells"
  BY <1>2 DEF Candidates, Near
<1>3. CASE Now.by = "layers"
  <2>1. Candidates(F) = {s \in GridStates : s[1] \in Stacked(F, s[2])}
    BY <1>3 DEF Candidates
  <2>2. \A d, s : Near(d, s) <=>
          /\ <<d[1], s[1]>> \in GridNear
          /\ \E i \in -DispT .. DispT : d[2] = (s[2] + NTheta + i) % NTheta
    BY <1>3 DEF Near
  <2>3. ASSUME NEW s \in GridStates
        PROVE  s[1] \in Stacked(F, s[2]) <=> \E d \in F : Near(d, s)
    <3>1. s[1] \in GridCols
      BY DEF GridStates
    <3>2. s[1] \in Stacked(F, s[2]) <=>
            \E i \in -DispT .. DispT :
              \E d \in {e[1] : e \in {e \in F : e[2] = (s[2] + NTheta + i) % NTheta}} :
                <<d, s[1]>> \in GridNear
      <4>1. \A G : s[1] \in GridDilate(G) <=> \E d \in G : <<d, s[1]>> \in GridNear
        BY <3>1 DEF GridDilate
      <4>2. s[1] \in Stacked(F, s[2]) <=>
              \E i \in -DispT .. DispT : s[1] \in Layer(F, (s[2] + NTheta + i) % NTheta)
        BY DEF Stacked
      <4>3. QED
        BY <4>1, <4>2, Zenon DEF Layer
    <3>3. s[1] \in Stacked(F, s[2]) <=>
            \E i \in -DispT .. DispT : \E e \in F :
              e[2] = (s[2] + NTheta + i) % NTheta /\ <<e[1], s[1]>> \in GridNear
      BY <3>2, Zenon
    <3>4. QED
      BY <2>2, <3>3, Zenon
  <2>4. QED
    BY <2>1, <2>3
<1>4. CASE Now.by = "columns"
  <2>1. \A s \in GridStates : s[1] \in GridCols
    BY DEF GridStates
  <2>2. Candidates(F) = {s \in GridStates : s[1] \in GridDilate(F)}
    BY <1>4 DEF Candidates
  <2>3. \A d, s : Near(d, s) <=> <<d, s[1]>> \in GridNear
    BY <1>4 DEF Near
  <2>4. QED
    BY <2>1, <2>2, <2>3 DEF GridDilate
<1>5. CASE Now.by = "blocks"
  <2>1. Candidates(F) = {s \in GridStates : /\ BlockOf(s) \in Passable
                                            /\ \E d \in F : NearBlock(BlockOf(s), d)}
    BY <1>5 DEF Candidates
  <2>2. \A d, s : Near(d, s) <=> BlockOf(s) \in Passable /\ NearBlock(BlockOf(s), d)
    BY <1>5 DEF Near
  <2>3. QED
    BY <2>1, <2>2
<1>6. CASE Now.by \notin {"cells", "layers", "columns", "blocks"}
  <2>1. Candidates(F) = IF F = {} THEN {} ELSE GridStates
    BY <1>6 DEF Candidates
  <2>2. \A d, s : Near(d, s)
    BY <1>6 DEF Near
  <2>3. QED
    BY <2>1, <2>2
<1>7. QED
  BY <1>2, <1>3, <1>4, <1>5, <1>6

\* What a state reads is near it, whatever stands for it in a frontier.
LEMMA ReadsNear ==
  ASSUME NEW u \in GridStates, NEW a \in Actions, NEW i \in Used(a, u),
         Reads(a, u, i)[1] \in GridCols, u[1] \in free, Now.size \in Nat \ {0}
  PROVE  Near(Item(Reads(a, u, i)), u)
<1> DEFINE d == Reads(a, u, i)
<1>1. d \in GridStates /\ <<d[1], u[1]>> \in GridNear /\ CircDist(u[2], d[2]) <= DispT
  <2>1. i \in DOMAIN Trans[a][u[2]]
    BY OutcomeFacts
  <2>2. QED
    BY <2>1, WindowReaches DEF Reads
<1> HIDE DEF d
<1>2. /\ u[1] \in GridCols /\ d[1] \in GridCols /\ u[2] \in Thetas /\ d[2] \in Thetas
      /\ u[1][1] \in Nat /\ u[1][2] \in Nat /\ d[1][1] \in Nat /\ d[1][2] \in Nat
  BY <1>1 DEF GridStates, GridCols, Thetas
<1>3. CircDist(d[2], u[2]) <= DispT
  BY <1>1, <1>2, CircFacts
<1>4. CASE Now.by = "cells"
  BY <1>1, <1>3, <1>4 DEF Near, Item, NearState, d
<1>5. CASE Now.by = "layers"
  <2>1. \E j \in -DispT .. DispT : d[2] = (u[2] + NTheta + j) % NTheta
    BY <1>1, <1>2, DispTFacts, StepsAround
  <2>2. QED
    BY <1>1, <1>5, <2>1 DEF Near, Item, d
<1>6. CASE Now.by = "columns"
  BY <1>1, <1>6 DEF Near, Item, d
<1>7. CASE Now.by = "blocks"
  <2> DEFINE z == Now.size
  <2>1. AbsInt(d[1][1] - u[1][1]) <= DispX /\ AbsInt(d[1][2] - u[1][2]) <= DispY
    BY <1>1 DEF GridNear
  <2>2. /\ AbsInt(u[1][1] - d[1][1]) <= DispX /\ AbsInt(u[1][2] - d[1][2]) <= DispY
    <3>1. \A x, y \in Nat : AbsInt(x - y) = AbsInt(y - x)
      BY DEF AbsInt
    <3>2. QED
      BY <1>2, <2>1, <3>1
  <2>3. DispX \in Nat /\ DispY \in Nat
    BY DispFacts
  <2> HIDE DEF z
  <2>4. /\ AbsInt((u[1][1] \div z) - (d[1][1] \div z)) <= CeilDiv(DispX, z)
        /\ AbsInt((u[1][2] \div z) - (d[1][2] \div z)) <= CeilDiv(DispY, z)
    BY <1>2, <2>2, <2>3, BlocksApart DEF z
  <2>5. \A x : BlockOf(x) = <<x[1][1] \div z, x[1][2] \div z>>
    BY DEF BlockOf, z
  <2>6. NearBlock(BlockOf(u), BlockOf(d))
    BY <2>4, <2>5 DEF NearBlock, z
  <2>7. BlockOf(u) \in Passable
    BY DEF Passable
  <2>8. Item(d) = BlockOf(d)
    BY <1>7 DEF Item
  <2>9. QED
    BY <1>7, <2>6, <2>7, <2>8 DEF Near, d
<1>8. CASE Now.by \notin {"cells", "layers", "columns", "blocks"}
  BY <1>8 DEF Near
<1>9. QED
  BY <1>4, <1>5, <1>6, <1>7, <1>8
-----------------------------------------------------------------------------
(* The loops visit every state. *)

LEMMA ByLayerCovers ==
  /\ Len(ByLayer) \in Nat
  /\ \A s \in GridStates : \E k \in 1 .. Len(ByLayer) : ByLayer[k] = s
<1> DEFINE n == NX * NY
           N == NX * NY * NTheta
<1>1. n \in Nat \ {0} /\ NTheta \in Nat \ {0} /\ N \in Nat /\ N = n * NTheta
  <2>1. NX \in Nat \ {0} /\ NY \in Nat \ {0} /\ NTheta \in Nat \ {0}
    BY GeomAssumption
  <2>2. \A x, y \in Nat \ {0} : x * y \in Nat \ {0}
    OBVIOUS
  <2>3. n \in Nat \ {0}
    BY <2>1, <2>2
  <2> HIDE DEF n
  <2>4. n * NTheta \in Nat \ {0}
    BY <2>1, <2>2, <2>3
  <2>5. QED
    BY <2>1, <2>3, <2>4 DEF n
<1>2. /\ Len(ByLayer) = N
      /\ \A k \in 1 .. N : ByLayer[k] = <<RowMajor[((k - 1) % n) + 1], (k - 1) \div n>>
  BY <1>1 DEF ByLayer
<1>3. \A c \in GridCols : \E j \in 1 .. n : RowMajor[j] = c
  BY RowMajorFacts
<1> HIDE DEF n, N
<1>4. ASSUME NEW s \in GridStates PROVE \E k \in 1 .. N : ByLayer[k] = s
  <2>1. s = <<s[1], s[2]>> /\ s[1] \in GridCols /\ s[2] \in Nat /\ s[2] < NTheta
    BY <1>1 DEF GridStates
  <2>2. PICK j \in 1 .. n : RowMajor[j] = s[1]
    BY <1>3, <2>1
  <2>3. j - 1 \in Nat /\ j - 1 < n /\ j - 1 + 1 = j
    BY <1>1
  <2> DEFINE x == n * s[2] + (j - 1)
  <2>4. x \in Nat /\ x \div n = s[2] /\ x % n = j - 1 /\ x < n * NTheta
    BY <1>1, <2>1, <2>3, PairIndex
  <2> HIDE DEF x
  <2>5. PICK k \in 1 .. N : k - 1 = x
    <3>1. x + 1 \in 1 .. N /\ (x + 1) - 1 = x
      BY <1>1, <2>4
    <3>2. QED
      BY <3>1
  <2>6. ByLayer[k] = <<RowMajor[(x % n) + 1], x \div n>>
    BY <1>2, <2>5
  <2>7. QED
    BY <2>1, <2>2, <2>3, <2>4, <2>5, <2>6
<1>5. QED
  BY <1>1, <1>2, <1>4

LEMMA ByColumnCovers ==
  /\ Len(ByColumn) \in Nat
  /\ \A s \in GridStates : \E k \in 1 .. Len(ByColumn) : ByColumn[k] = s
<1> DEFINE n == NX * NY
           N == NX * NY * NTheta
<1>1. n \in Nat /\ NTheta \in Nat \ {0} /\ N \in Nat /\ N = NTheta * n
  <2>1. NX \in Nat /\ NY \in Nat /\ NTheta \in Nat \ {0}
    BY GeomAssumption
  <2>2. \A x, y \in Nat : x * y \in Nat /\ x * y = y * x
    OBVIOUS
  <2>3. n \in Nat
    BY <2>1, <2>2
  <2> HIDE DEF n
  <2>4. n * NTheta \in Nat /\ n * NTheta = NTheta * n
    BY <2>1, <2>2, <2>3
  <2>5. QED
    BY <2>1, <2>3, <2>4 DEF n
<1>2. /\ Len(ByColumn) = N
      /\ \A k \in 1 .. N :
           ByColumn[k] = <<RowMajor[((k - 1) \div NTheta) + 1], (k - 1) % NTheta>>
  BY <1>1 DEF ByColumn
<1>3. \A c \in GridCols : \E j \in 1 .. n : RowMajor[j] = c
  BY RowMajorFacts
<1> HIDE DEF n, N
<1>4. ASSUME NEW s \in GridStates PROVE \E k \in 1 .. N : ByColumn[k] = s
  <2>1. s = <<s[1], s[2]>> /\ s[1] \in GridCols /\ s[2] \in Nat /\ s[2] < NTheta
    BY <1>1 DEF GridStates
  <2>2. PICK j \in 1 .. n : RowMajor[j] = s[1]
    BY <1>3, <2>1
  <2>3. j - 1 \in Nat /\ j - 1 < n /\ j - 1 + 1 = j
    BY <1>1
  <2> DEFINE x == NTheta * (j - 1) + s[2]
  <2>4. x \in Nat /\ x \div NTheta = j - 1 /\ x % NTheta = s[2] /\ x < NTheta * n
    BY <1>1, <2>1, <2>3, PairIndex
  <2> HIDE DEF x
  <2>5. PICK k \in 1 .. N : k - 1 = x
    <3>1. x + 1 \in 1 .. N /\ (x + 1) - 1 = x
      BY <1>1, <2>4
    <3>2. QED
      BY <3>1
  <2>6. ByColumn[k] = <<RowMajor[(x \div NTheta) + 1], x % NTheta>>
    BY <1>2, <2>5
  <2>7. QED
    BY <2>1, <2>2, <2>3, <2>4, <2>5, <2>6
<1>5. QED
  BY <1>1, <1>2, <1>4

\* Cells of a block beyond the edge of the map only add members to the list.
LEMMA ByBlockCovers ==
  ASSUME Now.size \in Nat \ {0}
  PROVE  /\ Len(ByBlock) \in Nat
         /\ \A s \in GridStates : \E k \in 1 .. Len(ByBlock) : ByBlock[k] = s
<1> DEFINE z == Now.size
           R == BlockRow
           C == CeilDiv(NY, z)
           A == BlockCells
           sweep == A * NTheta
           L == LocalSweeps * sweep
           N == R * C * L
<1>1. \A x, y \in Nat \ {0} : x * y \in Nat \ {0}
  OBVIOUS
<1>2. /\ NTheta \in Nat \ {0} /\ NX \in Nat /\ NY \in Nat /\ z \in Nat \ {0}
      /\ LocalSweeps \in Nat \ {0}
  BY GeomAssumption, SerialAssumption
<1>3. R = CeilDiv(NX, z) /\ A = z * z
  BY DEF BlockRow, BlockCells
<1>4. \A b, j : InBlock(b, j) = <<(b % R) * z + (j % z), (b \div R) * z + (j \div z)>>
  BY DEF InBlock
<1> HIDE DEF z, R, C, A
<1>5. A \in Nat \ {0}
  BY <1>1, <1>2, <1>3
<1>6. sweep \in Nat \ {0}
  BY <1>1, <1>2, <1>5
<1>7. L \in Nat \ {0}
  <2> HIDE DEF sweep
  <2>1. QED
    BY <1>1, <1>2, <1>6
<1>8. R \in Nat /\ C \in Nat
  BY <1>2, <1>3, CeilFacts DEF C
<1>9. N \in Nat
  <2> HIDE DEF L
  <2>1. \A x, y \in Nat : x * y \in Nat
    OBVIOUS
  <2>2. R * C \in Nat
    BY <1>8, <2>1
  <2>3. QED
    BY <1>7, <2>1, <2>2
<1>10. ByBlock = [k \in 1 .. N |->
                   <<InBlock((k - 1) \div L, ((k - 1) % sweep) \div NTheta), (k - 1) % NTheta>>]
  BY DEF ByBlock, z, R, C, A
<1>11. Len(ByBlock) = N
  <2> HIDE DEF N
  <2>1. QED
    BY <1>9, <1>10
<1>12. \A k \in 1 .. N : ByBlock[k] =
         <<InBlock((k - 1) \div L, ((k - 1) % sweep) \div NTheta), (k - 1) % NTheta>>
  <2> HIDE DEF N, L, sweep
  <2>1. QED
    BY <1>10
<1>13. ASSUME NEW s \in GridStates PROVE \E k \in 1 .. N : ByBlock[k] = s
  <2> DEFINE x == s[1][1]
             y == s[1][2]
             t == s[2]
  <2>1. /\ s = <<<<x, y>>, t>> /\ x \in Nat /\ y \in Nat /\ t \in Nat
        /\ x < NX /\ y < NY /\ t < NTheta
    BY <1>2 DEF GridStates, GridCols
  <2> HIDE DEF x, y, t
  <2> DEFINE bx == x \div z
             by == y \div z
             rx == x % z
             ry == y % z
  <2>2. /\ bx \in Nat /\ rx \in 0 .. z - 1 /\ x = z * bx + rx
        /\ by \in Nat /\ ry \in 0 .. z - 1 /\ y = z * by + ry
    BY <1>2, <2>1, DivMod
  <2>3. bx < R /\ by < C
    BY <1>2, <1>3, <2>1, CeilFacts DEF C
  <2> HIDE DEF bx, by, rx, ry
  <2> DEFINE b == R * by + bx
             j == z * ry + rx
  <2>4. b \in Nat /\ b \div R = by /\ b % R = bx /\ b < R * C
    <3>1. R \in Nat \ {0}
      BY <1>8, <2>2, <2>3
    <3>2. QED
      BY <1>8, <2>2, <2>3, <3>1, PairIndex
  <2>5. j \in Nat /\ j \div z = ry /\ j % z = rx /\ j < A
    <3>1. ry \in Nat /\ rx \in Nat /\ ry < z /\ rx < z
      BY <1>2, <2>2
    <3>2. QED
      BY <1>2, <1>3, <3>1, PairIndex
  <2>6. InBlock(b, j) = <<x, y>>
    <3>1. InBlock(b, j) = <<bx * z + rx, by * z + ry>>
      BY <1>4, <2>4, <2>5
    <3>2. bx * z = z * bx /\ by * z = z * by
      BY <1>2, <2>2
    <3>3. QED
      BY <2>2, <3>1, <3>2
  <2> HIDE DEF b, j
  <2> DEFINE i == NTheta * j + t
  <2>7. i \in Nat /\ i \div NTheta = j /\ i % NTheta = t /\ i < NTheta * A
    BY <1>2, <1>5, <2>1, <2>5, PairIndex
  <2>8. i < sweep
    BY <1>2, <1>5, <2>7
  <2> HIDE DEF i
  <2> DEFINE e == L * b + i
  <2>9. i < L
    <3> HIDE DEF sweep
    <3>1. \A p, q \in Nat \ {0} : q <= p * q
      OBVIOUS
    <3>2. sweep <= LocalSweeps * sweep
      BY <1>2, <1>6, <3>1
    <3> HIDE DEF L
    <3>3. sweep <= L
      BY <3>2 DEF L
    <3>4. QED
      BY <1>6, <1>7, <2>7, <2>8, <3>3
  <2>10. e \in Nat /\ e \div L = b /\ e < L * (R * C)
    <3>1. R * C \in Nat
      BY <1>8
    <3> HIDE DEF L
    <3>2. QED
      BY <1>7, <2>4, <2>7, <2>9, <3>1, PairIndex
  <2>11. e % sweep = i
    <3> DEFINE q == LocalSweeps * b
    <3>1. q \in Nat
      BY <1>2, <2>4
    <3> HIDE DEF sweep
    <3>2. \A l, p, r \in Nat : (l * p) * r = p * (l * r)
      BY SMTT(30)
    <3>3. L * b = sweep * q
      BY <1>2, <1>6, <2>4, <3>2
    <3> HIDE DEF q, L
    <3>4. (sweep * q + i) % sweep = i
      BY <1>6, <2>7, <2>8, <3>1, PairIndex
    <3>5. QED
      BY <3>3, <3>4
  <2>12. e % NTheta = t
    <3> DEFINE q == (A * (LocalSweeps * b)) + j
    <3>1. q \in Nat
      <4>1. LocalSweeps * b \in Nat
        BY <1>2, <2>4
      <4> DEFINE p == LocalSweeps * b
      <4> HIDE DEF p
      <4>2. A * p \in Nat
        BY <1>5, <4>1 DEF p
      <4>3. QED
        BY <2>5, <4>2 DEF p
    <3>2. \A l, a, n, r, u \in Nat : (l * (a * n)) * r + n * u = n * ((a * (l * r)) + u)
      BY SMTT(60)
    <3>3. L * b + NTheta * j = NTheta * q
      BY <1>2, <1>5, <2>4, <2>5, <3>2
    <3>4. L * b \in Nat /\ NTheta * j \in Nat /\ e = L * b + (NTheta * j + t)
      <4> HIDE DEF L
      <4>1. QED
        BY <1>2, <1>7, <2>4, <2>5 DEF i
    <3> DEFINE v == L * b
               w == NTheta * j
               g == NTheta * q
    <3>5. v \in Nat /\ w \in Nat /\ v + w = g /\ e = v + (w + t)
      BY <3>3, <3>4
    <3>6. (g + t) % NTheta = t
      <4> HIDE DEF q
      <4>1. QED
        BY <1>2, <2>1, <3>1, PairIndex
    <3> HIDE DEF v, w, g, e
    <3>7. e = g + t
      BY <2>1, <3>5
    <3>8. QED
      BY <3>6, <3>7
  <2>13. L * (R * C) = N
    <3> HIDE DEF L
    <3>1. R * C \in Nat
      BY <1>8
    <3> DEFINE p == R * C
    <3>2. N = p * L
      OBVIOUS
    <3> HIDE DEF p
    <3>3. p * L = L * p
      BY <1>7, <3>1 DEF p
    <3>4. QED
      BY <3>2, <3>3 DEF p
  <2> HIDE DEF e, L, N, sweep
  <2>14. PICK k \in 1 .. N : k - 1 = e
    <3>1. e + 1 \in 1 .. N /\ (e + 1) - 1 = e
      BY <1>9, <2>10, <2>13
    <3>2. QED
      BY <3>1
  <2>15. ByBlock[k] = <<InBlock(e \div L, (e % sweep) \div NTheta), e % NTheta>>
    BY <1>12, <2>14
  <2>16. QED
    BY <2>1, <2>6, <2>7, <2>10, <2>11, <2>12, <2>14, <2>15
<1>14. QED
  BY <1>9, <1>11, <1>13

\* A round visits every candidate.
LEMMA VisitsFacts ==
  ASSUME NEW F, Now.size \in Nat \ {0}
  PROVE  /\ Visits(F) \in Seq(GridStates)
         /\ \A s \in Candidates(F) : \E i \in DOMAIN Visits(F) : Visits(F)[i] = s
<1> DEFINE C == Candidates(F)
           r == Visits(F)
<1>1. /\ Len(Order) \in Nat
      /\ \A s \in GridStates : \E k \in 1 .. Len(Order) : Order[k] = s
  <2>1. Order = ByLayer \/ Order = ByBlock \/ Order = ByColumn
    BY DEF Order
  <2>2. QED
    BY <2>1, ByLayerCovers, ByBlockCovers, ByColumnCovers
<1>2. C \subseteq GridStates
  BY CandidatesAre
<1>3. r = Sublist(Order, C)
  BY DEF Visits
<1> HIDE DEF C, r
<1>4. /\ r \in Seq(C)
      /\ \A i \in 1 .. Len(Order) : Order[i] \in C => \E j \in 1 .. Len(r) : r[j] = Order[i]
  BY <1>1, <1>3, SublistHas
<1>5. r \in Seq(GridStates) /\ DOMAIN r = 1 .. Len(r)
  BY <1>2, <1>4
<1>6. ASSUME NEW s \in C PROVE \E i \in DOMAIN r : r[i] = s
  <2>1. PICK k \in 1 .. Len(Order) : Order[k] = s
    BY <1>1, <1>2
  <2>2. QED
    BY <1>4, <1>5, <2>1
<1>7. QED
  BY <1>5, <1>6 DEF C, r
-----------------------------------------------------------------------------
(* The backups and the windows of a state and of the next one. *)

LEMMA MazeFacts ==
  ASSUME TableTypeOK
  PROVE  /\ acts \subseteq Actions /\ TopCost \in Nat
         /\ value \in [GridStates -> 0 .. TopCost] /\ value \in [GridStates -> Nat]
<1>1. acts \subseteq Actions
  <2>1. Maze \in [free : SUBSET GridCols, goal : SUBSET GridStates, acts : SUBSET Actions]
    BY RawAssumption DEF TableTypeOK
  <2>2. Maze.acts = acts
    BY DEF Maze
  <2>3. QED
    BY <2>1, <2>2
<1>2. QED
  BY <1>1, RawAssumption DEF TableTypeOK

LEMMA BestNow ==
  acts \subseteq Actions =>
    /\ \A s \in GridStates : BestOf(s) = BestBy(value, s)
    /\ CostsSteady => \A s \in GridStates : Updated(s) => SteadyBy(value, s)
<1> SUFFICES ASSUME acts \subseteq Actions
             PROVE  /\ \A s \in GridStates : BestOf(s) = BestBy(value, s)
                    /\ CostsSteady => \A s \in GridStates : Updated(s) => SteadyBy(value, s)
  OBVIOUS
<1>1. \A s \in GridStates, a \in acts : Cost(a, s) = CostBy(value, a, s)
  BY CostIs
<1>2. ASSUME NEW s \in GridStates PROVE BestOf(s) = BestBy(value, s)
  <2>1. {<<Cost(a, s), a>> : a \in acts} = {<<CostBy(value, a, s), a>> : a \in acts}
    BY <1>1
  <2>2. QED
    BY <2>1, Zenon DEF BestOf, BestBy
<1>3. ASSUME CostsSteady, NEW s \in GridStates, Updated(s) PROVE SteadyBy(value, s)
  BY <1>1, <1>3 DEF CostsSteady, SteadyBy, Reads
<1>4. QED
  BY <1>2, <1>3

LEMMA BestNext ==
  (acts \subseteq Actions =>
    /\ \A s \in GridStates : BestOf(s) = BestBy(value, s)
    /\ CostsSteady => \A s \in GridStates : Updated(s) => SteadyBy(value, s))'
BY BestNow, PTL

LEMMA PendingIs ==
  \A s : Pending(s) <=>
    /\ Updated(s) /\ BestOf(s)[1] < Reach /\ BestOf(s)[1] < value[s]
    /\ kind = "tau" /\ Tau > 0 => value[s] - BestOf(s)[1] > Tau
BY DEF Pending, Falls, Writes

LEMMA PendingNext ==
  (\A s : Pending(s) <=>
    /\ Updated(s) /\ BestOf(s)[1] < Reach /\ BestOf(s)[1] < value[s]
    /\ kind = "tau" /\ Tau > 0 => value[s] - BestOf(s)[1] > Tau)'
BY PendingIs, PTL

\* What does not depend on the table stays as long as the stage does.
LEMMA StageStays ==
  ASSUME UNCHANGED <<maze, kind, stage>>
  PROVE  /\ Now' = Now /\ Stages' = Stages
         /\ \A s : Updated(s)' <=> Updated(s)
         /\ \A s : Item(s)' = Item(s)
         /\ \A F : Candidates(F)' = Candidates(F)
         /\ \A v, s : BestBy(v, s)' = BestBy(v, s) /\ SteadyBy(v, s)' = SteadyBy(v, s)
<1>1. free' = free /\ goal' = goal /\ acts' = acts /\ kind' = kind /\ stage' = stage
  BY DEF maze
<1>2. Stages' = Stages
  BY <1>1 DEF Stages
<1>3. Now' = Now
  BY <1>1, <1>2 DEF Now
<1>4. \A s : Updated(s)' <=> Updated(s)
  BY <1>1, <1>3 DEF Updated
<1>5. \A s : BlockOf(s)' = BlockOf(s)
  BY <1>3 DEF BlockOf
<1>6. \A s : Item(s)' = Item(s)
  BY <1>3, <1>5 DEF Item
<1>7. Passable' = Passable
  BY <1>1, <1>5 DEF Passable
<1>8. \A b, d : NearBlock(b, d)' <=> NearBlock(b, d)
  BY <1>3 DEF NearBlock
<1>9. ASSUME NEW F PROVE Candidates(F)' = Candidates(F)
  BY <1>3, <1>5, <1>7, <1>8 DEF Candidates
<1>10. \A a, s : Used(a, s)' = Used(a, s)
  BY <1>1 DEF Used
<1>11. \A v, a, s : UsedSum(v, a, s)' = UsedSum(v, a, s)
  BY <1>10 DEF UsedSum
<1>12. \A a, s : Share(a, s)' = Share(a, s)
  BY <1>1, <1>10 DEF Share
<1>13. \A v, a, s : Open(v, a, s)' <=> Open(v, a, s)
  BY <1>1, <1>10, <1>12 DEF Open
<1>14. \A v, a, s : CostBy(v, a, s)' = CostBy(v, a, s)
  BY <1>11, <1>12, <1>13 DEF CostBy
<1>15. ASSUME NEW v, NEW s
       PROVE  BestBy(v, s)' = BestBy(v, s) /\ SteadyBy(v, s)' = SteadyBy(v, s)
  <2>1. {<<CostBy(v, a, s), a>> : a \in acts}' = {<<CostBy(v, a, s), a>> : a \in acts}
    BY <1>1, <1>14
  <2>2. BestBy(v, s)' = BestBy(v, s)
    BY <2>1, Zenon DEF BestBy
  <2>3. SteadyBy(v, s)' = SteadyBy(v, s)
    BY <1>1, <1>10, <1>11, <1>14 DEF SteadyBy
  <2>4. QED
    BY <2>2, <2>3
<1>16. QED
  BY <1>2, <1>3, <1>4, <1>6, <1>9, <1>15
-----------------------------------------------------------------------------
(* A fresh seed covers every pending state. *)

LEMMA SeedCovers ==
  TableTypeOK /\ stage \in 1 .. Len(Stages) /\ CostsSteady =>
    \A u \in GridStates : Pending(u) => u \in Candidates(Seed)
<1> SUFFICES ASSUME TableTypeOK, stage \in 1 .. Len(Stages), CostsSteady,
                    NEW u \in GridStates, Pending(u)
             PROVE  u \in Candidates(Seed)
  OBVIOUS
<1>1. /\ acts \subseteq Actions /\ TopCost \in Nat /\ Reach \in Nat /\ Reach < TopCost
      /\ value \in [GridStates -> Nat]
  BY MazeFacts, RawAssumption
<1>2. Now.size \in Nat \ {0}
  BY StageFacts DEF Now
<1>3. Updated(u) /\ BestOf(u)[1] < Reach
  BY PendingIs
<1>4. BestBy(value, u)[1] < Reach /\ SteadyBy(value, u)
  BY <1>1, <1>3, BestNow
<1> DEFINE a == BestBy(value, u)[2]
<1>5. /\ a \in acts /\ CostBy(value, a, u) < Reach
      /\ CostBy(value, a, u) \in Nat /\ CostBy(value, a, u) # TopCost
  <2>1. BestBy(value, u)[1] \in 0 .. TopCost
    BY <1>1, BestFacts
  <2>2. BestBy(value, u)[1] < TopCost
    BY <1>1, <1>4, <2>1
  <2>3. a \in acts /\ BestBy(value, u)[1] = CostBy(value, a, u)
    BY <1>1, <2>2, BestFacts
  <2> HIDE DEF a
  <2>4. QED
    BY <1>1, <1>4, <2>1, <2>2, <2>3
<1> HIDE DEF a
<1>6. a \in Actions /\ Open(value, a, u)
  BY <1>1, <1>5, CostFacts
<1>7. PICK i \in Used(a, u) : value[Reads(a, u, i)] < TopCost
  BY <1>4, <1>5 DEF SteadyBy
<1>8. Reads(a, u, i)[1] \in GridCols /\ Reads(a, u, i) \in GridStates
  BY <1>1, <1>6, SumGrows DEF Open
<1>9. Near(Item(Reads(a, u, i)), u)
  BY <1>2, <1>3, <1>6, <1>8, ReadsNear DEF Updated
<1>10. Item(Reads(a, u, i)) \in Seed
  <2>1. CASE Now.by = "map"
    BY <2>1 DEF Seed, Item
  <2>2. CASE Now.by # "map"
    BY <1>7, <1>8, <2>2 DEF Seed
  <2>3. QED
    BY <2>1, <2>2
<1>11. QED
  BY <1>9, <1>10, CandidatesAre
-----------------------------------------------------------------------------
(* The inductive invariant. *)

Inv ==
  /\ TypeOK
  /\ Covered
  /\ pc # "end" => outcome = "running"
  /\ outcome = "converged" => frontier = {}

LEMMA InitInv == Init /\ CostsSteady => Inv
<1> SUFFICES ASSUME Init, CostsSteady PROVE Inv
  OBVIOUS
<1>1. PICK m \in Mazes : free = m.free /\ goal = m.goal /\ acts = m.acts
  BY DEF Init, TableInit
<1>2. TableTypeOK
  <2>1. m \in [free : SUBSET GridCols, goal : SUBSET GridStates, acts : SUBSET Actions]
    BY RawAssumption
  <2>2. m = [free |-> m.free, goal |-> m.goal, acts |-> m.acts]
    BY <2>1
  <2>3. Maze = m
    BY <1>1, <2>2 DEF Maze
  <2>4. TopCost \in Nat
    BY RawAssumption
  <2>5. value \in [GridStates -> 0 .. TopCost]
    BY <2>4 DEF Init, TableInit, Cleared
  <2>6. act \in [GridStates -> Actions \union {NoAction}]
    BY DEF Init, TableInit
  <2>7. QED
    BY <2>3, <2>5, <2>6 DEF TableTypeOK
<1>3. stage \in 1 .. Len(Stages)
  BY StageFacts DEF Init
<1>4. TypeOK
  BY <1>2, <1>3 DEF TypeOK, Init
<1>5. Covered
  BY <1>2, <1>3, SeedCovers DEF Covered, Init
<1>6. QED
  BY <1>4, <1>5 DEF Inv, Init

\* A state that reads what is in the next frontier is near it.
LEMMA NearNext ==
  ASSUME UNCHANGED <<maze, kind, stage>>, stage \in 1 .. Len(Stages), acts \subseteq Actions,
         NEW s \in GridStates, Item(s) \in next', NEW u \in GridStates, Updated(u),
         \E a \in acts : \E i \in Used(a, u) : Reads(a, u, i) = s
  PROVE  u \in Candidates(next)'
<1>1. PICK a \in acts : \E i \in Used(a, u) : Reads(a, u, i) = s
  OBVIOUS
<1> PICK i \in Used(a, u) : Reads(a, u, i) = s
  BY <1>1
<1>2. a \in Actions /\ s[1] \in GridCols /\ u[1] \in free
  BY DEF GridStates, Updated
<1>3. Now.size \in Nat \ {0}
  BY StageFacts DEF Now
<1>4. Near(Item(s), u)
  BY <1>2, <1>3, ReadsNear
<1>5. u \in Candidates(next')
  BY <1>4, CandidatesAre
<1>6. \A F : Candidates(F)' = Candidates(F)
  BY StageStays
<1>7. QED
  BY <1>5, <1>6

\* A state that stays pending stays covered, and one that becomes pending reads
\* the state that fell.
LEMMA VisitCovers ==
  ASSUME TypeOK, CostsSteady', Visit, NEW u \in GridStates, Pending(u)'
  PROVE  \/ Pending(u) /\ u # Head(todo)
         \/ u \in Candidates(next)'
<1> DEFINE s == Head(todo)
           best == BestOf(s)
           Stores == Updated(s) /\ Writes(s, best[1])
<1>1. s \in GridStates
  BY DEF TypeOK, Visit
<1>2. UNCHANGED <<maze, kind, stage>> /\ stage \in 1 .. Len(Stages)
  BY DEF Visit, TypeOK
<1>3. /\ acts \subseteq Actions /\ TopCost \in Nat
      /\ value \in [GridStates -> 0 .. TopCost] /\ value \in [GridStates -> Nat]
      /\ acts' = acts
  BY <1>2, MazeFacts DEF TypeOK, maze
<1>4. /\ Stores => /\ value' = [value EXCEPT ![s] = best[1]]
                   /\ next' = IF Falls(s, best[1]) THEN next \union {Item(s)} ELSE next
      /\ ~Stores => value' = value /\ next' = next
  <2>1. \E b \in {BestOf(s)} :
          IF Updated(s) /\ Writes(s, b[1])
          THEN /\ value' = [value EXCEPT ![s] = b[1]]
               /\ act' = [act EXCEPT ![s] = b[2]]
               /\ next' = IF Falls(s, b[1]) THEN next \union {Item(s)} ELSE next
          ELSE UNCHANGED <<table, next>>
    BY DEF Visit
  <2>2. QED
    BY <2>1 DEF table
<1>5. best = BestBy(value, s) /\ best[1] \in 0 .. TopCost /\ BestOf(u) = BestBy(value, u)
  <2>1. best = BestBy(value, s) /\ BestOf(u) = BestBy(value, u)
    BY <1>1, <1>3, BestNow
  <2> HIDE DEF best
  <2>2. QED
    BY <1>1, <1>3, <2>1, BestFacts
<1> HIDE DEF s, best
<1>6. value' \in [GridStates -> 0 .. TopCost] /\ value' \in [GridStates -> Nat]
  BY <1>1, <1>3, <1>4, <1>5
<1>7. BestOf(u)' = BestBy(value', u) /\ (Updated(u) => SteadyBy(value', u))
  <2>1. /\ (\A t \in GridStates : BestOf(t) = BestBy(value, t))'
        /\ (CostsSteady => \A t \in GridStates : Updated(t) => SteadyBy(value, t))'
    BY <1>3, BestNext
  <2>2. \A t : Updated(t)' <=> Updated(t)
    BY <1>2, StageStays
  <2>3. \A v, t : BestBy(v, t)' = BestBy(v, t) /\ SteadyBy(v, t)' = SteadyBy(v, t)
    BY <1>2, StageStays
  <2>4. BestOf(u)' = BestBy(value', u)
    BY <2>1, <2>3
  <2>5. Updated(u) => SteadyBy(value', u)
    BY <2>1, <2>2, <2>3
  <2>6. QED
    BY <2>4, <2>5
<1>8. /\ Updated(u) /\ BestBy(value', u)[1] < Reach
      /\ BestBy(value', u)[1] < value'[u]
      /\ kind = "tau" /\ Tau > 0 => value'[u] - BestBy(value', u)[1] > Tau
  <2>1. (\A t : Pending(t) <=>
          /\ Updated(t) /\ BestOf(t)[1] < Reach /\ BestOf(t)[1] < value[t]
          /\ kind = "tau" /\ Tau > 0 => value[t] - BestOf(t)[1] > Tau)'
    BY PendingNext
  <2>2. kind' = kind /\ \A t : Updated(t)' <=> Updated(t)
    BY <1>2, StageStays
  <2>3. QED
    BY <1>7, <2>1, <2>2
<1> DEFINE v == value
           w == value'
           B == BestBy(w, u)[1]
<1>9. B \in 0 .. TopCost /\ BestBy(v, u)[1] \in 0 .. TopCost
  BY <1>3, <1>6, BestFacts
<1>10. CASE u = s
  <2>1. Stores
    <3>1. CASE ~Stores
      <4>1. value' = value
        BY <1>4, <3>1
      <4>2. Writes(s, best[1])
        BY <1>5, <1>8, <1>10, <4>1 DEF Writes
      <4>3. QED
        BY <1>8, <1>10, <3>1, <4>2
    <3>2. QED
      BY <3>1
  <2>2. w[s] = best[1] /\ \A t \in GridStates : t # s => w[t] = v[t]
    BY <1>1, <1>3, <1>4, <2>1
  <2>3. ~(BestBy(v, u)[1] <= B)
    BY <1>3, <1>5, <1>8, <1>9, <1>10, <2>2
  <2>4. w[s] < v[s] /\ \E a \in acts : \E i \in Used(a, u) : Reads(a, u, i) = s
    <3> HIDE DEF v, w
    <3>1. v \in [GridStates -> 0 .. TopCost] /\ w \in [GridStates -> 0 .. TopCost]
      BY <1>3, <1>6 DEF v, w
    <3>2. SteadyBy(w, u) /\ BestBy(w, u)[1] < Reach
      BY <1>7, <1>8 DEF w
    <3>3. \/ BestBy(v, u)[1] <= BestBy(w, u)[1]
          \/ w[s] < v[s] /\ \E a \in acts : \E i \in Used(a, u) : Reads(a, u, i) = s
      BY <1>1, <1>3, <2>2, <3>1, <3>2, ChangeSpreads
    <3>4. QED
      BY <2>3, <3>3
  <2>5. Item(s) \in next'
    BY <1>4, <2>1, <2>2, <2>4 DEF Falls
  <2>6. QED
    BY <1>1, <1>2, <1>3, <1>8, <2>4, <2>5, NearNext DEF s
<1>11. CASE u # s
  <2>1. \A t \in GridStates : t # s => w[t] = v[t]
    BY <1>1, <1>3, <1>4
  <2>2. CASE BestBy(v, u)[1] <= B
    <3>0. w[u] = v[u]
      BY <1>11, <2>1
    <3>1. BestOf(u)[1] < Reach /\ BestOf(u)[1] < value[u]
      BY <1>3, <1>5, <1>8, <1>9, <2>2, <3>0, RawAssumption
    <3>2. kind = "tau" /\ Tau > 0 => value[u] - BestOf(u)[1] > Tau
      <4>1. value[u] \in Nat /\ Tau \in Nat
        BY <1>3, SerialAssumption
      <4>2. QED
        BY <1>3, <1>5, <1>8, <1>9, <2>2, <3>0, <4>1
    <3>3. QED
      BY <1>8, <1>11, <3>1, <3>2, PendingIs DEF s
  <2>3. CASE ~(BestBy(v, u)[1] <= B)
    <3>1. w[s] < v[s] /\ \E a \in acts : \E i \in Used(a, u) : Reads(a, u, i) = s
      <4> HIDE DEF v, w
      <4>1. v \in [GridStates -> 0 .. TopCost] /\ w \in [GridStates -> 0 .. TopCost]
        BY <1>3, <1>6 DEF v, w
      <4>2. SteadyBy(w, u) /\ BestBy(w, u)[1] < Reach
        BY <1>7, <1>8 DEF w
      <4>3. \/ BestBy(v, u)[1] <= BestBy(w, u)[1]
            \/ w[s] < v[s] /\ \E a \in acts : \E i \in Used(a, u) : Reads(a, u, i) = s
        BY <1>1, <1>3, <2>1, <4>1, <4>2, ChangeSpreads
      <4>4. QED
        BY <2>3, <4>3
    <3>2. Stores /\ w[s] = best[1]
      <4>1. v[s] \in Nat
        BY <1>1, <1>3
      <4>2. w # v
        BY <3>1, <4>1
      <4>3. QED
        BY <1>1, <1>3, <1>4, <4>2
    <3>3. Item(s) \in next'
      BY <1>4, <3>1, <3>2 DEF Falls
    <3>4. QED
      BY <1>1, <1>2, <1>3, <1>8, <3>1, <3>3, NearNext DEF s
  <2>4. QED
    BY <2>2, <2>3
<1>12. QED
  BY <1>10, <1>11

\* What is still to come of a round, or will be near the next one's frontier.
LEMMA CoveredIs ==
  Covered <=>
    (kind \notin {"reference", "stream"} /\ outcome # "cut" =>
       /\ pc = "visit" => \A s \in GridStates : Pending(s) =>
                            (\E i \in DOMAIN todo : s = todo[i]) \/ s \in Candidates(next)
       /\ pc # "visit" => \A s \in GridStates : Pending(s) => s \in Candidates(frontier))
BY DEF Covered

LEMMA CoveredNext ==
  (Covered <=>
    (kind \notin {"reference", "stream"} /\ outcome # "cut" =>
       /\ pc = "visit" => \A s \in GridStates : Pending(s) =>
                            (\E i \in DOMAIN todo : s = todo[i]) \/ s \in Candidates(next)
       /\ pc # "visit" => \A s \in GridStates : Pending(s) => s \in Candidates(frontier)))'
BY CoveredIs, PTL

LEMMA TableStays ==
  ASSUME UNCHANGED <<table, maze, kind, stage>>
  PROVE  /\ TableTypeOK' <=> TableTypeOK
         /\ \A s : Pending(s)' <=> Pending(s)
<1>1. /\ free' = free /\ goal' = goal /\ acts' = acts /\ value' = value /\ act' = act
      /\ kind' = kind /\ stage' = stage
  BY DEF table, maze
<1>2. TableTypeOK' <=> TableTypeOK
  BY <1>1 DEF TableTypeOK, Maze
<1>3. \A s : Updated(s)' <=> Updated(s)
  BY StageStays
<1>4. \A a, s : RawCost(a, s)' = RawCost(a, s)
  BY <1>1 DEF RawCost
<1>5. \A a, s : ClampCost(a, s)' = ClampCost(a, s)
  BY <1>1, <1>4 DEF ClampCost
<1>6. \A a, s : TopKCost(a, s, TopK)' = TopKCost(a, s, TopK)
  BY <1>1, <1>4 DEF TopKCost
<1>7. \A a, s : Cost(a, s)' = Cost(a, s)
  BY <1>1, <1>4, <1>5, <1>6 DEF Cost
<1>8. ASSUME NEW s PROVE BestOf(s)' = BestOf(s)
  <2>1. {<<Cost(a, s), a>> : a \in acts}' = {<<Cost(a, s), a>> : a \in acts}
    BY <1>1, <1>7
  <2>2. QED
    BY <2>1, Zenon DEF BestOf
<1>9. \A s : Pending(s)' <=> Pending(s)
  <2>1. \A s : Pending(s)' <=>
          /\ Updated(s)' /\ BestOf(s)' [1] < Reach /\ BestOf(s)' [1] < value'[s]
          /\ kind' = "tau" /\ Tau > 0 => value'[s] - BestOf(s)' [1] > Tau
    BY PendingNext
  <2>2. QED
    BY <1>1, <1>3, <1>8, <2>1, PendingIs
<1>10. QED
  BY <1>2, <1>9

LEMMA StartRoundKeeps ==
  ASSUME Inv, StartRound
  PROVE  Inv'
<1>1. UNCHANGED <<table, maze, kind, stage>> /\ outcome' = outcome
  BY DEF StartRound
<1>2. Now.size \in Nat \ {0}
  BY StageFacts DEF Inv, TypeOK, Now
<1>3. /\ todo' \in Seq(GridStates)
      /\ \A s \in Candidates(frontier) : \E i \in DOMAIN todo' : todo'[i] = s
  BY <1>2, VisitsFacts DEF StartRound
<1>4. TypeOK'
  <2>1. Stages' = Stages /\ TableTypeOK'
    BY <1>1, StageStays, TableStays DEF Inv, TypeOK
  <2>2. QED
    BY <1>1, <1>3, <2>1 DEF Inv, TypeOK, StartRound
<1>5. Covered'
  <2>1. \A s : Pending(s)' <=> Pending(s)
    BY <1>1, TableStays
  <2>2. pc # "visit" /\ pc' = "visit" /\ kind' = kind
    BY DEF StartRound
  <2>3. QED
    BY <1>1, <1>3, <2>1, <2>2, CoveredIs, CoveredNext DEF Inv
<1>6. QED
  BY <1>4, <1>5 DEF Inv, StartRound

LEMMA VisitKeeps ==
  ASSUME Inv, CostsSteady', Visit
  PROVE  Inv'
<1> DEFINE s == Head(todo)
           best == BestOf(s)
<1>1. UNCHANGED <<maze, kind, stage>> /\ outcome' = outcome /\ pc' = pc /\ pc = "visit"
  BY DEF Visit
<1>2. todo \in Seq(GridStates) /\ todo # <<>> /\ todo' = Tail(todo)
  BY DEF Inv, TypeOK, Visit
<1>3. /\ s \in GridStates /\ todo' \in Seq(GridStates)
      /\ \A i \in DOMAIN todo : todo[i] = s \/ \E j \in DOMAIN todo' : todo'[j] = todo[i]
  <2>1. Len(todo) \in Nat \ {0} /\ DOMAIN todo = 1 .. Len(todo) /\ s = todo[1] /\ s \in GridStates
    BY <1>2
  <2>2. /\ todo' \in Seq(GridStates) /\ Len(todo') = Len(todo) - 1
        /\ \A j \in 1 .. Len(todo) - 1 : todo'[j] = todo[j + 1]
    BY <1>2
  <2>3. DOMAIN todo' = 1 .. Len(todo) - 1
    BY <2>2
  <2> HIDE DEF s
  <2>4. ASSUME NEW i \in DOMAIN todo, i # 1
        PROVE  \E j \in DOMAIN todo' : todo'[j] = todo[i]
    <3>1. PICK j \in 1 .. Len(todo) - 1 : j + 1 = i
      <4>1. i - 1 \in 1 .. Len(todo) - 1 /\ (i - 1) + 1 = i
        BY <2>1, <2>4
      <4>2. QED
        BY <4>1
    <3>2. QED
      BY <2>2, <2>3, <3>1
  <2>5. QED
    BY <2>1, <2>2, <2>4
<1>4. /\ acts \subseteq Actions /\ TopCost \in Nat /\ value \in [GridStates -> Nat]
      /\ value \in [GridStates -> 0 .. TopCost]
  BY MazeFacts DEF Inv, TypeOK
<1>5. best[1] \in 0 .. TopCost /\ best[2] \in Actions \union {NoAction}
  <2>1. best = BestBy(value, s)
    BY <1>3, <1>4, BestNow
  <2>2. BestBy(value, s)[1] \in 0 .. TopCost /\ BestBy(value, s)[2] \in acts \union {NoAction}
    BY <1>3, <1>4, BestFacts
  <2> HIDE DEF best
  <2>3. QED
    BY <1>4, <2>1, <2>2
<1>6. TypeOK'
  <2>1. Stages' = Stages
    BY <1>1, StageStays
  <2>2. \/ value' = [value EXCEPT ![s] = best[1]] /\ act' = [act EXCEPT ![s] = best[2]]
        \/ value' = value /\ act' = act
    BY DEF Visit, table
  <2>3. TableTypeOK'
    <3>1. Maze' = Maze
      BY <1>1 DEF Maze, maze
    <3>2. act \in [GridStates -> Actions \union {NoAction}] /\ Maze \in Mazes
      BY DEF Inv, TypeOK, TableTypeOK
    <3> HIDE DEF s, best
    <3>3. /\ value' \in [GridStates -> 0 .. TopCost]
          /\ act' \in [GridStates -> Actions \union {NoAction}]
      BY <1>3, <1>4, <1>5, <2>2, <3>2
    <3>4. QED
      BY <3>1, <3>2, <3>3 DEF TableTypeOK
  <2>4. iters' = iters /\ total' = total
    BY DEF Visit
  <2>5. QED
    BY <1>1, <1>3, <2>1, <2>3, <2>4 DEF Inv, TypeOK
<1>7. Covered'
  <2> SUFFICES ASSUME kind \notin {"reference", "stream"}, outcome # "cut",
                      NEW u \in GridStates, Pending(u)'
               PROVE  (\E i \in DOMAIN todo' : u = todo'[i]) \/ u \in Candidates(next)'
    BY <1>1, CoveredNext
  <2>1. (Pending(u) /\ u # s) \/ u \in Candidates(next)'
    BY VisitCovers DEF Inv
  <2>2. ASSUME Pending(u), u # s
        PROVE  (\E i \in DOMAIN todo' : u = todo'[i]) \/ u \in Candidates(next)'
    <3>1. (\E i \in DOMAIN todo : u = todo[i]) \/ u \in Candidates(next)
      BY <1>1, <2>2, CoveredIs DEF Inv
    <3>2. Candidates(next) \subseteq Candidates(next)'
      <4>1. next \subseteq next'
        BY DEF Visit
      <4>2. Candidates(next) \subseteq Candidates(next')
        BY <4>1, CandidatesAre
      <4>3. \A F : Candidates(F)' = Candidates(F)
        BY <1>1, StageStays
      <4>4. QED
        BY <4>2, <4>3
    <3> HIDE DEF s
    <3>3. QED
      BY <1>3, <2>2, <3>1, <3>2
  <2>3. QED
    BY <2>1, <2>2
<1>8. QED
  BY <1>1, <1>6, <1>7 DEF Inv

LEMMA EndRoundKeeps ==
  ASSUME Inv, EndRound
  PROVE  Inv'
<1>1. /\ UNCHANGED <<table, maze, kind, stage>> /\ outcome' = outcome
      /\ pc = "visit" /\ pc' = "round" /\ todo = <<>> /\ todo' = todo
  BY DEF EndRound
<1>2. TypeOK'
  <2>1. Stages' = Stages /\ TableTypeOK'
    BY <1>1, StageStays, TableStays DEF Inv, TypeOK
  <2>2. QED
    BY <1>1, <2>1 DEF Inv, TypeOK, EndRound
<1>3. Covered'
  <2> SUFFICES ASSUME kind \notin {"reference", "stream"}, outcome # "cut",
                      NEW u \in GridStates, Pending(u)'
               PROVE  u \in Candidates(frontier)'
    BY <1>1, CoveredNext
  <2>1. Pending(u)
    BY <1>1, TableStays
  <2>2. u \in Candidates(next)
    BY <1>1, <2>1, CoveredIs DEF Inv
  <2>3. frontier' = next
    <3>1. Now.by # "map"
      BY StageFacts DEF Inv, TypeOK, Now
    <3>2. QED
      BY <3>1 DEF EndRound
  <2>4. \A F : Candidates(F)' = Candidates(F)
    BY <1>1, StageStays
  <2>5. QED
    BY <2>2, <2>3, <2>4
<1>4. QED
  BY <1>1, <1>2, <1>3 DEF Inv

LEMMA SeedNext ==
  (TableTypeOK /\ stage \in 1 .. Len(Stages) /\ CostsSteady =>
    \A u \in GridStates : Pending(u) => u \in Candidates(Seed))'
BY SeedCovers, PTL

LEMMA EndStageKeeps ==
  ASSUME Inv, CostsSteady', EndStage
  PROVE  Inv'
<1>1. /\ UNCHANGED <<table, maze, kind, todo, next>> /\ pc = "round" /\ outcome = "running"
      /\ total' \in Nat
  BY DEF Inv, TypeOK, EndStage
<1>2. CASE /\ Finished
           /\ outcome' = IF frontier = {} THEN "converged" ELSE "cut"
           /\ pc' = "end"
           /\ UNCHANGED <<stage, frontier, iters>>
  <2>1. TypeOK'
    <3>1. Stages' = Stages /\ TableTypeOK'
      BY <1>1, <1>2, StageStays, TableStays DEF Inv, TypeOK
    <3>2. QED
      BY <1>1, <1>2, <3>1 DEF Inv, TypeOK
  <2>2. Covered'
    <3> SUFFICES ASSUME kind \notin {"reference", "stream"}, frontier = {},
                        NEW u \in GridStates, Pending(u)'
                 PROVE  FALSE
      BY <1>1, <1>2, CoveredNext
    <3>1. Pending(u)
      BY <1>1, <1>2, TableStays
    <3>2. u \in Candidates(frontier)
      BY <1>1, <3>1, CoveredIs DEF Inv
    <3>3. QED
      BY <3>2, CandidatesAre
  <2>3. QED
    BY <1>2, <2>1, <2>2 DEF Inv
<1>3. CASE /\ ~Finished
           /\ stage' = stage + 1
           /\ frontier' = Seed'
           /\ iters' = 0
           /\ UNCHANGED <<outcome, pc>>
  <2>1. Stages' = Stages /\ (TableTypeOK' <=> TableTypeOK)
    <3>1. kind' = kind /\ value' = value /\ act' = act /\ Maze' = Maze
      BY <1>1 DEF table, maze, Maze
    <3>2. QED
      BY <3>1 DEF Stages, TableTypeOK
  <2>2. stage' \in 1 .. Len(Stages)'
    <3>1. stage \in 1 .. Len(Stages) /\ stage # Len(Stages) /\ Len(Stages) \in Nat
      BY <1>3, StageFacts DEF Inv, TypeOK, Finished, IsLast
    <3>2. QED
      BY <1>3, <2>1, <3>1
  <2>3. TypeOK'
    BY <1>1, <1>3, <2>1, <2>2 DEF Inv, TypeOK
  <2>4. Covered'
    <3>1. \A u \in GridStates : Pending(u)' => u \in Candidates(Seed)'
      BY <2>1, <2>2, SeedNext DEF Inv, TypeOK
    <3>2. Candidates(Seed)' = Candidates(frontier)'
      BY <1>3
    <3>3. QED
      BY <1>1, <1>3, <3>1, <3>2, CoveredNext
  <2>5. QED
    BY <1>1, <1>3, <2>3, <2>4 DEF Inv
<1>4. QED
  BY <1>2, <1>3 DEF EndStage

LEMMA NextInv == Inv /\ CostsSteady /\ CostsSteady' /\ [Next]_vars => Inv'
<1> SUFFICES ASSUME Inv, CostsSteady', [Next]_vars PROVE Inv'
  OBVIOUS
<1>1. CASE StartRound
  BY <1>1, StartRoundKeeps
<1>2. CASE Visit
  BY <1>2, VisitKeeps
<1>3. CASE EndRound
  BY <1>3, EndRoundKeeps
<1>4. CASE EndStage
  BY <1>4, EndStageKeeps
<1>5. CASE UNCHANGED vars
  <2>1. /\ UNCHANGED <<table, maze, kind, stage>>
        /\ UNCHANGED <<frontier, todo, next, iters, total, pc, outcome>>
    BY <1>5 DEF vars, work
  <2>2. Stages' = Stages /\ TableTypeOK' /\ \A s : Pending(s)' <=> Pending(s)
    BY <2>1, StageStays, TableStays DEF Inv, TypeOK
  <2>3. TypeOK'
    BY <2>1, <2>2 DEF Inv, TypeOK
  <2>4. Covered'
    <3>1. \A F : Candidates(F)' = Candidates(F)
      BY <2>1, StageStays
    <3>2. Candidates(next)' = Candidates(next) /\ Candidates(frontier)' = Candidates(frontier)
      BY <2>1, <3>1
    <3>3. QED
      BY <2>1, <2>2, <3>2, CoveredIs, CoveredNext DEF Inv
  <2>5. QED
    BY <2>1, <2>3, <2>4 DEF Inv
<1>6. QED
  BY <1>1, <1>2, <1>3, <1>4, <1>5 DEF Next

LEMMA SerialInvariant == Spec /\ []CostsSteady => []Inv
<1>1. Init /\ CostsSteady => Inv
  BY InitInv
<1>2. Inv /\ CostsSteady /\ CostsSteady' /\ [Next]_vars => Inv'
  BY NextInv
<1>3. QED
  BY <1>1, <1>2, PTL DEF Spec

\* No frontier forgets a state: whatever the solver, the map and the budgets, a
\* state that one more visit would lower below the threshold is still to come in
\* the round or near something that fell, through the in-place sweeps of a round,
\* the round's end, a stage that is cut short and the next stage's fresh seed
\* (seed_frontier, dilate and the *_solve loops of solvers/).
THEOREM FrontierForgetsNobody == Spec /\ []CostsSteady => []Covered
<1>1. Inv => Covered
  BY DEF Inv
<1>2. QED
  BY <1>1, SerialInvariant, PTL

\* A converged solve is settled: no further visit would lower a state below the
\* threshold, however far it is from the last states, columns or blocks that fell
\* (the converged flag of U64SolveStats).
ConvergedSettled ==
  outcome = "converged" /\ kind \notin {"reference", "stream"} =>
    \A s \in GridStates : ~Pending(s)

\* Convergence of every solver with a frontier means that nothing is pending.
THEOREM ConvergedIsSettled == Spec /\ []CostsSteady => []ConvergedSettled
<1>1. Inv => ConvergedSettled
  <2> SUFFICES ASSUME Inv, outcome = "converged", kind \notin {"reference", "stream"},
                      NEW s \in GridStates, Pending(s)
               PROVE  FALSE
    BY DEF ConvergedSettled
  <2>1. frontier = {} /\ pc # "visit"
    BY DEF Inv
  <2>2. s \in Candidates(frontier)
    BY <2>1, CoveredIs DEF Inv
  <2>3. QED
    BY <2>1, <2>2, CandidatesAre
<1>2. QED
  BY <1>1, SerialInvariant, PTL
=============================================================================
