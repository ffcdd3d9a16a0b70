---------------------------- MODULE RawViProofs -----------------------------
(***************************************************************************)
(* Theorems about the three components on the table of RawVi.              *)
(*                                                                         *)
(* PriorityVi: a stale heap entry never carries news that no other entry   *)
(* carries, and label correcting ends where no relaxation changes a label  *)
(* or an action.  They hold for every map, action list, cap and arithmetic *)
(* for which costs are steady (CostsSteady).                               *)
(*                                                                         *)
(* ValueIter: the type of the state, the discipline of calls and threads,  *)
(* and what a quiet return of a lone thread means for the whole table.     *)
(* They hold for every map, every number of threads and every interleaving *)
(* of their loads and stores.                                              *)
(*                                                                         *)
(* LocalVi (as L): the window around the robot never leaves the map.       *)
(***************************************************************************)
EXTENDS PriorityVi, ValueIter, GridFacts
-----------------------------------------------------------------------------
(* Outcomes, costs and the choice of the best action. *)

LEMMA OutcomeFacts ==
  ASSUME NEW s \in GridStates, NEW a \in Actions
  PROVE  LET trs == Trans[a][s[2]] IN
         /\ Len(trs) \in Nat \ {0} /\ DOMAIN trs = 1 .. Len(trs)
         /\ \A i \in 1 .. Len(trs) : trs[i] \in Outcomes(a, s) /\ trs[i].prob \in Nat
<1> DEFINE R == [dix : Int, diy : Int, dit : Int, prob : Nat]
           trs == Trans[a][s[2]]
<1>1. s[2] \in 0 .. NTheta - 1
  BY DEF GridStates
<1>2. trs # <<>> /\ trs \in Seq(R)
  BY <1>1, GeomAssumption
<1>3. \A i \in DOMAIN trs : trs[i] \in Outcomes(a, s)
  BY DEF Outcomes
<1> HIDE DEF trs
<1>4. Len(trs) \in Nat /\ DOMAIN trs = 1 .. Len(trs) /\ \A i \in 1 .. Len(trs) : trs[i] \in R
  <2> HIDE DEF R
  <2>1. QED
    BY <1>2
<1>5. Len(trs) # 0
  BY <1>2
<1>6. QED
  BY <1>3, <1>4, <1>5 DEF trs

LEMMA TargetFacts ==
  ASSUME NEW s \in GridStates, NEW a \in Actions, NEW f, NEW tr \in Outcomes(a, s),
         Lands(f, s[1], tr)
  PROVE  Target(s[1], tr) \in GridStates /\ Target(s[1], tr)[1] \in f
<1>1. PICK i \in DOMAIN Trans[a][s[2]] : tr = Trans[a][s[2]][i]
  BY DEF Outcomes
<1>2. s[2] \in 0 .. NTheta - 1
  BY DEF GridStates
<1> DEFINE R == [dix : Int, diy : Int, dit : Int, prob : Nat]
           trs == Trans[a][s[2]]
<1>3. trs \in Seq(R)
  BY <1>2, GeomAssumption
<1>4. tr \in R
  <2> HIDE DEF R
  <2>1. tr = trs[i] /\ i \in DOMAIN trs
    BY <1>1
  <2> HIDE DEF trs
  <2>2. QED
    BY <1>3, <2>1
<1>5. tr.dit \in Int /\ NTheta \in Nat \ {0}
  BY <1>4, GeomAssumption
<1>6. (tr.dit + NTheta) % NTheta \in 0 .. NTheta - 1
  BY <1>5
<1>7. Target(s[1], tr)[1] \in GridCols /\ Target(s[1], tr)[1] \in f
  BY DEF Lands
<1>8. Target(s[1], tr) = <<Target(s[1], tr)[1], (tr.dit + NTheta) % NTheta>>
  BY DEF Target
<1>9. QED
  BY <1>6, <1>7, <1>8 DEF GridStates

\* The action's cost does not count as TopCost by default.
Open(f, a, s) == \A tr \in Outcomes(a, s) : Lands(f, s[1], tr)

LEMMA WeightedFacts ==
  ASSUME NEW s \in GridStates, NEW a \in Actions, NEW f, Open(f, a, s),
         NEW v \in [GridStates -> Nat]
  PROVE  /\ Weighted(v, s[1], Trans[a][s[2]]) \in Nat
         /\ \A w \in [GridStates -> Nat] :
              (\A t \in Targets(a, s) : v[t] <= w[t]) =>
                Weighted(v, s[1], Trans[a][s[2]]) <= Weighted(w, s[1], Trans[a][s[2]])
<1> DEFINE trs == Trans[a][s[2]]
           n == Len(trs)
           T(w) == [i \in 1 .. n |-> Term(w, s[1], trs[i])]
<1>1. n \in Nat /\ \A i \in 1 .. n : trs[i] \in Outcomes(a, s) /\ trs[i].prob \in Nat
  BY OutcomeFacts
<1>2. ASSUME NEW i \in 1 .. n
      PROVE  Target(s[1], trs[i]) \in GridStates /\ Target(s[1], trs[i]) \in Targets(a, s)
  <2>1. trs[i] \in Outcomes(a, s) /\ Lands(f, s[1], trs[i])
    BY <1>1 DEF Open
  <2>2. QED
    BY <2>1, TargetFacts DEF Targets
<1>3. ASSUME NEW w \in [GridStates -> Nat], NEW i \in 1 .. n
      PROVE  /\ Term(w, s[1], trs[i]) \in Nat
             /\ Term(w, s[1], trs[i]) = (w[Target(s[1], trs[i])] + Penalty[Target(s[1], trs[i])]) * trs[i].prob
  <2>1. w[Target(s[1], trs[i])] \in Nat /\ Penalty[Target(s[1], trs[i])] \in Nat /\ trs[i].prob \in Nat
    BY <1>1, <1>2, RawAssumption
  <2>2. \A x, y, z \in Nat : (x + y) * z \in Nat
    OBVIOUS
  <2>3. Term(w, s[1], trs[i]) = (w[Target(s[1], trs[i])] + Penalty[Target(s[1], trs[i])]) * trs[i].prob
    BY DEF Term
  <2> HIDE DEF trs
  <2>4. QED
    BY <2>1, <2>2, <2>3
<1>4. \A w \in [GridStates -> Nat] : T(w) \in [1 .. n -> Nat]
  BY <1>3
<1>5. \A w : Weighted(w, s[1], trs) = SumOf(T(w))
  BY DEF Weighted
<1>6. ASSUME NEW w \in [GridStates -> Nat], \A t \in Targets(a, s) : v[t] <= w[t],
             NEW i \in 1 .. n
      PROVE  T(v)[i] <= T(w)[i]
  <2> DEFINE t == Target(s[1], trs[i])
  <2>1. /\ v[t] \in Nat /\ w[t] \in Nat /\ v[t] <= w[t] /\ Penalty[t] \in Nat
        /\ trs[i].prob \in Nat
    BY <1>1, <1>2, <1>6, RawAssumption
  <2>2. \A x, y, p, q \in Nat : x <= y => (x + p) * q <= (y + p) * q
    OBVIOUS
  <2>3. T(v)[i] = (v[t] + Penalty[t]) * trs[i].prob /\ T(w)[i] = (w[t] + Penalty[t]) * trs[i].prob
    BY <1>3
  <2> HIDE DEF t, T
  <2>4. QED
    BY <2>1, <2>2, <2>3
<1>7. \A w \in [GridStates -> Nat] :
        (\A t \in Targets(a, s) : v[t] <= w[t]) => \A i \in 1 .. n : T(v)[i] <= T(w)[i]
  BY <1>6
<1> HIDE DEF T
<1>8. SumOf(T(v)) \in Nat
  BY <1>1, <1>4, SumFacts
<1>9. \A w \in [GridStates -> Nat] :
        (\A i \in 1 .. n : T(v)[i] <= T(w)[i]) => SumOf(T(v)) <= SumOf(T(w))
  BY <1>1, <1>4, SumFacts
<1>10. QED
  BY <1>5, <1>7, <1>8, <1>9

\* action_cost_raw on a table v.
CostIn(v, a, s) == CostMod(free, v, a, s, Word)

LEMMA CostFacts ==
  ASSUME NEW s \in GridStates, NEW a \in Actions, NEW v \in [GridStates -> Nat]
  PROVE  /\ CostIn(v, a, s) \in Nat
         /\ CostIn(v, a, s) < TopCost => Open(free, a, s)
         /\ Open(free, a, s) /\ Weighted(v, s[1], Trans[a][s[2]]) < Word =>
              CostIn(v, a, s) = Weighted(v, s[1], Trans[a][s[2]]) \div ProbBase
         /\ Open(free, a, s) =>
              CostIn(v, a, s) = (Weighted(v, s[1], Trans[a][s[2]]) % Word) \div ProbBase
<1> DEFINE W == Weighted(v, s[1], Trans[a][s[2]])
<1>1. CostIn(v, a, s) = IF Open(free, a, s) THEN (W % Word) \div ProbBase ELSE TopCost
  BY DEF CostIn, CostMod, Open
<1>2. ProbBase \in Nat \ {0} /\ Word \in Nat \ {0} /\ TopCost \in Nat
  BY RawAssumption
<1>3. Open(free, a, s) => W \in Nat
  BY WeightedFacts
<1> HIDE DEF W
<1>4. \A n \in Nat : n % Word \in Nat /\ (n < Word => n % Word = n)
  BY <1>2
<1>5. \A n \in Nat : n \div ProbBase \in Nat
  BY <1>2, DivMod
<1>6. QED
  BY <1>1, <1>2, <1>3, <1>4, <1>5 DEF W
\* The first of the cheapest actions exists and is the only one.
LEMMA BestFacts ==
  ASSUME NEW P \in SUBSET (Nat \X Nat)
  PROVE  LET Q == P \union {<<TopCost, NoAction>>} IN
         /\ Best(P) \in Q
         /\ \A q \in Q : Best(P)[1] < q[1] \/ (Best(P)[1] = q[1] /\ Best(P)[2] <= q[2])
         /\ \A p \in Q :
              (\A q \in Q : p[1] < q[1] \/ (p[1] = q[1] /\ p[2] <= q[2])) => p = Best(P)
<1> DEFINE Q == P \union {<<TopCost, NoAction>>}
           Least(p) == \A q \in Q : p[1] < q[1] \/ (p[1] = q[1] /\ p[2] <= q[2])
<1>1. Q \in SUBSET (Nat \X Nat) /\ Q # {}
  <2>1. TopCost \in Nat /\ NoAction \in Nat
    BY RawAssumption DEF NoAction
  <2>2. <<TopCost, NoAction>> \in Nat \X Nat
    BY <2>1
  <2> HIDE DEF NoAction
  <2>3. QED
    BY <2>2
<1>2. \A q \in Q : q = <<q[1], q[2]>> /\ q[1] \in Nat /\ q[2] \in Nat
  BY <1>1
<1>3. Best(P) = CHOOSE p \in Q : Least(p)
  BY DEF Best
<1> HIDE DEF Q
<1>4. PICK m \in Q : Least(m) /\ \A r \in Q : Least(r) => r = m
  BY <1>1, FirstPair
<1> HIDE DEF Least
<1>5. Best(P) = m
  BY <1>3, <1>4
<1>6. QED
  BY <1>4, <1>5 DEF Least, Q

\* value_iteration_raw on a table v.
BestIn(v, s) == Best({<<CostIn(v, a, s), a>> : a \in acts})

LEMMA BestInFacts ==
  ASSUME NEW s \in GridStates, NEW v \in [GridStates -> Nat], acts \subseteq Actions
  PROVE  /\ BestIn(v, s)[1] \in 0 .. TopCost /\ BestIn(v, s)[2] \in acts \union {NoAction}
         /\ BestIn(v, s) = <<BestIn(v, s)[1], BestIn(v, s)[2]>>
         /\ BestIn(v, s)[1] < TopCost =>
              BestIn(v, s)[2] \in acts /\ BestIn(v, s)[1] = CostIn(v, BestIn(v, s)[2], s)
         /\ \A a \in acts : \/ BestIn(v, s)[1] < CostIn(v, a, s)
                            \/ BestIn(v, s)[1] = CostIn(v, a, s) /\ BestIn(v, s)[2] <= a
         /\ \A a \in acts :
              /\ CostIn(v, a, s) < TopCost
              /\ \A b \in acts : \/ CostIn(v, a, s) < CostIn(v, b, s)
                                 \/ CostIn(v, a, s) = CostIn(v, b, s) /\ a <= b
              => BestIn(v, s) = <<CostIn(v, a, s), a>>
<1> DEFINE P == {<<CostIn(v, a, s), a>> : a \in acts}
           b == Best(P)
<1>1. acts \subseteq Nat /\ \A a \in acts : CostIn(v, a, s) \in Nat
  BY CostFacts, RawAssumption
<1>2. P \in SUBSET (Nat \X Nat)
  BY <1>1
<1>3. TopCost \in Nat /\ NoAction \in Nat
  BY RawAssumption DEF NoAction
<1>4. \A a \in acts : <<CostIn(v, a, s), a>> \in P
  OBVIOUS
<1>5. \A p \in P : \E a \in acts : p = <<CostIn(v, a, s), a>>
  OBVIOUS
<1>6. BestIn(v, s) = b
  BY DEF BestIn
<1> HIDE DEF P
<1>7. /\ b \in P \union {<<TopCost, NoAction>>}
      /\ \A q \in P \union {<<TopCost, NoAction>>} : b[1] < q[1] \/ (b[1] = q[1] /\ b[2] <= q[2])
      /\ \A p \in P \union {<<TopCost, NoAction>>} :
           (\A q \in P \union {<<TopCost, NoAction>>} :
              p[1] < q[1] \/ (p[1] = q[1] /\ p[2] <= q[2])) => p = b
  BY <1>2, BestFacts
<1> HIDE DEF b
<1>8. /\ b[1] \in Nat /\ b = <<b[1], b[2]>> /\ b[2] \in acts \union {NoAction}
      /\ b[1] < TopCost => b[2] \in acts /\ b[1] = CostIn(v, b[2], s)
  <2>1. CASE b \in P
    <3>1. PICK a \in acts : b = <<CostIn(v, a, s), a>>
      BY <1>5, <2>1
    <3>2. QED
      BY <1>1, <3>1
  <2>2. CASE b = <<TopCost, NoAction>>
    BY <1>3, <2>2
  <2>3. QED
    BY <1>7, <2>1, <2>2
<1>9. b[1] <= TopCost
  <2>1. b[1] < <<TopCost, NoAction>>[1] \/ b[1] = <<TopCost, NoAction>>[1]
    BY <1>7
  <2>2. QED
    BY <1>3, <1>8, <2>1
<1>10. ASSUME NEW a \in acts
       PROVE  b[1] < CostIn(v, a, s) \/ (b[1] = CostIn(v, a, s) /\ b[2] <= a)
  <2> DEFINE q == <<CostIn(v, a, s), a>>
  <2>1. q \in P
    BY <1>4
  <2>2. b[1] < q[1] \/ (b[1] = q[1] /\ b[2] <= q[2])
    BY <1>7, <2>1
  <2>3. QED
    BY <2>2
<1>11. ASSUME NEW a \in acts, CostIn(v, a, s) < TopCost,
              \A c \in acts : \/ CostIn(v, a, s) < CostIn(v, c, s)
                              \/ CostIn(v, a, s) = CostIn(v, c, s) /\ a <= c
       PROVE  b = <<CostIn(v, a, s), a>>
  <2> DEFINE p == <<CostIn(v, a, s), a>>
  <2>1. p \in P \union {<<TopCost, NoAction>>}
    BY <1>4
  <2>2. ASSUME NEW q \in P \union {<<TopCost, NoAction>>}
        PROVE  p[1] < q[1] \/ (p[1] = q[1] /\ p[2] <= q[2])
    <3>1. CASE q \in P
      BY <1>5, <1>11, <3>1
    <3>2. CASE q = <<TopCost, NoAction>>
      BY <1>11, <3>2
    <3>3. QED
      BY <3>1, <3>2
  <2> HIDE DEF p
  <2>3. p = b
    BY <1>7, <2>1, <2>2
  <2>4. QED
    BY <2>3 DEF p
<1>12. b[1] \in 0 .. TopCost
  BY <1>3, <1>8, <1>9
<1>13. QED
  BY <1>6, <1>8, <1>10, <1>11, <1>12
-----------------------------------------------------------------------------
(* What one relaxation does to the backups of all states. *)

LEMMA CostChange ==
  ASSUME NEW v \in [GridStates -> Nat], NEW w \in [GridStates -> Nat], NEW s \in GridStates,
         \A t \in GridStates : t # s => w[t] = v[t],
         NEW u \in GridStates, NEW a \in Actions
  PROVE  /\ s \notin Targets(a, u) => CostIn(w, a, u) = CostIn(v, a, u)
         /\ CostIn(v, a, u) < TopCost /\ Weighted(v, u[1], Trans[a][u[2]]) < Word /\ w[s] <= v[s] =>
              CostIn(w, a, u) <= CostIn(v, a, u)
         /\ CostIn(w, a, u) < TopCost /\ Weighted(w, u[1], Trans[a][u[2]]) < Word /\ v[s] <= w[s] =>
              CostIn(v, a, u) <= CostIn(w, a, u)
<1> DEFINE V == Weighted(v, u[1], Trans[a][u[2]])
           W == Weighted(w, u[1], Trans[a][u[2]])
<1>1. w \in [GridStates -> Nat] /\ \A t \in GridStates : t # s => w[t] = v[t]
  OBVIOUS
<1>2. Open(free, a, u) => V \in Nat /\ W \in Nat
  BY <1>1, WeightedFacts
<1>3. Open(free, a, u) => Targets(a, u) \subseteq GridStates
  BY TargetFacts DEF Open, Targets
<1>4. ASSUME Open(free, a, u), \A t \in Targets(a, u) : v[t] <= w[t] PROVE V <= W
  BY <1>1, <1>4, WeightedFacts
<1>5. ASSUME Open(free, a, u), \A t \in Targets(a, u) : w[t] <= v[t] PROVE W <= V
  BY <1>1, <1>5, WeightedFacts
<1> HIDE DEF V, W
<1>6. /\ CostIn(v, a, u) < TopCost => Open(free, a, u)
      /\ Open(free, a, u) /\ V < Word => CostIn(v, a, u) = V \div ProbBase
      /\ Open(free, a, u) => CostIn(v, a, u) = (V % Word) \div ProbBase
  BY CostFacts DEF V
<1>7. /\ CostIn(w, a, u) < TopCost => Open(free, a, u)
      /\ Open(free, a, u) /\ W < Word => CostIn(w, a, u) = W \div ProbBase
      /\ Open(free, a, u) => CostIn(w, a, u) = (W % Word) \div ProbBase
  BY <1>1, CostFacts DEF W
<1>8. ASSUME s \notin Targets(a, u) PROVE CostIn(w, a, u) = CostIn(v, a, u)
  <2>1. CASE Open(free, a, u)
    <3>1. \A t \in Targets(a, u) : w[t] = v[t] /\ v[t] \in Nat /\ w[t] \in Nat
      BY <1>1, <1>3, <1>8, <2>1
    <3>2. \A m, n \in Nat : m = n => m <= n
      OBVIOUS
    <3>3. \A t \in Targets(a, u) : w[t] <= v[t] /\ v[t] <= w[t]
      BY <3>1, <3>2
    <3>4. V <= W /\ W <= V
      BY <1>4, <1>5, <2>1, <3>3
    <3>5. V = W
      BY <1>2, <2>1, <3>4
    <3>6. QED
      BY <1>6, <1>7, <2>1, <3>5
  <2>2. CASE ~Open(free, a, u)
    BY <2>2 DEF CostIn, CostMod, Open
  <2>3. QED
    BY <2>1, <2>2
<1>9. ASSUME CostIn(v, a, u) < TopCost, V < Word, w[s] <= v[s]
      PROVE  CostIn(w, a, u) <= CostIn(v, a, u)
  <2>1. \A t \in Targets(a, u) : w[t] <= v[t]
    <3>1. ASSUME NEW t \in GridStates PROVE w[t] <= v[t]
      <4>1. v[t] \in Nat /\ w[t] \in Nat
        BY <1>1
      <4>2. QED
        BY <1>1, <1>9, <4>1
    <3>2. QED
      BY <1>3, <1>6, <1>9, <3>1
  <2>2. W <= V /\ W \in Nat /\ V \in Nat /\ Word \in Nat
    BY <1>2, <1>5, <1>6, <1>9, <2>1, RawAssumption
  <2>3. W < Word
    BY <1>9, <2>2
  <2>4. CostIn(v, a, u) = V \div ProbBase /\ CostIn(w, a, u) = W \div ProbBase
    BY <1>6, <1>7, <1>9, <2>3
  <2>5. ProbBase \in Nat \ {0}
    BY RawAssumption
  <2>6. W \div ProbBase <= V \div ProbBase
    BY <2>2, <2>5, DivMonotone
  <2>7. QED
    BY <2>4, <2>6
<1>10. ASSUME CostIn(w, a, u) < TopCost, W < Word, v[s] <= w[s]
       PROVE  CostIn(v, a, u) <= CostIn(w, a, u)
  <2>1. \A t \in Targets(a, u) : v[t] <= w[t]
    <3>1. ASSUME NEW t \in GridStates PROVE v[t] <= w[t]
      <4>1. v[t] \in Nat /\ w[t] \in Nat
        BY <1>1
      <4>2. QED
        BY <1>1, <1>10, <4>1
    <3>2. QED
      BY <1>3, <1>7, <1>10, <3>1
  <2>2. V <= W /\ W \in Nat /\ V \in Nat /\ Word \in Nat
    BY <1>2, <1>4, <1>7, <1>10, <2>1, RawAssumption
  <2>3. V < Word
    BY <1>10, <2>2
  <2>4. CostIn(v, a, u) = V \div ProbBase /\ CostIn(w, a, u) = W \div ProbBase
    BY <1>6, <1>7, <1>10, <2>3
  <2>5. ProbBase \in Nat \ {0}
    BY RawAssumption
  <2>6. V \div ProbBase <= W \div ProbBase
    BY <2>2, <2>5, DivMonotone
  <2>7. QED
    BY <2>4, <2>6
<1>11. QED
  BY <1>8, <1>9, <1>10 DEF V, W
\* What CostsSteady says of a table v and a state u.
SteadyIn(v, u) ==
  \A a \in acts :
    CostIn(v, a, u) < Reach =>
      /\ Weighted(v, u[1], Trans[a][u[2]]) < Word
      /\ \A t \in Targets(a, u) : Updatable(t) /\ v[t] >= Reach => v[t] >= BestIn(v, t)[1]

LEMMA RelaxBest ==
  ASSUME NEW v \in [GridStates -> 0 .. TopCost], NEW s \in GridStates, Updatable(s),
         NEW w \in [GridStates -> Nat], w[s] = BestIn(v, s)[1],
         \A t \in GridStates : t # s => w[t] = v[t],
         NEW u \in GridStates, acts \subseteq Actions,
         SteadyIn(v, u), SteadyIn(w, u),
         v[s] < Reach => v[s] >= w[s]
  PROVE  /\ BestIn(v, u)[1] < Reach => BestIn(w, u)[1] <= BestIn(v, u)[1]
         /\ BestIn(w, u)[1] < Reach =>
              \/ BestIn(w, u) = BestIn(v, u)
              \/ s \in Targets(BestIn(w, u)[2], u) /\ w[s] < v[s]
<1>1. TopCost \in Nat /\ Reach \in Nat /\ Reach < TopCost
  BY RawAssumption
<1>2. v \in [GridStates -> Nat] /\ v[s] \in Nat
  BY <1>1
<1>3. w[s] \in 0 .. TopCost
  BY <1>2, BestInFacts
<1>4. w \in [GridStates -> Nat]
  OBVIOUS
<1>5. ASSUME NEW a \in acts
      PROVE  /\ CostIn(v, a, u) \in Nat /\ CostIn(w, a, u) \in Nat
             /\ s \notin Targets(a, u) => CostIn(w, a, u) = CostIn(v, a, u)
             /\ CostIn(v, a, u) < TopCost /\ Weighted(v, u[1], Trans[a][u[2]]) < Word /\ w[s] <= v[s] =>
                  CostIn(w, a, u) <= CostIn(v, a, u)
             /\ CostIn(w, a, u) < TopCost /\ Weighted(w, u[1], Trans[a][u[2]]) < Word /\ v[s] <= w[s] =>
                  CostIn(v, a, u) <= CostIn(w, a, u)
  <2>1. a \in Actions /\ w[s] \in Nat
    BY <1>3
  <2>2. CostIn(v, a, u) \in Nat /\ CostIn(w, a, u) \in Nat
    BY <1>2, <1>4, <2>1, CostFacts
  <2>3. QED
    BY <1>2, <1>4, <2>1, <2>2, CostChange
<1>6. ASSUME NEW a \in acts, CostIn(v, a, u) < Reach
      PROVE  /\ CostIn(w, a, u) <= CostIn(v, a, u)
             /\ s \in Targets(a, u) => w[s] <= v[s]
  <2>1. s \in Targets(a, u) => w[s] <= v[s]
    <3>1. CASE v[s] < Reach
      BY <1>2, <1>3, <3>1
    <3>2. CASE v[s] >= Reach
      BY <1>6, <3>2 DEF SteadyIn
    <3>3. QED
      BY <1>1, <1>2, <3>1, <3>2
  <2>2. Weighted(v, u[1], Trans[a][u[2]]) < Word
    BY <1>6 DEF SteadyIn
  <2>3. CostIn(v, a, u) < TopCost /\ CostIn(v, a, u) \in Nat
    BY <1>1, <1>5, <1>6
  <2>4. CASE s \in Targets(a, u)
    BY <1>5, <2>1, <2>2, <2>3, <2>4
  <2>5. CASE s \notin Targets(a, u)
    <3>1. CostIn(w, a, u) = CostIn(v, a, u)
      BY <1>5, <2>5
    <3>2. QED
      BY <2>3, <2>5, <3>1
  <2>6. QED
    BY <2>1, <2>4, <2>5
<1>7. /\ BestIn(v, u)[1] \in 0 .. TopCost /\ BestIn(w, u)[1] \in 0 .. TopCost
      /\ BestIn(v, u)[1] < TopCost =>
           BestIn(v, u)[2] \in acts /\ BestIn(v, u)[1] = CostIn(v, BestIn(v, u)[2], u)
      /\ BestIn(w, u)[1] < TopCost =>
           BestIn(w, u)[2] \in acts /\ BestIn(w, u)[1] = CostIn(w, BestIn(w, u)[2], u)
      /\ BestIn(w, u) = <<BestIn(w, u)[1], BestIn(w, u)[2]>>
      /\ \A a \in acts : \/ BestIn(w, u)[1] < CostIn(w, a, u)
                         \/ BestIn(w, u)[1] = CostIn(w, a, u) /\ BestIn(w, u)[2] <= a
      /\ \A a \in acts :
           /\ CostIn(v, a, u) < TopCost
           /\ \A b \in acts : \/ CostIn(v, a, u) < CostIn(v, b, u)
                              \/ CostIn(v, a, u) = CostIn(v, b, u) /\ a <= b
           => BestIn(v, u) = <<CostIn(v, a, u), a>>
  BY <1>2, <1>4, BestInFacts
<1>8. ASSUME BestIn(v, u)[1] < Reach PROVE BestIn(w, u)[1] <= BestIn(v, u)[1]
  <2> DEFINE a == BestIn(v, u)[2]
  <2>1. a \in acts /\ BestIn(v, u)[1] = CostIn(v, a, u)
    BY <1>1, <1>7, <1>8
  <2>2. CostIn(w, a, u) <= CostIn(v, a, u) /\ CostIn(w, a, u) \in Nat /\ CostIn(v, a, u) \in Nat
    BY <1>5, <1>6, <1>8, <2>1
  <2>3. BestIn(w, u)[1] <= CostIn(w, a, u)
    <3>1. BestIn(w, u)[1] < CostIn(w, a, u) \/ BestIn(w, u)[1] = CostIn(w, a, u)
      BY <1>7, <2>1
    <3>2. QED
      BY <1>1, <1>7, <2>2, <3>1
  <2>4. QED
    BY <1>7, <2>1, <2>2, <2>3
<1>9. ASSUME BestIn(w, u)[1] < Reach,
             ~(s \in Targets(BestIn(w, u)[2], u) /\ w[s] < v[s])
      PROVE  BestIn(w, u) = BestIn(v, u)
  <2> DEFINE a == BestIn(w, u)[2]
  <2>1. a \in acts /\ BestIn(w, u)[1] = CostIn(w, a, u) /\ CostIn(w, a, u) < Reach
    BY <1>1, <1>7, <1>9
  <2>2. CASE w[s] = v[s]
    <3>1. w = v
      <4>1. \A t \in GridStates : w[t] = v[t]
        BY <2>2
      <4>2. QED
        BY <1>2, <1>4, <4>1
    <3>2. QED
      BY <3>1
  <2>3. CASE w[s] # v[s]
    <3>1. s \notin Targets(a, u)
      <4>1. SUFFICES ASSUME s \in Targets(a, u) PROVE FALSE
        OBVIOUS
      <4>2. w[s] > v[s]
        BY <1>2, <1>3, <1>9, <2>3, <4>1
      <4>3. Weighted(w, u[1], Trans[a][u[2]]) < Word
        BY <2>1 DEF SteadyIn
      <4>10. CostIn(w, a, u) \in Nat /\ CostIn(v, a, u) \in Nat
        BY <1>5, <2>1
      <4>4. CostIn(w, a, u) < TopCost /\ CostIn(w, a, u) \in Nat /\ CostIn(v, a, u) \in Nat
        BY <1>1, <2>1, <4>10
      <4>5. v[s] <= w[s]
        BY <1>2, <1>3, <4>2
      <4>6. CostIn(v, a, u) <= CostIn(w, a, u)
        BY <1>5, <2>1, <4>3, <4>4, <4>5
      <4>7. CostIn(v, a, u) < Reach
        BY <1>1, <2>1, <4>4, <4>6
      <4>8. w[s] <= v[s]
        BY <1>6, <2>1, <4>1, <4>7
      <4>9. QED
        BY <1>2, <1>3, <4>2, <4>8
    <3>2. CostIn(v, a, u) = CostIn(w, a, u) /\ CostIn(v, a, u) < TopCost
      <4>1. CostIn(v, a, u) = CostIn(w, a, u) /\ CostIn(v, a, u) \in Nat
        BY <1>5, <2>1, <3>1
      <4>2. QED
        BY <1>1, <2>1, <4>1
    <3>3. ASSUME NEW b \in acts
          PROVE  \/ CostIn(v, a, u) < CostIn(v, b, u)
                 \/ CostIn(v, a, u) = CostIn(v, b, u) /\ a <= b
      <4>1. /\ CostIn(v, a, u) \in Nat /\ CostIn(v, b, u) \in Nat /\ CostIn(w, b, u) \in Nat
            /\ CostIn(w, a, u) \in Nat
        BY <1>5, <2>1
      <4>2. CASE CostIn(v, b, u) >= Reach
        BY <1>1, <2>1, <3>2, <4>1, <4>2
      <4>3. CASE CostIn(v, b, u) < Reach
        <5>1. CostIn(w, b, u) <= CostIn(v, b, u)
          BY <1>6, <4>3
        <5>2. CostIn(w, a, u) < CostIn(w, b, u) \/ (CostIn(w, a, u) = CostIn(w, b, u) /\ a <= b)
          BY <1>7, <2>1
        <5>3. QED
          BY <3>2, <4>1, <5>1, <5>2
      <4>4. QED
        BY <1>1, <4>1, <4>2, <4>3
    <3>4. BestIn(v, u) = <<CostIn(v, a, u), a>>
      BY <1>7, <2>1, <3>2, <3>3
    <3>5. BestIn(w, u) = <<CostIn(w, a, u), a>>
      BY <1>7, <2>1
    <3>6. QED
      BY <3>2, <3>4, <3>5
  <2>4. QED
    BY <2>2, <2>3
<1>10. QED
  BY <1>8, <1>9
-----------------------------------------------------------------------------
(* The heap and the loop over the predecessors. *)

LEMMA BagFacts ==
  ASSUME NEW h, IsABag(h), NEW p
  PROVE  /\ IsABag(h (+) SetToBag({p}))
         /\ BagToSet(h (+) SetToBag({p})) = BagToSet(h) \union {p}
         /\ IsABag(h (-) SetToBag({p}))
         /\ BagToSet(h (-) SetToBag({p})) \subseteq BagToSet(h)
         /\ BagToSet(h) \subseteq BagToSet(h (-) SetToBag({p})) \union {p}
<1> DEFINE e == SetToBag({p})
<1>1. DOMAIN e = {p} /\ e[p] = 1
  BY DEF SetToBag
<1>2. \A x \in DOMAIN h : h[x] \in Nat /\ h[x] > 0
  BY DEF IsABag
<1> HIDE DEF e
<1>3. /\ DOMAIN (h (+) e) = DOMAIN h \union {p}
      /\ \A x \in DOMAIN h \union {p} : (h (+) e)[x] \in Nat /\ (h (+) e)[x] > 0
  BY <1>1, <1>2 DEF (+)
<1>4. h (+) e = [x \in DOMAIN (h (+) e) |-> (h (+) e)[x]]
  BY DEF (+)
<1> DEFINE g == [x \in DOMAIN h |-> IF x \in DOMAIN e THEN h[x] - e[x] ELSE h[x]]
           D == {x \in DOMAIN h : g[x] > 0}
<1>5. h (-) e = [x \in D |-> g[x]]
  BY DEF (-)
<1>6. D \subseteq DOMAIN h /\ \A x \in DOMAIN h : x # p => x \in D
  BY <1>1, <1>2
<1>7. \A x \in D : g[x] \in Nat /\ g[x] > 0
  BY <1>1, <1>2
<1>8. IsABag(h (-) e) /\ BagToSet(h (-) e) = D
  BY <1>5, <1>7 DEF IsABag, BagToSet
<1>9. IsABag(h (+) e) /\ BagToSet(h (+) e) = DOMAIN h \union {p}
  BY <1>3, <1>4 DEF IsABag, BagToSet
<1>10. BagToSet(h) = DOMAIN h
  BY DEF BagToSet
<1>11. QED
  BY <1>6, <1>8, <1>9, <1>10 DEF e

\* build_rev_theta finds every state that an action can take into s.
LEMMA SourcesFound ==
  ASSUME NEW s \in GridStates, NEW u \in GridStates, NEW a \in acts, acts \subseteq Actions,
         s \in Targets(a, u)
  PROVE  u \in Predecessors(s)
<1>1. PICK i \in DOMAIN Trans[a][u[2]] : s = Target(u[1], Trans[a][u[2]][i])
  BY DEF Targets, Outcomes
<1> DEFINE tr == Trans[a][u[2]][i]
           e == <<tr.dix, tr.diy, u[2]>>
<1>2. /\ u[2] \in 0 .. NTheta - 1 /\ u = <<<<u[1][1], u[1][2]>>, u[2]>>
      /\ u[1][1] \in Int /\ u[1][2] \in Int
  <2>1. NX \in Nat /\ NY \in Nat
    BY GeomAssumption
  <2>2. QED
    BY <2>1 DEF GridStates, GridCols
<1>3. tr \in AllTrans
  <2>1. <<a, u[2]>> \in Actions \X (0 .. NTheta - 1)
    BY <1>2
  <2>2. QED
    BY <2>1 DEF AllTrans
<1>4. tr.dix \in Int /\ tr.diy \in Int
  <2> DEFINE R == [dix : Int, diy : Int, dit : Int, prob : Nat]
             trs == Trans[a][u[2]]
  <2>1. trs \in Seq(R)
    BY <1>2, GeomAssumption
  <2>2. trs[i] \in R
    <3> HIDE DEF R
    <3>1. i \in DOMAIN trs
      OBVIOUS
    <3> HIDE DEF trs
    <3>2. QED
      BY <2>1, <3>1
  <2>3. QED
    BY <2>2
<1>5. s[1] = <<u[1][1] + tr.dix, u[1][2] + tr.diy>> /\ s[2] = (tr.dit + NTheta) % NTheta
  BY <1>1 DEF Target
<1>6. e \in RevTheta(s[2])
  <2>1. e \in {<<x.dix, x.diy, y>> : x \in AllTrans, y \in 0 .. NTheta - 1}
    BY <1>2, <1>3
  <2>2. i \in DOMAIN Trans[a][e[3]] /\ Trans[a][e[3]][i] = tr
    OBVIOUS
  <2>3. tr.dix = e[1] /\ tr.diy = e[2] /\ (tr.dit + NTheta) % NTheta = s[2]
    BY <1>5
  <2>5. e[3] = u[2]
    OBVIOUS
  <2> HIDE DEF tr, e
  <2>4. QED
    BY <2>1, <2>2, <2>3 DEF RevTheta
<1>7. From(s, e) = u
  <2>1. From(s, e) = <<<<s[1][1] - tr.dix, s[1][2] - tr.diy>>, u[2]>>
    BY DEF From
  <2>2. s[1][1] - tr.dix = u[1][1] /\ s[1][2] - tr.diy = u[1][2]
    <3>1. s[1][1] = u[1][1] + tr.dix /\ s[1][2] = u[1][2] + tr.diy
      BY <1>5
    <3>2. \A x, y \in Int : (x + y) - y = x
      OBVIOUS
    <3> HIDE DEF tr
    <3>3. QED
      BY <1>2, <1>4, <3>1, <3>2
  <2>3. QED
    BY <1>2, <2>1, <2>2
<1>8. QED
  BY <1>6, <1>7 DEF Predecessors
-----------------------------------------------------------------------------
(* The invariant. *)

LEMMA NowFacts ==
  /\ \A a, s : RawCost(a, s) = CostIn(value, a, s)
  /\ \A s : BestRaw(s) = BestIn(value, s)
<1>1. \A a, s : RawCost(a, s) = CostIn(value, a, s)
  BY DEF RawCost, CostIn
<1>2. ASSUME NEW s PROVE BestRaw(s) = BestIn(value, s)
  <2>1. {<<RawCost(a, s), a>> : a \in acts} = {<<CostIn(value, a, s), a>> : a \in acts}
    BY <1>1
  <2>2. QED
    BY <2>1 DEF BestRaw, BestIn
<1>3. QED
  BY <1>1, <1>2

LEMMA NextFacts ==
  ASSUME UNCHANGED maze
  PROVE  /\ \A a, s : RawCost(a, s)' = CostIn(value', a, s)
         /\ \A s : BestRaw(s)' = BestIn(value', s)
         /\ \A s : Updatable(s)' <=> Updatable(s)
<1>1. free' = free /\ goal' = goal /\ acts' = acts
  BY DEF maze
<1>2. ASSUME NEW a, NEW s PROVE RawCost(a, s)' = CostIn(value', a, s)
  BY <1>1 DEF RawCost, CostIn
<1>3. ASSUME NEW s PROVE BestRaw(s)' = BestIn(value', s)
  <2>1. {<<RawCost(a, s)', a>> : a \in acts} = {<<CostIn(value', a, s), a>> : a \in acts}
    BY <1>2
  <2>2. BestRaw(s)' = Best({<<RawCost(a, s)', a>> : a \in acts})
    BY <1>1 DEF BestRaw
  <2>3. QED
    BY <2>1, <2>2 DEF BestIn
<1>4. \A s : Updatable(s)' <=> Updatable(s)
  BY <1>1 DEF Updatable
<1>5. QED
  BY <1>2, <1>3, <1>4

LEMMA SteadyNow ==
  ASSUME CostsSteady, NEW u \in GridStates, Updatable(u)
  PROVE  SteadyIn(value, u)
<1>1. \A a, s : RawCost(a, s) = CostIn(value, a, s)
  BY NowFacts
<1>2. \A s : BestRaw(s) = BestIn(value, s)
  BY NowFacts
<1>3. QED
  BY <1>1, <1>2 DEF CostsSteady, SteadyIn

LEMMA SteadyNext ==
  ASSUME CostsSteady', UNCHANGED maze, NEW u \in GridStates, Updatable(u)
  PROVE  SteadyIn(value', u)
<1>1. \A a, s : RawCost(a, s)' = CostIn(value', a, s)
  BY NextFacts
<1>2. \A s : BestRaw(s)' = BestIn(value', s)
  BY NextFacts
<1>3. \A s : Updatable(s)' <=> Updatable(s)
  BY NextFacts
<1>4. acts' = acts
  BY DEF maze
<1>5. QED
  BY <1>1, <1>2, <1>3, <1>4 DEF CostsSteady, SteadyIn

LEMMA TableFacts ==
  ASSUME TypeOK
  PROVE  /\ free \subseteq GridCols /\ goal \subseteq GridStates /\ acts \subseteq Actions
         /\ value \in [GridStates -> 0 .. TopCost] /\ value \in [GridStates -> Nat]
         /\ act \in [GridStates -> Actions \union {NoAction}]
         /\ TopCost \in Nat /\ Reach \in Nat /\ Reach < TopCost
<1>1. /\ [free |-> free, goal |-> goal, acts |-> acts] \in Mazes
      /\ value \in [GridStates -> 0 .. TopCost] /\ act \in [GridStates -> Actions \union {NoAction}]
  BY DEF TypeOK, TableTypeOK, Maze
<1>2. /\ TopCost \in Nat /\ Reach \in Nat /\ Reach < TopCost
      /\ Mazes \subseteq [free : SUBSET GridCols, goal : SUBSET GridStates, acts : SUBSET Actions]
  BY RawAssumption
<1>3. free \subseteq GridCols /\ goal \subseteq GridStates /\ acts \subseteq Actions
  <2> DEFINE m == [free |-> free, goal |-> goal, acts |-> acts]
  <2>1. m.free \in SUBSET GridCols /\ m.goal \in SUBSET GridStates /\ m.acts \in SUBSET Actions
    BY <1>1, <1>2
  <2>2. QED
    BY <2>1
<1>4. value \in [GridStates -> Nat]
  BY <1>1, <1>2
<1>5. QED
  BY <1>1, <1>2, <1>3, <1>4

LEMMA InitIInv == Init /\ CostsSteady => IInv
<1> SUFFICES ASSUME Init, CostsSteady PROVE IInv
  OBVIOUS
<1>1. PICK m \in Mazes : free = m.free /\ goal = m.goal /\ acts = m.acts
  BY DEF Init, TableInit
<1>2. /\ m \in [free : SUBSET GridCols, goal : SUBSET GridStates, acts : SUBSET Actions]
      /\ TopCost \in Nat /\ Reach \in Nat /\ Reach < TopCost
  BY RawAssumption
<1>3. value = [s \in GridStates |-> IF s \in goal THEN 0 ELSE TopCost]
  BY DEF Init, TableInit, Cleared
<1> DEFINE S == {<<value[s], s>> : s \in {q \in GridStates : value[q] < TopCost}}
<1>4. heap = [e \in S |-> 1]
  BY DEF Init, SetToBag
<1>5. TypeOK
  <2>1. Maze \in Mazes
    <3>1. m = [free |-> m.free, goal |-> m.goal, acts |-> m.acts]
      BY <1>2
    <3>2. QED
      BY <1>1, <3>1 DEF Maze
  <2>2. value \in [GridStates -> 0 .. TopCost]
    BY <1>2, <1>3
  <2>3. act \in [GridStates -> Actions \union {NoAction}]
    BY DEF Init, TableInit
  <2>4. BagToSet(heap) \subseteq (0 .. TopCost) \X GridStates
    BY <1>4, <2>2 DEF BagToSet
  <2>5. IsABag(heap)
    BY <1>4 DEF IsABag
  <2>6. QED
    BY <2>1, <2>2, <2>3, <2>4, <2>5 DEF TypeOK, TableTypeOK, Init
<1>6. NeverRaised
  BY <1>2, <1>3 DEF NeverRaised, Updatable
<1>7. ASSUME NEW s \in GridStates, Updatable(s), BestRaw(s)[1] < Reach
      PROVE  \E p \in BagToSet(heap) :
               p[1] = value[p[2]] /\ p[2] \in Targets(BestRaw(s)[2], s)
  <2> DEFINE a == BestIn(value, s)[2]
  <2>1. BestRaw(s) = BestIn(value, s)
    BY NowFacts
  <2>2. acts \subseteq Actions /\ value \in [GridStates -> Nat] /\ value \in [GridStates -> 0 .. TopCost]
    BY <1>5, TableFacts
  <2>3. BestIn(value, s)[1] \in 0 .. TopCost
    BY <2>2, BestInFacts
  <2>4. a \in acts /\ BestIn(value, s)[1] = CostIn(value, a, s)
    <3>1. BestIn(value, s)[1] < TopCost
      BY <1>2, <1>7, <2>1, <2>3
    <3>2. QED
      BY <2>2, <3>1, BestInFacts
  <2> HIDE DEF a
  <2>5. RawCost(a, s) = CostIn(value, a, s)
    BY NowFacts
  <2>6. PICK t \in Targets(a, s) : value[t] < TopCost
    BY <1>7, <2>1, <2>4, <2>5 DEF CostsSteady
  <2>7. t \in GridStates
    <3>1. PICK tr \in Outcomes(a, s) : t = Target(s[1], tr)
      BY DEF Targets
    <3>2. Open(free, a, s)
      <4>1. CostIn(value, a, s) < TopCost
        BY <1>2, <1>7, <2>1, <2>3, <2>4
      <4>2. QED
        BY <2>2, <2>4, <4>1, CostFacts
    <3>3. QED
      BY <2>2, <2>4, <3>1, <3>2, TargetFacts DEF Open
  <2>8. <<value[t], t>> \in BagToSet(heap)
    BY <1>4, <2>6, <2>7 DEF BagToSet
  <2>9. QED
    BY <2>1, <2>6, <2>8 DEF a
<1>8. outcome = "running"
  BY DEF Init
<1>9. QED
  BY <1>5, <1>6, <1>7, <1>8 DEF IInv, Covered, FixedAtEnd

\* A step that leaves the table alone.
LEMMA TableStays ==
  ASSUME UNCHANGED <<table, maze>>
  PROVE  /\ \A s : BestRaw(s)' = BestRaw(s)
         /\ \A s : Updatable(s)' <=> Updatable(s)
         /\ \A s : BackedUp(s)' <=> BackedUp(s)
         /\ NeverRaised => NeverRaised'
<1>1. value' = value /\ act' = act /\ UNCHANGED maze
  BY DEF table
<1>2. \A s : BestRaw(s)' = BestRaw(s)
  BY <1>1, NowFacts, NextFacts
<1>3. \A s : Updatable(s)' <=> Updatable(s)
  BY <1>1, NextFacts
<1>4. QED
  BY <1>1, <1>2, <1>3 DEF BackedUp, NeverRaised

LEMMA PredecessorsType == \A s : Predecessors(s) \subseteq GridStates
  BY DEF Predecessors

LEMMA PopKeeps ==
  ASSUME IInv, NEW p \in BagToSet(heap), Cut(p) \/ Discard(p) \/ Settle(p)
  PROVE  IInv'
<1>1. /\ outcome = "running" /\ todo = {}
      /\ heap' = heap (-) SetToBag({p})
      /\ UNCHANGED <<table, maze>> /\ UNCHANGED <<setting, maxIter>>
      /\ pops' = pops + 1
  BY DEF Cut, Discard, Settle, Remove
<1>2. TypeOK /\ NeverRaised /\ Covered /\ FixedAtEnd
  BY DEF IInv
<1>3. IsABag(heap) /\ BagToSet(heap) \subseteq (0 .. TopCost) \X GridStates
  BY <1>2 DEF TypeOK
<1>4. /\ IsABag(heap') /\ BagToSet(heap') \subseteq BagToSet(heap)
      /\ BagToSet(heap) \subseteq BagToSet(heap') \union {p}
  BY <1>1, <1>3, BagFacts
<1>5. p[2] \in GridStates
  BY <1>3
<1>6. TypeOK'
  <2>1. TableTypeOK'
    BY <1>1, <1>2 DEF TypeOK, TableTypeOK, Maze, table, maze
  <2>2. IsABag(heap)' /\ BagToSet(heap)' \subseteq (0 .. TopCost) \X GridStates
    <3>1. BagToSet(heap)' = BagToSet(heap')
      BY DEF BagToSet
    <3>2. IsABag(heap)' = IsABag(heap')
      BY DEF IsABag
    <3>3. QED
      BY <1>3, <1>4, <3>1, <3>2
  <2>3. popped' \subseteq GridStates /\ todo' \subseteq GridStates
    BY <1>2, <1>5, PredecessorsType DEF TypeOK, Cut, Discard, Settle
  <2>4. pops' \in Nat /\ repops' \in Nat
    BY <1>1, <1>2 DEF TypeOK, Cut, Discard, Settle
  <2>5. outcome' \in {"running", "converged", "cut"}
    BY <1>2 DEF TypeOK, Cut, Discard, Settle
  <2>6. setting' \in LabelSetting /\ maxIter' \in MaxIters
    BY <1>1, <1>2 DEF TypeOK
  <2>7. QED
    BY <2>1, <2>2, <2>3, <2>4, <2>5, <2>6 DEF TypeOK
<1>7. NeverRaised'
  BY <1>1, <1>2, TableStays
<1>8. outcome' \in {"running", "cut"}
  BY <1>1 DEF Cut, Discard, Settle
<1>9. Covered'
  <2> SUFFICES ASSUME ~setting', outcome' = "running",
                      NEW s \in GridStates, Updatable(s)', BestRaw(s)'[1] < Reach
               PROVE  \/ BackedUp(s)'
                      \/ s \in todo'
                      \/ \E q \in BagToSet(heap') :
                           q[1] = value'[q[2]] /\ q[2] \in Targets(BestRaw(s)'[2], s)
    <3>1. BagToSet(heap)' = BagToSet(heap')
      BY DEF BagToSet
    <3>2. QED
      BY <3>1 DEF Covered
  <2>1. /\ BestRaw(s)' = BestRaw(s) /\ (Updatable(s)' <=> Updatable(s))
        /\ (BackedUp(s)' <=> BackedUp(s)) /\ value' = value
    BY <1>1, TableStays DEF table
  <2>2. CASE BackedUp(s)
    BY <2>1, <2>2
  <2>3. CASE ~BackedUp(s)
    <3>1. ~setting
      BY <1>1
    <3>2. PICK q \in BagToSet(heap) : q[1] = value[q[2]] /\ q[2] \in Targets(BestRaw(s)[2], s)
      BY <1>1, <1>2, <2>1, <2>3, <3>1 DEF Covered
    <3>3. CASE q \in BagToSet(heap')
      BY <2>1, <3>2, <3>3
    <3>4. CASE q = p
      <4>1. ~Stale(p) /\ outcome' # "cut"
        BY <3>1, <3>2, <3>4 DEF Stale
      <4>2. todo' = Predecessors(p[2])
        BY <4>1 DEF Cut, Discard, Settle
      <4>3. BestRaw(s)[2] \in acts
        <5>1. BestRaw(s) = BestIn(value, s)
          BY NowFacts
        <5>2. /\ acts \subseteq Actions /\ value \in [GridStates -> Nat]
              /\ Reach \in Nat /\ TopCost \in Nat /\ Reach < TopCost
          BY <1>2, TableFacts
        <5>3. BestIn(value, s)[1] \in 0 .. TopCost
          BY <5>2, BestInFacts
        <5>4. BestIn(value, s)[1] < TopCost
          BY <2>1, <5>1, <5>2, <5>3
        <5>5. QED
          BY <5>1, <5>2, <5>4, BestInFacts
      <4>4. acts \subseteq Actions
        BY <1>2, TableFacts
      <4>5. s \in Predecessors(p[2])
        BY <1>5, <3>2, <3>4, <4>3, <4>4, SourcesFound
      <4>6. QED
        BY <4>2, <4>5
    <3>5. QED
      BY <1>4, <3>2, <3>3, <3>4
  <2>4. QED
    BY <2>2, <2>3
<1>10. FixedAtEnd'
  BY <1>8 DEF FixedAtEnd
<1>11. QED
  BY <1>6, <1>7, <1>9, <1>10 DEF IInv
\* A state that may not be updated is dropped from the loop.
LEMMA SkipKeeps ==
  ASSUME IInv, NEW s \in todo, Relax(s), Skips(s)
  PROVE  IInv'
<1>1. /\ outcome = "running" /\ outcome' = outcome /\ heap' = heap /\ todo' = todo \ {s}
      /\ UNCHANGED <<table, maze>> /\ UNCHANGED <<setting, maxIter, popped, pops, repops>>
  BY DEF Relax
<1>2. TypeOK /\ NeverRaised /\ Covered
  BY DEF IInv
<1>3. TypeOK'
  BY <1>1, <1>2 DEF TypeOK, TableTypeOK, Maze, table, maze
<1>4. NeverRaised'
  BY <1>1, <1>2, TableStays
<1>5. Covered'
  <2> SUFFICES ASSUME ~setting, NEW u \in GridStates, Updatable(u)', BestRaw(u)'[1] < Reach
               PROVE  \/ BackedUp(u)'
                      \/ u \in todo'
                      \/ \E q \in BagToSet(heap) :
                           q[1] = value[q[2]] /\ q[2] \in Targets(BestRaw(u)'[2], u)
    BY <1>1 DEF Covered, table
  <2>1. /\ BestRaw(u)' = BestRaw(u) /\ (Updatable(u)' <=> Updatable(u))
        /\ (BackedUp(u)' <=> BackedUp(u))
    BY <1>1, TableStays
  <2>2. u # s
    BY <2>1 DEF Skips
  <2>3. \/ BackedUp(u)
        \/ u \in todo
        \/ \E q \in BagToSet(heap) :
             q[1] = value[q[2]] /\ q[2] \in Targets(BestRaw(u)[2], u)
    BY <1>1, <1>2, <2>1 DEF Covered
  <2>4. QED
    BY <1>1, <2>1, <2>2, <2>3
<1>6. FixedAtEnd'
  BY <1>1 DEF FixedAtEnd
<1>7. QED
  BY <1>3, <1>4, <1>5, <1>6 DEF IInv

\* A relaxation: the states it could disturb are those whose best action can
\* move into the relaxed one, and then its new label is in the heap.
LEMMA RelaxKeeps ==
  ASSUME IInv, CostsSteady, CostsSteady', NEW s \in todo, Relax(s), ~Skips(s)
  PROVE  IInv'
<1> DEFINE c == BestIn(value, s)[1]
<1>1. /\ outcome = "running" /\ outcome' = outcome /\ todo' = todo \ {s}
      /\ value' = [value EXCEPT ![s] = BestRaw(s)[1]]
      /\ act' = [act EXCEPT ![s] = BestRaw(s)[2]]
      /\ heap' = Push(s, BestRaw(s)[1])
      /\ UNCHANGED maze /\ UNCHANGED <<setting, maxIter, popped, pops, repops>>
  BY DEF Relax
<1>2. TypeOK /\ NeverRaised /\ Covered
  BY DEF IInv
<1>3. s \in GridStates /\ Updatable(s)
  BY <1>2 DEF TypeOK, Skips
<1>4. /\ acts \subseteq Actions /\ value \in [GridStates -> 0 .. TopCost]
      /\ value \in [GridStates -> Nat] /\ act \in [GridStates -> Actions \union {NoAction}]
      /\ TopCost \in Nat /\ Reach \in Nat /\ Reach < TopCost
  BY <1>2, TableFacts
<1>5. BestRaw(s) = BestIn(value, s)
  BY NowFacts
<1>6. c \in 0 .. TopCost /\ BestIn(value, s)[2] \in acts \union {NoAction}
      /\ BestIn(value, s) = <<c, BestIn(value, s)[2]>>
  BY <1>3, <1>4, BestInFacts
<1>7. /\ value' \in [GridStates -> 0 .. TopCost] /\ value' \in [GridStates -> Nat]
      /\ value'[s] = c /\ \A t \in GridStates : t # s => value'[t] = value[t]
      /\ act' \in [GridStates -> Actions \union {NoAction}]
      /\ act'[s] = BestRaw(s)[2] /\ \A t \in GridStates : t # s => act'[t] = act[t]
  <2> HIDE DEF c
  <2>1. value' = [value EXCEPT ![s] = c]
    BY <1>1, <1>5 DEF c
  <2>2. BestRaw(s)[2] \in Actions \union {NoAction}
    BY <1>4, <1>5, <1>6
  <2>3. act' \in [GridStates -> Actions \union {NoAction}]
    BY <1>1, <1>4, <2>2
  <2>4. value' \in [GridStates -> 0 .. TopCost]
    BY <1>4, <1>6, <2>1
  <2>5. value' \in [GridStates -> Nat]
    BY <1>4, <2>4
  <2>6. QED
    BY <1>1, <1>3, <1>4, <2>1, <2>3, <2>4, <2>5
<1>8. heap' = IF c < value[s] THEN heap (+) SetToBag({<<c, s>>}) ELSE heap
  BY <1>1, <1>5 DEF Push
<1>9. /\ IsABag(heap') /\ BagToSet(heap) \subseteq BagToSet(heap')
      /\ BagToSet(heap') \subseteq BagToSet(heap) \union {<<c, s>>}
      /\ c < value[s] => <<c, s>> \in BagToSet(heap')
  <2> HIDE DEF c
  <2>1. IsABag(heap)
    BY <1>2 DEF TypeOK
  <2>2. CASE c < value[s]
    <3>1. heap' = heap (+) SetToBag({<<c, s>>})
      BY <1>8, <2>2
    <3>2. IsABag(heap') /\ BagToSet(heap') = BagToSet(heap) \union {<<c, s>>}
      BY <2>1, <3>1, BagFacts
    <3>3. QED
      BY <3>2
  <2>3. CASE ~(c < value[s])
    BY <1>8, <2>1, <2>3
  <2>4. QED
    BY <2>2, <2>3
<1>10. BagToSet(heap)' = BagToSet(heap') /\ IsABag(heap)' = IsABag(heap')
  BY DEF BagToSet, IsABag
<1>11. value[s] < Reach => value[s] >= c
  BY <1>2, <1>3, <1>5 DEF NeverRaised
<1>12. ASSUME NEW u \in GridStates, Updatable(u)
       PROVE  /\ BestIn(value, u)[1] < Reach =>
                   BestIn(value', u)[1] <= BestIn(value, u)[1]
              /\ BestIn(value', u)[1] < Reach =>
                   \/ BestIn(value', u) = BestIn(value, u)
                   \/ s \in Targets(BestIn(value', u)[2], u) /\ value'[s] < value[s]
  <2>1. SteadyIn(value, u) /\ SteadyIn(value', u)
    BY <1>1, <1>12, SteadyNow, SteadyNext
  <2>2. value[s] < Reach => value[s] >= value'[s]
    BY <1>7, <1>11
  <2>3. QED
    BY <1>3, <1>4, <1>7, <1>12, <2>1, <2>2, RelaxBest
<1>13. /\ \A u : BestRaw(u)' = BestIn(value', u)
       /\ \A u : BestRaw(u) = BestIn(value, u)
       /\ \A u : Updatable(u)' <=> Updatable(u)
  BY <1>1, NowFacts, NextFacts
<1> HIDE DEF c
<1>14. TypeOK'
  <2>1. TableTypeOK'
    BY <1>1, <1>2, <1>7 DEF TypeOK, TableTypeOK, Maze, maze
  <2>2. BagToSet(heap') \subseteq (0 .. TopCost) \X GridStates
    <3>1. BagToSet(heap) \subseteq (0 .. TopCost) \X GridStates
      BY <1>2 DEF TypeOK
    <3>2. <<c, s>> \in (0 .. TopCost) \X GridStates
      BY <1>3, <1>6
    <3>3. QED
      BY <1>9, <3>1, <3>2
  <2>3. QED
    BY <1>1, <1>2, <1>9, <1>10, <2>1, <2>2 DEF TypeOK
<1>15. NeverRaised'
  <2> SUFFICES ASSUME NEW u \in GridStates, Updatable(u), value'[u] < Reach
               PROVE  value'[u] >= BestIn(value', u)[1]
    BY <1>13 DEF NeverRaised
  <2>1. BestIn(value, u)[1] \in 0 .. TopCost /\ BestIn(value', u)[1] \in 0 .. TopCost
    BY <1>4, <1>7, BestInFacts
  <2>2. value'[u] >= BestIn(value, u)[1]
    <3>1. CASE u = s
      BY <1>4, <1>6, <1>7, <3>1 DEF c
    <3>2. CASE u # s
      BY <1>2, <1>7, <1>13, <3>2 DEF NeverRaised
    <3>3. QED
      BY <3>1, <3>2
  <2>3. value'[u] \in Nat
    BY <1>7
  <2>4. BestIn(value, u)[1] < Reach
    BY <1>4, <2>1, <2>2, <2>3
  <2>5. QED
    BY <1>4, <1>12, <2>1, <2>2, <2>3, <2>4
<1>16. Covered'
  <2> DEFINE a(u) == BestIn(value', u)[2]
  <2> SUFFICES ASSUME ~setting, NEW u \in GridStates, Updatable(u), BestIn(value', u)[1] < Reach
               PROVE  \/ BackedUp(u)'
                      \/ u \in todo'
                      \/ \E q \in BagToSet(heap') :
                           q[1] = value'[q[2]] /\ q[2] \in Targets(a(u), u)
    <3>1. \A t : Targets(BestRaw(t)[2], t)' = Targets(BestRaw(t)'[2], t)
      BY DEF Targets, Outcomes
    <3>2. QED
      BY <1>1, <1>10, <1>13, <3>1 DEF Covered
  <2> HIDE DEF a
  <2>1. ASSUME s \in Targets(a(u), u), c < value[s]
        PROVE  \E q \in BagToSet(heap') : q[1] = value'[q[2]] /\ q[2] \in Targets(a(u), u)
    <3>1. <<c, s>> \in BagToSet(heap')
      BY <1>9, <2>1
    <3>2. QED
      BY <1>7, <2>1, <3>1
  <2>2. CASE s \in Targets(a(u), u) /\ value'[s] < value[s]
    BY <1>7, <2>1, <2>2
  <2>3. CASE BestIn(value', u) = BestIn(value, u)
    <3>1. BestIn(value, u)[1] < Reach /\ a(u) = BestIn(value, u)[2]
      BY <2>3 DEF a
    <3>2. CASE u = s
      <4>1. BackedUp(u)' <=> <<value'[u], act'[u]>> = BestRaw(u)'
        BY DEF BackedUp
      <4>2. <<value'[s], act'[s]>> = BestIn(value, s)
        BY <1>5, <1>6, <1>7
      <4>3. QED
        BY <1>13, <2>3, <3>2, <4>1, <4>2
    <3>3. CASE u # s
      <4>1. CASE BackedUp(u)
        <5>1. <<value'[u], act'[u]>> = BestIn(value', u)
          BY <1>7, <1>13, <2>3, <3>3, <4>1 DEF BackedUp
        <5>2. QED
          BY <1>13, <5>1 DEF BackedUp
      <4>2. CASE u \in todo
        BY <1>1, <3>3, <4>2
      <4>3. CASE \E q \in BagToSet(heap) : q[1] = value[q[2]] /\ q[2] \in Targets(a(u), u)
        <5>1. PICK q \in BagToSet(heap) : q[1] = value[q[2]] /\ q[2] \in Targets(a(u), u)
          BY <4>3
        <5>2. q[2] \in GridStates
          BY <1>2 DEF TypeOK
        <5>3. CASE q[2] # s \/ c = value[s]
          BY <1>7, <1>9, <5>1, <5>2, <5>3
        <5>4. CASE q[2] = s /\ c # value[s]
          <6>1. /\ BestIn(value, u)[2] \in acts
                /\ BestIn(value, u)[1] = CostIn(value, BestIn(value, u)[2], u)
            <7>1. BestIn(value, u)[1] \in 0 .. TopCost
              BY <1>4, BestInFacts
            <7>2. BestIn(value, u)[1] < TopCost
              BY <1>4, <3>1, <7>1
            <7>3. QED
              BY <1>4, <7>2, BestInFacts
          <6>2. SteadyIn(value, u)
            BY SteadyNow
          <6>3. value[s] >= Reach => value[s] >= c
            BY <1>3, <3>1, <5>1, <5>4, <6>1, <6>2 DEF SteadyIn, c
          <6>4. value[s] \in Nat /\ c \in Nat
            BY <1>3, <1>4, <1>6
          <6>5. c < value[s]
            BY <1>4, <1>11, <5>4, <6>3, <6>4
          <6>6. QED
            BY <2>1, <5>1, <5>4, <6>5
        <5>5. QED
          BY <5>3, <5>4
      <4>4. QED
        BY <1>1, <1>2, <1>13, <3>1, <4>1, <4>2, <4>3 DEF Covered
    <3>4. QED
      BY <3>2, <3>3
  <2>4. QED
    BY <1>12, <2>2, <2>3 DEF a
<1>17. FixedAtEnd'
  BY <1>1 DEF FixedAtEnd
<1>18. QED
  BY <1>14, <1>15, <1>16, <1>17 DEF IInv

\* An empty heap: what Covered says of every state is what FixedAtEnd says, as
\* a label below Reach is not below its relaxation.
LEMMA DoneKeeps ==
  ASSUME IInv, Done
  PROVE  IInv'
<1>1. /\ outcome = "running" /\ outcome' = "converged" /\ todo = {} /\ heap = EmptyBag
      /\ UNCHANGED <<table, maze>>
      /\ UNCHANGED <<setting, maxIter, heap, popped, todo, pops, repops>>
  BY DEF Done
<1>2. TypeOK /\ NeverRaised /\ Covered
  BY DEF IInv
<1>3. TypeOK'
  BY <1>1, <1>2 DEF TypeOK, TableTypeOK, Maze, table, maze
<1>4. NeverRaised'
  BY <1>1, <1>2, TableStays
<1>5. Covered'
  BY <1>1 DEF Covered
<1>6. FixedAtEnd'
  <2> SUFFICES ASSUME ~setting, NEW u \in GridStates, Updatable(u)',
                      value'[u] < Reach \/ BestRaw(u)'[1] < Reach
               PROVE  BackedUp(u)'
    BY <1>1 DEF FixedAtEnd
  <2>1. /\ BestRaw(u)' = BestRaw(u) /\ (Updatable(u)' <=> Updatable(u))
        /\ (BackedUp(u)' <=> BackedUp(u)) /\ value' = value
    BY <1>1, TableStays DEF table
  <2>2. /\ value \in [GridStates -> Nat] /\ Reach \in Nat /\ TopCost \in Nat
        /\ acts \subseteq Actions
    BY <1>2, TableFacts
  <2>3. BestRaw(u)[1] \in 0 .. TopCost
    BY <2>2, NowFacts, BestInFacts
  <2>4. BestRaw(u)[1] < Reach
    <3>1. CASE value[u] < Reach
      <4>1. value[u] >= BestRaw(u)[1]
        BY <1>2, <2>1, <3>1 DEF NeverRaised
      <4>2. QED
        BY <2>2, <2>3, <3>1, <4>1
    <3>2. CASE BestRaw(u)'[1] < Reach
      BY <2>1, <3>2
    <3>3. QED
      BY <2>1, <3>1, <3>2
  <2>5. BagToSet(heap) = {}
    BY <1>1 DEF EmptyBag, SetToBag, BagToSet
  <2>6. BackedUp(u)
    BY <1>1, <1>2, <2>1, <2>4, <2>5 DEF Covered
  <2>7. QED
    BY <2>1, <2>6
<1>7. QED
  BY <1>3, <1>4, <1>5, <1>6 DEF IInv
LEMMA NextIInv == IInv /\ CostsSteady /\ CostsSteady' /\ [Next]_vars => IInv'
<1> SUFFICES ASSUME IInv, CostsSteady, CostsSteady', [Next]_vars PROVE IInv'
  OBVIOUS
<1>1. CASE Pop
  BY <1>1, PopKeeps DEF Pop
<1>2. CASE \E s \in todo : Relax(s)
  BY <1>2, SkipKeeps, RelaxKeeps
<1>3. CASE Done
  BY <1>3, DoneKeeps
<1>4. CASE UNCHANGED vars
  <2>1. /\ UNCHANGED <<table, maze>>
        /\ UNCHANGED <<setting, maxIter, heap, popped, todo, pops, repops, outcome>>
    BY <1>4 DEF vars
  <2>2. TypeOK /\ NeverRaised /\ Covered /\ FixedAtEnd
    BY DEF IInv
  <2>3. TypeOK'
    BY <2>1, <2>2 DEF TypeOK, TableTypeOK, Maze, table, maze
  <2>4. \A s : BestRaw(s)' = BestRaw(s) /\ (Updatable(s)' <=> Updatable(s))
               /\ (BackedUp(s)' <=> BackedUp(s))
    BY <2>1, TableStays
  <2>5. NeverRaised'
    BY <2>1, <2>2, TableStays
  <2>6. value' = value
    BY <2>1 DEF table
  <2>7. Covered'
    BY <2>1, <2>2, <2>4, <2>6 DEF Covered
  <2>8. FixedAtEnd'
    BY <2>1, <2>2, <2>4, <2>6 DEF FixedAtEnd
  <2>9. QED
    BY <2>3, <2>5, <2>7, <2>8 DEF IInv
<1>5. QED
  BY <1>1, <1>2, <1>3, <1>4 DEF Next

\* IInv: in every run of prio_lc and prio_ls whose costs are steady, no label
\* below Reach is under its own relaxation, and in prio_lc every state that a
\* relaxation would change is covered by the loop or by a current heap entry.
THEOREM PriorityInvariant == Spec /\ []CostsSteady => []IInv
<1>1. Init /\ CostsSteady => IInv
  BY InitIInv
<1>2. IInv /\ CostsSteady /\ CostsSteady' /\ [Next]_vars => IInv'
  BY NextIInv
<1>3. QED
  BY <1>1, <1>2, PTL DEF Spec

\* Covered: throwing away a heap entry that is not its state's current label
\* loses nothing, so prio_lc needs no decrease-key.
THEOREM LabelsCovered == Spec /\ []CostsSteady => []Covered
<1>1. IInv => Covered
  BY DEF IInv
<1>2. QED
  BY <1>1, PriorityInvariant, PTL

\* FixedAtEnd: when the heap of prio_lc is empty, every label below Reach and its
\* action are what value_iteration_raw would write, and no other label would
\* fall below Reach.
THEOREM LabelCorrectingFixed == Spec /\ []CostsSteady => []FixedAtEnd
<1>1. IInv => FixedAtEnd
  BY DEF IInv
<1>2. QED
  BY <1>1, PriorityInvariant, PTL
-----------------------------------------------------------------------------
(* Indices of states and the orders of the sweeps. *)

\* The sizes of maps.
Sizes == (1 .. NX) \X (1 .. NY)

LEMMA CountFacts ==
  ASSUME NEW z \in Sizes
  PROVE  /\ z[1] \in Nat \ {0} /\ z[2] \in Nat \ {0} /\ NTheta \in Nat \ {0}
         /\ NTheta * z[1] \in Nat \ {0} /\ z[1] * z[2] \in Nat \ {0}
         /\ CellCount(z) \in Nat \ {0}
         /\ CellCount(z) = NTheta * (z[1] * z[2]) /\ CellCount(z) = (NTheta * z[1]) * z[2]
<1>1. NTheta \in Nat \ {0} /\ NX \in Nat /\ NY \in Nat
  BY GeomAssumption
<1>2. z[1] \in Nat \ {0} /\ z[2] \in Nat \ {0}
  BY <1>1 DEF Sizes
<1>3. \A x, y, n \in Nat \ {0} :
        /\ x * y \in Nat \ {0} /\ n * x \in Nat \ {0} /\ n * x * y \in Nat \ {0}
        /\ n * x * y = n * (x * y) /\ n * x * y = (n * x) * y
  <2>1. \A x, y \in Nat \ {0} : x * y \in Nat \ {0}
    OBVIOUS
  <2>2. \A x, y, n \in Nat : n * x * y = n * (x * y)
    OBVIOUS
  <2>3. QED
    BY <2>1, <2>2
<1>4. QED
  BY <1>1, <1>2, <1>3 DEF CellCount

\* A number below m * n is a pair of digits.
LEMMA PairSplit ==
  ASSUME NEW n \in Nat, NEW m \in Nat \ {0}, NEW i \in Nat, i < m * n
  PROVE  i \div m \in 0 .. n - 1 /\ i % m \in 0 .. m - 1 /\ i = m * (i \div m) + (i % m)
<1> DEFINE d == i \div m
<1>1. d \in Nat /\ i % m \in 0 .. m - 1 /\ i = m * d + (i % m)
  BY DivMod
<1>2. d < n
  <2>1. SUFFICES ASSUME n <= d PROVE FALSE
    BY <1>1
  <2> HIDE DEF d
  <2>2. m * n <= m * d
    BY <1>1, <2>1, SMTT(30)
  <2> DEFINE x == m * n
             y == m * d
             r == i % m
  <2>3. x \in Nat /\ y \in Nat /\ r \in Nat /\ x <= y /\ i < x /\ i = y + r
    BY <1>1, <2>2
  <2> HIDE DEF x, y, r
  <2>4. QED
    BY <2>3
<1>3. QED
  BY <1>1, <1>2

\* to_index is injective on a map and stays within it.
LEMMA IndexFacts ==
  ASSUME NEW z \in Sizes, NEW x \in 0 .. z[1] - 1, NEW y \in 0 .. z[2] - 1,
         NEW t \in 0 .. NTheta - 1
  PROVE  LET i == CellIndex(<<x, y>>, t, z)
         IN  /\ i \in Nat /\ i < CellCount(z)
             /\ i % NTheta = t /\ (i \div NTheta) % z[1] = x /\ i \div (NTheta * z[1]) = y
<1> DEFINE i == CellIndex(<<x, y>>, t, z)
           w == z[1]
           c == w * y + x
<1>1. /\ w \in Nat \ {0} /\ z[2] \in Nat \ {0} /\ NTheta \in Nat \ {0}
      /\ NTheta * w \in Nat \ {0} /\ w * z[2] \in Nat
      /\ CellCount(z) = NTheta * (w * z[2]) /\ CellCount(z) = (NTheta * w) * z[2]
  BY CountFacts
<1>2. x \in Nat /\ y \in Nat /\ t \in Nat /\ x < w /\ y < z[2] /\ t < NTheta
  BY <1>1
<1>3. i = t + NTheta * (x + w * y)
  BY DEF CellIndex
<1> HIDE DEF i, w
<1>4. c \in Nat /\ c \div w = y /\ c % w = x /\ c < w * z[2]
  <2> DEFINE h == z[2]
  <2>1. h \in Nat /\ y < h
    BY <1>1, <1>2
  <2> HIDE DEF h
  <2>2. c \in Nat /\ c \div w = y /\ c % w = x /\ c < w * h
    BY <1>1, <1>2, <2>1, PairIndex
  <2>3. QED
    BY <2>2 DEF h
<1>5. i = NTheta * c + t
  BY <1>1, <1>2, <1>3
<1>6. i \in Nat /\ i \div NTheta = c /\ i % NTheta = t /\ i < NTheta * (w * z[2])
  <2> DEFINE k == w * z[2]
  <2>1. /\ c \in Nat /\ c < k /\ k \in Nat
        /\ NTheta \in Nat \ {0} /\ t \in Nat /\ t < NTheta
    BY <1>1, <1>2, <1>4
  <2> HIDE DEF c, k
  <2>2. NTheta * c + t \in Nat /\ (NTheta * c + t) \div NTheta = c
        /\ (NTheta * c + t) % NTheta = t /\ NTheta * c + t < NTheta * k
    BY <2>1, PairIndex
  <2>3. QED
    BY <1>5, <2>2 DEF k
<1>7. NTheta * x + t \in Nat /\ NTheta * x + t < NTheta * w
  BY <1>1, <1>2, PairIndex
<1>8. i = (NTheta * w) * y + (NTheta * x + t)
  <2>1. \A n, a, b, r \in Nat : n * (a * b + r) = (n * a) * b + n * r
    OBVIOUS
  <2>2. NTheta * c = (NTheta * w) * y + NTheta * x
    BY <1>1, <1>2, <2>1
  <2> DEFINE A == NTheta * c
             B == (NTheta * w) * y
             D == NTheta * x
  <2>3. A = B + D /\ i = A + t /\ B \in Nat /\ D \in Nat
    BY <1>1, <1>2, <1>5, <2>2
  <2> HIDE DEF A, B, D
  <2>4. i = B + (D + t)
    BY <1>2, <2>3
  <2>5. QED
    BY <2>4 DEF B, D
<1>9. i \div (NTheta * w) = y
  <2> DEFINE r == NTheta * x + t
             k == NTheta * w
  <2>1. i = k * y + r /\ k \in Nat \ {0} /\ r \in Nat /\ r < k
    BY <1>1, <1>7, <1>8
  <2> HIDE DEF r, k
  <2>2. i \div k = y
    BY <1>2, <2>1, PairIndex
  <2>3. QED
    BY <2>2 DEF k
<1>10. QED
  BY <1>1, <1>4, <1>6, <1>9 DEF i, w

\* Its digits give the index back.
LEMMA DigitFacts ==
  ASSUME NEW z \in Sizes, NEW i \in Nat, i < CellCount(z)
  PROVE  LET x == (i \div NTheta) % z[1]
             y == i \div (NTheta * z[1])
             t == i % NTheta
         IN  /\ x \in 0 .. z[1] - 1 /\ y \in 0 .. z[2] - 1 /\ t \in 0 .. NTheta - 1
             /\ CellIndex(<<x, y>>, t, z) = i
<1> DEFINE w == z[1]
           c == i \div NTheta
           t == i % NTheta
           x == c % w
           y == c \div w
<1>1. /\ w \in Nat \ {0} /\ z[2] \in Nat \ {0} /\ NTheta \in Nat \ {0}
      /\ w * z[2] \in Nat \ {0} /\ CellCount(z) = NTheta * (w * z[2])
  BY CountFacts
<1>2. c \in 0 .. w * z[2] - 1 /\ t \in 0 .. NTheta - 1 /\ i = NTheta * c + t
  <2> DEFINE k == w * z[2]
  <2>1. k \in Nat /\ i < NTheta * k
    BY <1>1
  <2> HIDE DEF w, k
  <2>2. i \div NTheta \in 0 .. k - 1 /\ i % NTheta \in 0 .. NTheta - 1
        /\ i = NTheta * (i \div NTheta) + (i % NTheta)
    BY <1>1, <2>1, PairSplit
  <2>3. QED
    BY <2>2 DEF k
<1>3. y \in 0 .. z[2] - 1 /\ x \in 0 .. w - 1 /\ c = w * y + x
  <2>1. c \in Nat /\ c < w * z[2]
    BY <1>1, <1>2
  <2> HIDE DEF c, w
  <2>2. QED
    BY <1>1, <2>1, PairSplit
<1>4. CellIndex(<<x, y>>, t, z) = i
  <2>1. CellIndex(<<x, y>>, t, z) = t + NTheta * (x + w * y)
    BY DEF CellIndex
  <2>2. x \in Nat /\ y \in Nat /\ t \in Nat
    BY <1>2, <1>3
  <2>3. x + w * y = c
    <3> DEFINE m == w * y
    <3>1. m \in Nat /\ c = m + x
      BY <1>1, <1>3, <2>2
    <3> HIDE DEF m, c, x
    <3>2. x + m = c
      BY <2>2, <3>1
    <3>3. QED
      BY <3>2 DEF m
  <2> DEFINE n == NTheta * c
  <2>4. n \in Nat /\ i = n + t
    BY <1>1, <1>2
  <2> HIDE DEF n, t
  <2>5. t + n = i
    BY <2>2, <2>4
  <2>6. QED
    BY <2>1, <2>3, <2>5 DEF n
<1>5. i \div (NTheta * w) = y
  <2> DEFINE j == CellIndex(<<x, y>>, t, z)
  <2>1. j \div (NTheta * z[1]) = y
    <3> HIDE DEF x, y, t, w
    <3>1. x \in 0 .. z[1] - 1 /\ y \in 0 .. z[2] - 1 /\ t \in 0 .. NTheta - 1
      BY <1>2, <1>3 DEF w
    <3>2. QED
      BY <3>1, IndexFacts
  <2>2. QED
    BY <1>4, <2>1
<1>6. QED
  BY <1>2, <1>3, <1>4, <1>5
\* A list of all indices below n, and one without repetitions.
Lists(q, n) == q \in Seq(0 .. n - 1) /\ \A i \in 0 .. n - 1 : \E k \in 1 .. Len(q) : q[k] = i
Once(q) == \A j, k \in 1 .. Len(q) : q[j] = q[k] => j = k

LEMMA RowsFacts ==
  ASSUME NEW z \in Sizes
  PROVE  Lists(ByRows(z), CellCount(z)) /\ Once(ByRows(z)) /\ Len(ByRows(z)) = CellCount(z)
<1> DEFINE n == CellCount(z)
           q == ByRows(z)
<1>1. n \in Nat
  BY CountFacts
<1>2. q = [k \in 1 .. n |-> k - 1]
  BY DEF ByRows
<1> HIDE DEF n, q
<1>3. q \in Seq(0 .. n - 1) /\ Len(q) = n
  <2>1. q \in [1 .. n -> 0 .. n - 1]
    BY <1>1, <1>2
  <2>2. QED
    BY <1>1, <2>1
<1>4. \A k \in 1 .. n : q[k] = k - 1
  BY <1>2
<1>5. \A i \in 0 .. n - 1 : i + 1 \in 1 .. n /\ q[i + 1] = i
  BY <1>1, <1>4
<1>6. Once(q)
  BY <1>1, <1>3, <1>4 DEF Once
<1>7. Lists(q, n)
  BY <1>3, <1>5 DEF Lists
<1>8. QED
  BY <1>3, <1>6, <1>7 DEF n, q

LEMMA ColsFacts ==
  ASSUME NEW z \in Sizes
  PROVE  Lists(ByCols(z), CellCount(z)) /\ Once(ByCols(z)) /\ Len(ByCols(z)) = CellCount(z)
<1> DEFINE n == CellCount(z)
           q == ByCols(z)
           w == z[1]
           h == z[2]
           col(k) == (k - 1) \div NTheta
           x(k) == col(k) \div h
           y(k) == col(k) % h
           t(k) == (k - 1) % NTheta
<1>1. /\ w \in Nat \ {0} /\ h \in Nat \ {0} /\ NTheta \in Nat \ {0} /\ n \in Nat
      /\ w * h \in Nat /\ n = NTheta * (w * h) /\ h * w = w * h
  BY CountFacts
<1>2. \A k \in 1 .. n : q[k] = CellIndex(<<x(k), y(k)>>, t(k), z)
  BY DEF ByCols
<1>3. ASSUME NEW k \in 1 .. n
      PROVE  /\ x(k) \in 0 .. w - 1 /\ y(k) \in 0 .. h - 1 /\ t(k) \in 0 .. NTheta - 1
             /\ k - 1 = NTheta * col(k) + t(k) /\ col(k) = h * x(k) + y(k)
  <2> DEFINE i == k - 1
             m == w * h
             c == i \div NTheta
  <2>1. i \in Nat /\ i < NTheta * m /\ m \in Nat /\ NTheta \in Nat \ {0}
    BY <1>1
  <2>2. c \in 0 .. m - 1 /\ i % NTheta \in 0 .. NTheta - 1 /\ i = NTheta * c + (i % NTheta)
    <3> HIDE DEF i, m
    <3>1. QED
      BY <2>1, PairSplit
  <2>3. c \in Nat /\ c < h * w /\ h \in Nat \ {0} /\ w \in Nat
    BY <1>1, <2>2
  <2>4. c \div h \in 0 .. w - 1 /\ c % h \in 0 .. h - 1 /\ c = h * (c \div h) + (c % h)
    <3> HIDE DEF c, h, w
    <3>1. QED
      BY <2>3, PairSplit
  <2>5. QED
    BY <2>2, <2>4
<1>4. ASSUME NEW k \in 1 .. n
      PROVE  /\ q[k] \in 0 .. n - 1 /\ q[k] % NTheta = t(k)
             /\ (q[k] \div NTheta) % w = x(k) /\ q[k] \div (NTheta * w) = y(k)
  <2> DEFINE a == x(k)
             b == y(k)
             r == t(k)
             i == CellIndex(<<a, b>>, r, z)
  <2>1. a \in 0 .. z[1] - 1 /\ b \in 0 .. z[2] - 1 /\ r \in 0 .. NTheta - 1
    BY <1>3
  <2>2. /\ i \in Nat /\ i < CellCount(z)
        /\ i % NTheta = r /\ (i \div NTheta) % z[1] = a /\ i \div (NTheta * z[1]) = b
    <3> HIDE DEF a, b, r
    <3>1. QED
      BY <2>1, IndexFacts
  <2>3. q[k] = i
    BY <1>2
  <2> HIDE DEF i, a, b, r
  <2>4. i \in 0 .. n - 1
    <3>1. i < n /\ n \in Nat /\ i \in Nat
      BY <1>1, <2>2
    <3> HIDE DEF n
    <3>2. QED
      BY <3>1
  <2>5. QED
    BY <2>2, <2>3, <2>4 DEF a, b, r
<1>5. ASSUME NEW i \in 0 .. n - 1 PROVE \E k \in 1 .. n : q[k] = i
  <2> DEFINE a == (i \div NTheta) % w
             b == i \div (NTheta * w)
             r == i % NTheta
             c == h * a + b
             k == NTheta * c + r + 1
  <2>1. i \in Nat /\ i < CellCount(z)
    BY <1>1
  <2>2. /\ a \in 0 .. w - 1 /\ b \in 0 .. h - 1 /\ r \in 0 .. NTheta - 1
        /\ CellIndex(<<a, b>>, r, z) = i
    BY <2>1, DigitFacts
  <2> HIDE DEF a, b, r
  <2>3. a \in Nat /\ b \in Nat /\ r \in Nat /\ a < w /\ b < h /\ r < NTheta
    BY <1>1, <2>2
  <2>4. c \in Nat /\ c \div h = a /\ c % h = b /\ c < h * w
    <3> HIDE DEF h, w
    <3>1. h \in Nat \ {0} /\ w \in Nat
      BY <1>1
    <3>2. QED
      BY <2>3, <3>1, PairIndex
  <2>5. /\ NTheta * c + r \in Nat /\ (NTheta * c + r) \div NTheta = c
        /\ (NTheta * c + r) % NTheta = r /\ NTheta * c + r < n
    <3> DEFINE m == w * h
    <3>1. /\ c \in Nat /\ c < m /\ m \in Nat /\ NTheta \in Nat \ {0} /\ r \in Nat /\ r < NTheta
          /\ n = NTheta * m
      BY <1>1, <2>3, <2>4
    <3> HIDE DEF c, m, n
    <3>2. /\ NTheta * c + r \in Nat /\ (NTheta * c + r) \div NTheta = c
          /\ (NTheta * c + r) % NTheta = r /\ NTheta * c + r < NTheta * m
      BY <3>1, PairIndex
    <3>3. QED
      BY <3>1, <3>2
  <2>6. k \in 1 .. n /\ k - 1 = NTheta * c + r
    <3> DEFINE j == NTheta * c + r
    <3>1. j \in Nat /\ j < n
      BY <2>5
    <3> HIDE DEF j, n
    <3>2. j + 1 \in 1 .. n /\ (j + 1) - 1 = j
      BY <1>1, <3>1
    <3>3. QED
      BY <3>2 DEF j
  <2> HIDE DEF k
  <2>7. col(k) = c /\ t(k) = r
    BY <2>5, <2>6
  <2>8. x(k) = a /\ y(k) = b
    <3> HIDE DEF c
    <3>1. QED
      BY <2>4, <2>7
  <2>9. q[k] = CellIndex(<<x(k), y(k)>>, t(k), z)
    BY <1>2, <2>6
  <2> HIDE DEF x, y, t
  <2>10. q[k] = i
    BY <2>2, <2>7, <2>8, <2>9
  <2>11. QED
    BY <2>6, <2>10
<1>6. q \in Seq(0 .. n - 1) /\ Len(q) = n
  <2>1. q = [k \in 1 .. n |-> q[k]]
    BY DEF ByCols
  <2> HIDE DEF q, n
  <2>2. \A k \in 1 .. n : q[k] \in 0 .. n - 1
    BY <1>4
  <2>3. q \in [1 .. n -> 0 .. n - 1]
    BY <2>1, <2>2
  <2>4. n \in Nat
    BY <1>1
  <2>5. QED
    BY <2>3, <2>4
<1>7. ASSUME NEW j \in 1 .. n, NEW k \in 1 .. n, q[j] = q[k] PROVE j = k
  <2>1. t(j) = t(k) /\ x(j) = x(k) /\ y(j) = y(k)
    BY <1>4, <1>7
  <2> HIDE DEF x, y, t
  <2>2. col(j) = col(k)
    BY <1>3, <2>1
  <2> HIDE DEF col
  <2>3. j - 1 = k - 1
    BY <1>3, <2>1, <2>2
  <2> HIDE DEF n
  <2>4. j \in Int /\ k \in Int
    BY <1>1
  <2>5. QED
    BY <2>3, <2>4
<1> HIDE DEF n, q
<1>8. QED
  BY <1>5, <1>6, <1>7 DEF n, q, Lists, Once

LEMMA BackwardFacts ==
  ASSUME NEW n \in Nat, NEW q, Lists(q, n), Once(q)
  PROVE  Lists(Backward(q), n) /\ Once(Backward(q))
<1> DEFINE l == Len(q)
           b == Backward(q)
           S == 0 .. n - 1
<1>1. q \in Seq(S) /\ l \in Nat /\ \A i \in S : \E k \in 1 .. l : q[k] = i
  BY DEF Lists
<1>2. \A k \in 1 .. l : q[k] \in S /\ l + 1 - k \in 1 .. l
  <2> HIDE DEF S
  <2>1. \A k \in 1 .. l : q[k] \in S
    BY <1>1
  <2>2. QED
    BY <1>1, <2>1
<1>3. b = [k \in 1 .. l |-> q[l + 1 - k]]
  BY DEF Backward
<1> HIDE DEF b, l, S
<1>4. b \in Seq(S) /\ Len(b) = l
  <2>1. b \in [1 .. l -> S]
    BY <1>2, <1>3
  <2>2. QED
    BY <1>1, <2>1
<1>5. \A k \in 1 .. l : b[k] = q[l + 1 - k]
  BY <1>3
<1>6. ASSUME NEW i \in S PROVE \E k \in 1 .. l : b[k] = i
  <2>1. PICK k \in 1 .. l : q[k] = i
    BY <1>1
  <2>2. l + 1 - k \in 1 .. l /\ l + 1 - (l + 1 - k) = k
    BY <1>1
  <2>3. QED
    BY <1>5, <2>1, <2>2
<1>7. ASSUME NEW j \in 1 .. l, NEW k \in 1 .. l, b[j] = b[k] PROVE j = k
  <2>1. l + 1 - j = l + 1 - k
    BY <1>2, <1>5, <1>7 DEF Once, l
  <2>2. QED
    BY <1>1, <2>1
<1>8. QED
  BY <1>4, <1>6, <1>7 DEF Lists, Once, b, S

LEMMA HalfFacts ==
  ASSUME NEW S, NEW q \in Seq(S)
  PROVE  /\ FirstHalf(q) \in Seq(S) /\ SecondHalf(q) \in Seq(S)
         /\ Once(q) => Once(SecondHalf(q))
<1> DEFINE l == Len(q)
           m == l \div 2
           f == FirstHalf(q)
           r == SecondHalf(q)
<1>1. l \in Nat /\ m \in Nat /\ m <= l /\ \A k \in 1 .. l : q[k] \in S
  <2>1. l \in Nat
    OBVIOUS
  <2> HIDE DEF l
  <2>2. m \in Nat /\ m <= l
    BY <2>1
  <2>3. QED
    BY <2>1, <2>2 DEF l
<1>2. f = SubSeq(q, 1, m) /\ r = SubSeq(q, m + 1, l)
  BY DEF FirstHalf, SecondHalf
<1> HIDE DEF m, f, r
<1>3. f \in Seq(S)
  BY <1>1, <1>2
<1>4. r \in Seq(S) /\ Len(r) = l - m /\ \A k \in 1 .. Len(r) : r[k] = q[m + k] /\ m + k \in 1 .. l
  BY <1>1, <1>2
<1>5. ASSUME Once(q), NEW j \in 1 .. Len(r), NEW k \in 1 .. Len(r), r[j] = r[k] PROVE j = k
  <2>1. m + j = m + k
    BY <1>4, <1>5 DEF Once
  <2>2. Len(r) \in Nat
    BY <1>1, <1>4
  <2>3. QED
    BY <1>1, <2>1, <2>2
<1>6. QED
  BY <1>3, <1>4, <1>5 DEF Once, f, r

\* Every order stays within the state vector; the first five visit all of it,
\* the first four once, the fifth the second half of the columns again.
LEMMA OrderFacts ==
  ASSUME NEW z \in Sizes
  PROVE  LET o == SweepOrders(z) IN
         /\ \A j \in 1 .. 6 : o[j] \in Seq(0 .. CellCount(z) - 1)
         /\ \A j \in 1 .. 5 : Lists(o[j], CellCount(z))
         /\ \A j \in 1 .. 4 : Once(o[j])
         /\ o[5] = ByRows(z) \o SecondHalf(ByCols(z))
         /\ Once(ByRows(z)) /\ Once(SecondHalf(ByCols(z)))
<1> DEFINE o == SweepOrders(z)
           n == CellCount(z)
           r == ByRows(z)
           c == ByCols(z)
           S == 0 .. n - 1
<1>1. n \in Nat /\ Lists(r, n) /\ Lists(c, n) /\ Once(r) /\ Once(c)
  BY CountFacts, RowsFacts, ColsFacts
<1>2. /\ o[1] = r /\ o[2] = c /\ o[3] = Backward(r) /\ o[4] = Backward(c)
      /\ o[5] = r \o SecondHalf(c) /\ o[6] = FirstHalf(c)
  BY DEF SweepOrders
<1> HIDE DEF o, n, r, c
<1>3. Lists(Backward(r), n) /\ Lists(Backward(c), n) /\ Once(Backward(r)) /\ Once(Backward(c))
  BY <1>1, BackwardFacts
<1>4. r \in Seq(S) /\ c \in Seq(S)
  BY <1>1 DEF Lists
<1>5. FirstHalf(c) \in Seq(S) /\ SecondHalf(c) \in Seq(S) /\ Once(SecondHalf(c))
  BY <1>1, <1>4, HalfFacts
<1>6. Lists(o[5], n)
  <2> DEFINE d == SecondHalf(c)
  <2>1. \A i \in S : \E k \in 1 .. Len(r) : r[k] = i
    BY <1>1 DEF Lists
  <2>2. d \in Seq(S)
    BY <1>5
  <2> HIDE DEF d, S
  <2>3. r \o d \in Seq(S) /\ \A k \in 1 .. Len(r) : (r \o d)[k] = r[k] /\ k \in 1 .. Len(r \o d)
    BY <1>4, <2>2
  <2>4. \A i \in S : \E k \in 1 .. Len(r \o d) : (r \o d)[k] = i
    BY <2>1, <2>3
  <2>5. QED
    BY <1>2, <2>3, <2>4 DEF Lists, S, d
<1>7. \A j \in 1 .. 5 : Lists(o[j], n)
  <2>1. \A j \in 1 .. 5 : j = 1 \/ j = 2 \/ j = 3 \/ j = 4 \/ j = 5
    OBVIOUS
  <2>2. QED
    BY <1>1, <1>2, <1>3, <1>6, <2>1
<1>8. \A j \in 1 .. 4 : Once(o[j])
  <2>1. \A j \in 1 .. 4 : j = 1 \/ j = 2 \/ j = 3 \/ j = 4
    OBVIOUS
  <2>2. QED
    BY <1>1, <1>2, <1>3, <2>1
<1>9. \A j \in 1 .. 6 : o[j] \in Seq(S)
  <2>1. \A j \in 1 .. 6 : j \in 1 .. 5 \/ j = 6
    OBVIOUS
  <2>2. \A j \in 1 .. 5 : o[j] \in Seq(S)
    BY <1>7 DEF Lists
  <2>3. QED
    BY <1>2, <1>5, <2>1, <2>2
<1>10. QED
  BY <1>1, <1>2, <1>5, <1>7, <1>8, <1>9 DEF n, o, r, c
-----------------------------------------------------------------------------
(* One backup of a ValueIterator and the loop of a sweep. *)

LEMMA CellFacts ==
  ASSUME size \in Sizes
  PROVE  /\ \A i \in 0 .. CellCount(size) - 1 :
              Cell(i) \in GridStates /\ Cell(i)[1] \in MapCols(size)
         /\ \A i, j \in 0 .. CellCount(size) - 1 : Cell(i) = Cell(j) => i = j
         /\ \A s \in GridStates : s[1] \in MapCols(size) =>
              \E i \in 0 .. CellCount(size) - 1 : Cell(i) = s
<1> DEFINE z == size
           n == CellCount(z)
           x(i) == (i \div NTheta) % z[1]
           y(i) == i \div (NTheta * z[1])
           t(i) == i % NTheta
<1>1. n \in Nat /\ z[1] \in 1 .. NX /\ z[2] \in 1 .. NY /\ NX \in Nat /\ NY \in Nat
  BY CountFacts, GeomAssumption DEF Sizes
<1>2. \A i : Cell(i) = <<<<x(i), y(i)>>, t(i)>>
  BY DEF Cell
<1>3. \A i \in 0 .. n - 1 : i \in Nat /\ i < n
  <2> HIDE DEF n
  <2>1. QED
    BY <1>1
<1>4. ASSUME NEW i \in 0 .. n - 1
      PROVE  /\ x(i) \in 0 .. z[1] - 1 /\ y(i) \in 0 .. z[2] - 1 /\ t(i) \in 0 .. NTheta - 1
             /\ CellIndex(<<x(i), y(i)>>, t(i), z) = i
  <2>1. i \in Nat /\ i < CellCount(z)
    BY <1>3
  <2>2. QED
    BY <2>1, DigitFacts
<1> HIDE DEF x, y, t
<1>5. ASSUME NEW i \in 0 .. n - 1 PROVE Cell(i) \in GridStates /\ Cell(i)[1] \in MapCols(size)
  <2>1. Cell(i) = <<<<x(i), y(i)>>, t(i)>>
    BY <1>2
  <2>2. /\ x(i) \in 0 .. z[1] - 1 /\ y(i) \in 0 .. z[2] - 1 /\ t(i) \in 0 .. NTheta - 1
        /\ x(i) \in 0 .. NX - 1 /\ y(i) \in 0 .. NY - 1
    <3>1. x(i) \in 0 .. z[1] - 1 /\ y(i) \in 0 .. z[2] - 1 /\ t(i) \in 0 .. NTheta - 1
      BY <1>4
    <3>2. \A a, b, c \in Int : a \in 0 .. b - 1 /\ b \in 1 .. c => a \in 0 .. c - 1
      OBVIOUS
    <3>3. x(i) \in Int /\ y(i) \in Int /\ z[1] \in Int /\ z[2] \in Int
      BY <1>1, <3>1
    <3>4. QED
      BY <1>1, <3>1, <3>2, <3>3
  <2>3. QED
    BY <2>1, <2>2 DEF GridStates, GridCols, MapCols
<1>6. ASSUME NEW i \in 0 .. n - 1, NEW j \in 0 .. n - 1, Cell(i) = Cell(j) PROVE i = j
  <2>1. x(i) = x(j) /\ y(i) = y(j) /\ t(i) = t(j)
    BY <1>2, <1>6
  <2>2. QED
    BY <1>4, <2>1
<1>7. ASSUME NEW s \in GridStates, s[1] \in MapCols(size)
      PROVE  \E i \in 0 .. CellCount(size) - 1 : Cell(i) = s
  <2>1. /\ s[1][1] \in 0 .. z[1] - 1 /\ s[1][2] \in 0 .. z[2] - 1 /\ s[2] \in 0 .. NTheta - 1
        /\ s = <<<<s[1][1], s[1][2]>>, s[2]>>
    BY <1>7 DEF GridStates, MapCols
  <2> DEFINE a == s[1][1]
             b == s[1][2]
             c == s[2]
             i == CellIndex(<<a, b>>, c, z)
  <2>2. /\ i \in Nat /\ i < CellCount(z)
        /\ i % NTheta = c /\ (i \div NTheta) % z[1] = a /\ i \div (NTheta * z[1]) = b
    <3> HIDE DEF a, b, c
    <3>1. a \in 0 .. z[1] - 1 /\ b \in 0 .. z[2] - 1 /\ c \in 0 .. NTheta - 1
      BY <2>1 DEF a, b, c
    <3>2. QED
      BY <3>1, IndexFacts
  <2> HIDE DEF i
  <2>3. Cell(i) = s
    BY <1>2, <2>1, <2>2 DEF x, y, t
  <2>4. i \in 0 .. n - 1
    <3>1. i < n
      BY <2>2
    <3> HIDE DEF n
    <3>2. QED
      BY <1>1, <2>2, <3>1
  <2>5. QED
    BY <2>3, <2>4
<1>8. QED
  BY <1>5, <1>6, <1>7

\* What a sweep of a thread that is alone carries along.
Runs == [value : [GridStates -> 0 .. TopCost], act : [GridStates -> Actions \union {NoAction}],
         delta : Nat]

LEMMA PairMax ==
  ASSUME NEW a \in Nat, NEW b \in Nat
  PROVE  Max({a, b}) \in Nat /\ a <= Max({a, b}) /\ b <= Max({a, b})
<1>1. IsFiniteSet({a, b})
  <2>1. IsFiniteSet({a}) /\ IsFiniteSet({b}) /\ {a, b} = {a} \union {b}
    BY FS_Singleton
  <2>2. QED
    BY <2>1, FS_Union
<1>2. {a, b} \in SUBSET Nat /\ {a, b} # {}
  OBVIOUS
<1>3. Max({a, b}) \in {a, b} /\ \A k \in {a, b} : k <= Max({a, b})
  BY <1>1, <1>2, MaxFacts
<1>4. QED
  BY <1>3

\* A visit writes the backup of one state and takes note of the change.
LEMMA VisitFacts ==
  ASSUME NEW r \in Runs, NEW i, Cell(i) \in GridStates, acts \subseteq Actions
  PROVE  LET v == VisitAlone(r, i)
             s == Cell(i)
         IN  /\ v \in Runs /\ VisitAloneOnce(r, i) = v
             /\ v.value = [r.value EXCEPT ![s] = BestIn(r.value, s)[1]]
             /\ r.delta <= v.delta
             /\ AbsInt(v.value[s] - r.value[s]) <= v.delta
<1> DEFINE v == VisitAlone(r, i)
           s == Cell(i)
           b == BestIn(r.value, s)
           d == AbsInt(b[1] - r.value[s])
<1>1. /\ r.value \in [GridStates -> 0 .. TopCost] /\ r.delta \in Nat
      /\ r.act \in [GridStates -> Actions \union {NoAction}]
  BY DEF Runs
<1>2. TopCost \in Nat /\ r.value \in [GridStates -> Nat]
  BY <1>1, RawAssumption
<1>3. b[1] \in 0 .. TopCost /\ b[2] \in acts \union {NoAction}
  BY <1>2, BestInFacts
<1>4. VisitAlone(r, i) = [value |-> [r.value EXCEPT ![s] = b[1]], act |-> [r.act EXCEPT ![s] = b[2]],
                          delta |-> Max({r.delta, d})]
  BY DEF VisitAlone, BestIn, CostIn
<1> HIDE DEF b
<1>5. d \in Nat
  <2>1. r.value[s] \in Nat /\ b[1] \in Nat
    BY <1>2, <1>3
  <2>2. b[1] - r.value[s] \in Int
    BY <2>1
  <2>3. QED
    BY <2>2, AbsFacts
<1> HIDE DEF d, s
<1>6. Max({r.delta, d}) \in Nat /\ r.delta <= Max({r.delta, d}) /\ d <= Max({r.delta, d})
  BY <1>1, <1>5, PairMax
<1> HIDE DEF v
<1>7. v = [value |-> [r.value EXCEPT ![s] = b[1]], act |-> [r.act EXCEPT ![s] = b[2]],
           delta |-> Max({r.delta, d})]
  BY <1>4 DEF v
<1>8. /\ v.value = [r.value EXCEPT ![s] = b[1]] /\ v.act = [r.act EXCEPT ![s] = b[2]]
      /\ v.delta = Max({r.delta, d})
  BY <1>7
<1>9. v.value \in [GridStates -> 0 .. TopCost] /\ v.act \in [GridStates -> Actions \union {NoAction}]
  <2>1. b[2] \in Actions \union {NoAction}
    BY <1>3
  <2>2. QED
    BY <1>1, <1>3, <1>8, <2>1
<1>10. v \in Runs
  BY <1>6, <1>7, <1>8, <1>9 DEF Runs
<1>11. v.value[s] = b[1]
  <2>1. s \in GridStates
    BY DEF s
  <2>2. QED
    BY <1>1, <1>8, <2>1
<1>12. VisitAloneOnce(r, i) = v
  BY DEF VisitAloneOnce, v
<1>13. QED
  BY <1>6, <1>8, <1>10, <1>11, <1>12 DEF v, s, b, d

\* The loop of a sweep, visit by visit.
LEMMA SweptUnfold ==
  ASSUME NEW q, NEW n \in Nat, Len(q) = n, \A k \in 1 .. n : Cell(q[k]) \in GridStates,
         acts \subseteq Actions, NEW r \in Runs, r = [value |-> value, act |-> act, delta |-> 0]
  PROVE  \E f \in [0 .. n -> Runs] :
           /\ f[0] = r /\ \A k \in 1 .. n : f[k] = VisitAlone(f[k - 1], q[k])
           /\ Swept(q) = f[n]
<1> DEFINE run[k \in 0 .. Len(q)] ==
             IF k = 0 THEN [value |-> value, act |-> act, delta |-> 0]
             ELSE VisitAloneOnce(run[k - 1], q[k])
           step == [k \in 1 .. n |-> [x \in Runs |-> VisitAlone(x, q[k])]]
<1>1. \A k \in 1 .. n, x \in Runs : VisitAlone(x, q[k]) \in Runs /\ VisitAloneOnce(x, q[k]) = VisitAlone(x, q[k])
  BY VisitFacts
<1>2. step \in [1 .. n -> [Runs -> Runs]]
  BY <1>1
<1>3. \A k \in 1 .. n, x \in Runs : step[k][x] = VisitAlone(x, q[k])
  OBVIOUS
<1> HIDE DEF step
<1>4. PICK f \in [0 .. n -> Runs] : f[0] = r /\ \A k \in 1 .. n : f[k] = step[k][f[k - 1]]
  <2>1. Recursive(Runs, r, n, step)
    BY <1>2, RecursiveExists
  <2>2. QED
    BY <2>1 DEF Recursive
<1>5. ASSUME NEW k \in 1 .. n
      PROVE  f[k] = VisitAlone(f[k - 1], q[k]) /\ f[k] = VisitAloneOnce(f[k - 1], q[k])
  <2>1. f[k - 1] \in Runs
    <3>1. k - 1 \in 0 .. n
      OBVIOUS
    <3>2. QED
      BY <3>1
  <2>2. QED
    BY <1>1, <1>3, <1>4, <2>1
<1>6. f = [k \in 0 .. Len(q) |-> IF k = 0 THEN [value |-> value, act |-> act, delta |-> 0]
                                 ELSE VisitAloneOnce(f[k - 1], q[k])]
  <2> DEFINE g(k) == IF k = 0 THEN [value |-> value, act |-> act, delta |-> 0]
                     ELSE VisitAloneOnce(f[k - 1], q[k])
  <2>1. ASSUME NEW k \in 0 .. n PROVE f[k] = g(k)
    <3>1. k = 0 \/ (k # 0 /\ k \in 1 .. n)
      OBVIOUS
    <3>2. QED
      BY <1>4, <1>5, <3>1
  <2> HIDE DEF g
  <2>2. f = [k \in 0 .. n |-> g(k)]
    BY <2>1
  <2>3. QED
    BY <2>2 DEF g
<1>7. run = [k \in 0 .. Len(q) |-> IF k = 0 THEN [value |-> value, act |-> act, delta |-> 0]
                                   ELSE VisitAloneOnce(run[k - 1], q[k])]
  BY <1>6, Zenon
<1>8. Swept(q) = run[Len(q)]
  BY Zenon DEF Swept
<1> HIDE DEF run
<1>9. /\ run[0] = r /\ \A k \in 1 .. n : run[k] = VisitAloneOnce(run[k - 1], q[k])
  <2>1. run[0] = r
    <3>1. 0 \in 0 .. Len(q)
      OBVIOUS
    <3>2. QED
      BY <1>7, <3>1, Zenon
  <2>2. \A k \in 1 .. n : k \in 0 .. Len(q) /\ k # 0
    OBVIOUS
  <2>3. QED
    BY <1>7, <2>1, <2>2, Zenon
<1>10. \A k \in 0 .. n : run[k] = f[k]
  <2> DEFINE T == {k \in 0 .. n : run[k] # f[k]}
  <2>1. SUFFICES ASSUME T # {} PROVE FALSE
    OBVIOUS
  <2>2. T \in SUBSET Nat
    OBVIOUS
  <2>3. PICK m \in T : \A k \in T : m <= k
    BY <2>1, <2>2, LeastOf
  <2>4. m # 0
    BY <1>4, <1>9, <2>3
  <2>5. m \in 1 .. n /\ m - 1 \in 0 .. n /\ m - 1 \notin T
    BY <2>3, <2>4
  <2>6. run[m - 1] = f[m - 1]
    BY <2>5
  <2>7. run[m] = f[m]
    BY <1>5, <1>9, <2>5, <2>6
  <2>8. QED
    BY <2>3, <2>7
<1>11. Swept(q) = f[n]
  BY <1>8, <1>10
<1>12. QED
  BY <1>4, <1>5, <1>11

\* The loads of a racing backup: some cells of the table at some earlier times.
Loaded == UNION {[D -> 0 .. TopCost] : D \in SUBSET (Actions \X GridStates)}

\* Whatever the loads were, the backup stores a cost and an action of the list.
LEMMA LoadsBest ==
  ASSUME NEW s \in GridStates, NEW l \in Loaded, DOMAIN l = LoadSlots(s), acts \subseteq Actions
  PROVE  LET seen(a) == [t \in {k[2] : k \in {x \in DOMAIN l : x[1] = a}} |-> l[<<a, t>>]]
             b == Best({<<CostMod(free, seen(a), a, s, Word), a>> : a \in acts})
         IN  b[1] \in 0 .. TopCost /\ b[2] \in acts \union {NoAction}
<1> DEFINE seen(a) == [t \in {k[2] : k \in {x \in DOMAIN l : x[1] = a}} |-> l[<<a, t>>]]
           P == {<<CostMod(free, seen(a), a, s, Word), a>> : a \in acts}
           b == Best(P)
<1>1. l \in [DOMAIN l -> 0 .. TopCost] /\ DOMAIN l \subseteq Actions \X GridStates /\ TopCost \in Nat
  BY RawAssumption DEF Loaded
<1>2. ASSUME NEW a \in acts PROVE CostMod(free, seen(a), a, s, Word) \in Nat
  <2> DEFINE v == seen(a)
             D == {k[2] : k \in {x \in DOMAIN l : x[1] = a}}
             w == [t \in GridStates |-> IF t \in D THEN v[t] ELSE 0]
             trs == Trans[a][s[2]]
  <2>1. D \subseteq GridStates /\ \A t \in D : <<a, t>> \in DOMAIN l
    <3>1. \A k \in DOMAIN l : k = <<k[1], k[2]>> /\ k[2] \in GridStates
      BY <1>1
    <3>2. QED
      BY <3>1
  <2>2. \A t \in D : v[t] \in Nat
    <3>1. \A t \in D : v[t] = l[<<a, t>>]
      OBVIOUS
    <3>2. \A k \in DOMAIN l : l[k] \in Nat
      BY <1>1
    <3> HIDE DEF v, D
    <3>3. QED
      BY <2>1, <3>1, <3>2
  <2> HIDE DEF v, D
  <2>3. w \in [GridStates -> Nat] /\ \A t \in D : w[t] = v[t]
    BY <2>1, <2>2
  <2> HIDE DEF w
  <2>4. CASE \A tr \in Outcomes(a, s) : Lands(free, s[1], tr)
    <3>1. \A tr \in Outcomes(a, s) : Target(s[1], tr) \in D
      <4>1. ASSUME NEW tr \in Outcomes(a, s) PROVE Target(s[1], tr) \in D
        <5>1. a \in {c \in acts : \A o \in Outcomes(c, s) : Lands(free, s[1], o)}
          BY <2>4
        <5>2. <<a, Target(s[1], tr)>> \in LoadSlots(s)
          BY <5>1 DEF LoadSlots
        <5> DEFINE k == <<a, Target(s[1], tr)>>
        <5>3. k \in DOMAIN l /\ k[1] = a /\ k[2] = Target(s[1], tr)
          BY <5>2
        <5> HIDE DEF k
        <5>4. QED
          BY <5>3 DEF D
      <4>2. QED
        BY <4>1
    <3>2. \A i \in 1 .. Len(trs) : Term(v, s[1], trs[i]) = Term(w, s[1], trs[i])
      <4>1. \A i \in 1 .. Len(trs) : trs[i] \in Outcomes(a, s)
        BY OutcomeFacts
      <4>2. QED
        BY <2>3, <3>1, <4>1 DEF Term
    <3>3. Weighted(v, s[1], trs) = Weighted(w, s[1], trs)
      <4>1. [i \in 1 .. Len(trs) |-> Term(v, s[1], trs[i])] = [i \in 1 .. Len(trs) |-> Term(w, s[1], trs[i])]
        BY <3>2
      <4>2. QED
        BY <4>1 DEF Weighted
    <3>4. CostMod(free, v, a, s, Word) = CostIn(w, a, s)
      BY <3>3 DEF CostMod, CostIn
    <3>5. CostIn(w, a, s) \in Nat
      BY <2>3, CostFacts
    <3>6. QED
      BY <3>4, <3>5 DEF v
  <2>5. CASE ~\A tr \in Outcomes(a, s) : Lands(free, s[1], tr)
    BY <1>1, <2>5 DEF CostMod
  <2>6. QED
    BY <2>4, <2>5
<1>3. P \in SUBSET (Nat \X Nat) /\ \A p \in P : p[2] \in acts
  <2>1. acts \subseteq Nat
    BY RawAssumption
  <2> DEFINE c(a) == CostMod(free, seen(a), a, s, Word)
  <2>2. \A a \in acts : c(a) \in Nat
    BY <1>2
  <2>3. P = {<<c(a), a>> : a \in acts}
    OBVIOUS
  <2> HIDE DEF c, P
  <2>4. QED
    BY <2>1, <2>2, <2>3
<1> HIDE DEF P
<1>4. /\ b \in P \union {<<TopCost, NoAction>>}
      /\ \A q \in P \union {<<TopCost, NoAction>>} : b[1] < q[1] \/ (b[1] = q[1] /\ b[2] <= q[2])
  BY <1>3, BestFacts
<1> HIDE DEF b
<1>5. b[1] \in Nat /\ b[2] \in acts \union {NoAction}
  BY <1>1, <1>3, <1>4
<1>6. b[1] <= TopCost
  <2>1. b[1] < <<TopCost, NoAction>>[1] \/ b[1] = <<TopCost, NoAction>>[1]
    BY <1>4
  <2>2. QED
    BY <1>1, <1>5, <2>1
<1>7. QED
  BY <1>1, <1>5, <1>6 DEF b, P
-----------------------------------------------------------------------------
(* The calls and the threads of a ValueIterator. *)

Workers ==
  [todo : Seq(Indices), sweeps : Nat \ {0}, loads : Loaded,
   new : {<<>>} \union {<<a>> : a \in Actions \union {NoAction}}, loud : BOOLEAN]

IterTyped ==
  /\ MapTypeOK
  /\ crew \subseteq Nat
  /\ \A id \in crew : worker[id] \in Workers

Current == \A id \in DOMAIN reports : id \in swept /\ reports[id].sweeps >= 1
IterInv == IterTyped /\ Current /\ InBounds

LEMMA SetupFacts ==
  ASSUME setup \in Setups, {size, ordered} \subseteq setup.sizes, acts = setup.acts
  PROVE  /\ size \in Sizes /\ ordered \in Sizes /\ acts \subseteq Actions
         /\ setup.sizes \subseteq Sizes /\ setup.workers \subseteq Nat /\ setup.threads \in Nat \ {0}
         /\ setup.calls \in Nat /\ CellCount(ordered) \in Nat
<1>1. /\ setup.sizes \subseteq Sizes /\ setup.workers \subseteq Nat /\ setup.threads \in Nat \ {0}
      /\ setup.calls \in Nat /\ setup.acts \subseteq Actions
  BY SetupsAssumption DEF Sizes
<1>2. ordered \in Sizes /\ size \in Sizes
  BY <1>1
<1>3. QED
  BY <1>1, <1>2, CountFacts

LEMMA IterFacts ==
  ASSUME IterTyped
  PROVE  /\ setup \in Setups /\ acts = setup.acts /\ {size, ordered} \subseteq setup.sizes
         /\ size \in Sizes /\ ordered \in Sizes /\ acts \subseteq Actions
         /\ setup.sizes \subseteq Sizes /\ setup.workers \subseteq Nat /\ setup.threads \in Nat \ {0}
         /\ setup.calls \in Nat /\ CellCount(ordered) \in Nat
         /\ value \in [GridStates -> 0 .. TopCost]
         /\ act \in [GridStates -> Actions \union {NoAction}]
         /\ DOMAIN worker = crew
<1>1. setup \in Setups /\ acts = setup.acts /\ {size, ordered} \subseteq setup.sizes
  BY DEF IterTyped, MapTypeOK
<1>2. QED
  BY <1>1, SetupFacts DEF IterTyped, MapTypeOK

\* What a sweep visits are indices of the state vector that the orders were
\* made for.
LEMMA VisitsIn ==
  ASSUME ordered \in Sizes, NEW id \in Nat
  PROVE  Visits(id) \in Seq(Indices)
<1> DEFINE o == SweepOrders(ordered)
           q == o[(id % 6) + 1]
           S == {i \in Nat : i >= CellCount(size) \/ Updatable(Cell(i))}
           r == Sublist(q, S)
<1>1. q \in Seq(Indices)
  <2>1. (id % 6) + 1 \in 1 .. 6
    OBVIOUS
  <2>2. QED
    BY <2>1, OrderFacts DEF Indices
<1>2. Visits(id) = r
  BY DEF Visits
<1> HIDE DEF o, q, S
<1>3. Len(q) \in Nat /\ \A k \in 1 .. Len(q) : q[k] \in Indices
  BY <1>1
<1>4. PICK n \in Nat : Len(q) = n
  BY <1>3
<1>5. r \in Seq(S) /\ \A j \in 1 .. Len(r) : \E i \in 1 .. n : r[j] = q[i] /\ q[i] \in S
  BY <1>4, SublistFacts, ZenonT(40)
<1> HIDE DEF r
<1>6. \A j \in 1 .. Len(r) : r[j] \in Indices
  BY <1>3, <1>4, <1>5
<1>7. r \in Seq(Indices)
  <2>1. r = [j \in 1 .. Len(r) |-> r[j]] /\ Len(r) \in Nat
    BY <1>5
  <2>2. r \in [1 .. Len(r) -> Indices]
    BY <1>6, <2>1
  <2>3. QED
    BY <2>1, <2>2
<1>8. QED
  BY <1>2, <1>7

LEMMA FreshTyped ==
  ASSUME ordered \in Sizes, NEW id \in Nat
  PROVE  Fresh(id) \in Workers /\ \A n \in Nat \ {0} : [Fresh(id) EXCEPT !.sweeps = n] \in Workers
<1>1. Visits(id) \in Seq(Indices)
  BY VisitsIn
<1>2. <<>> \in Loaded
  <2>1. {} \in SUBSET (Actions \X GridStates) /\ <<>> \in [{} -> 0 .. TopCost]
    OBVIOUS
  <2>2. QED
    BY <2>1 DEF Loaded
<1>3. Fresh(id) \in Workers
  BY <1>1, <1>2 DEF Workers, Fresh
<1>4. \A w \in Workers, n \in Nat \ {0} : [w EXCEPT !.sweeps = n] \in Workers
  <2> DEFINE T == Seq(Indices)
             N == {<<>>} \union {<<a>> : a \in Actions \union {NoAction}}
  <2>1. Workers = [todo : T, sweeps : Nat \ {0}, loads : Loaded, new : N, loud : BOOLEAN]
    BY DEF Workers
  <2> HIDE DEF T, N
  <2>2. QED
    BY <2>1
<1>5. QED
  BY <1>3, <1>4

LEMMA ClearedType == ASSUME NEW g \in SUBSET GridStates PROVE Cleared(g) \in [GridStates -> 0 .. TopCost]
  BY RawAssumption DEF Cleared

LEMMA MazeFacts ==
  ASSUME NEW m \in Mazes
  PROVE  m.free \subseteq GridCols /\ m.goal \subseteq GridStates
<1>1. m \in [free : SUBSET GridCols, goal : SUBSET GridStates, acts : SUBSET Actions]
  BY RawAssumption
<1>2. QED
  BY <1>1

LEMMA IterInitInv == IterInit => IterInv
<1> SUFFICES ASSUME IterInit PROVE IterInv
  OBVIOUS
<1>1. /\ setup \in Setups /\ acts = setup.acts /\ ordered = size /\ goal = {} /\ value = Cleared({})
      /\ act = [s \in GridStates |-> NoAction] /\ status = "init" /\ reports = <<>>
      /\ crew = {} /\ worker = <<>> /\ panicked = FALSE /\ calls = 0
      /\ free \subseteq MapCols(size) /\ size \in setup.sizes
  BY DEF IterInit
<1>2. setup.calls \in Nat
  BY <1>1, SetupsAssumption
<1>3. value \in [GridStates -> 0 .. TopCost] /\ act \in [GridStates -> Actions \union {NoAction}]
  BY <1>1, ClearedType
<1>4. DOMAIN worker = crew /\ DOMAIN reports = {}
  BY <1>1
<1>5. calls \in 0 .. setup.calls
  BY <1>1, <1>2
<1>6. MapTypeOK
  BY <1>1, <1>3, <1>4, <1>5 DEF MapTypeOK
<1>7. QED
  BY <1>1, <1>4, <1>6 DEF IterInv, IterTyped, Current, InBounds

\* A step that starts no thread and ends none keeps the threads' types.
LEMMA WorkersStay == ordered' = ordered => Workers' = Workers /\ Indices' = Indices
  BY DEF Workers, Indices, Loaded, CellCount

LEMMA CallKeeps ==
  ASSUME IterInv, Calls
  PROVE  IterInv'
<1>1. /\ setup' = setup /\ acts' = acts /\ ordered' = ordered
      /\ crew' = crew /\ worker' = worker /\ panicked' = panicked /\ Idle
      /\ calls < setup.calls /\ calls' = calls + 1
  BY DEF Calls, SetMap, SetGoal, SetStatus, SetCancel, SetCalculated, PosToAction, fixed, shape, sweep
<1>2. IterTyped /\ Current /\ crew = {} /\ panicked = FALSE
  BY <1>1 DEF IterInv, Idle, IterTyped, MapTypeOK, InBounds
<1>3. /\ free' \subseteq MapCols(size') /\ size' \in setup.sizes
      /\ goal' \subseteq GridStates /\ status' \in {"init", "calculating", "calculated", "canceled", "goal"}
      /\ value' \in [GridStates -> 0 .. TopCost] /\ act' \in [GridStates -> Actions \union {NoAction}]
      /\ \A id \in DOMAIN reports' : id \in swept' /\ reports'[id].sweeps >= 1
  <2>1. CASE SetMap
    <3>1. /\ \E m \in Mazes, z \in setup.sizes : m.free \subseteq MapCols(z) /\ free' = m.free /\ size' = z
          /\ goal' = {} /\ value' = Cleared({}) /\ act' = [s \in GridStates |-> NoAction]
          /\ status' = status /\ reports' = reports /\ swept' = swept
      BY <2>1 DEF SetMap
    <3>2. value' \in [GridStates -> 0 .. TopCost]
      BY <3>1, ClearedType
    <3>3. QED
      BY <1>2, <3>1, <3>2 DEF IterTyped, MapTypeOK, Current
  <2>2. CASE SetGoal
    <3>1. /\ \E m \in Mazes : m.free = free /\ goal' = m.goal
          /\ value' = Cleared(goal') /\ act' = [s \in GridStates |-> NoAction]
          /\ reports' = <<>> /\ status' = "calculating" /\ free' = free /\ size' = size
      BY <2>2 DEF SetGoal, AfterGoal
    <3>2. goal' \in SUBSET GridStates
      BY <3>1, MazeFacts
    <3>3. value' \in [GridStates -> 0 .. TopCost]
      BY <3>1, <3>2, ClearedType
    <3>4. DOMAIN reports' = {}
      BY <3>1
    <3>5. QED
      BY <1>2, <3>1, <3>2, <3>3, <3>4 DEF IterTyped, MapTypeOK
  <2>3. CASE SetStatus
    <3>1. /\ free' = free /\ goal' = goal /\ size' = size /\ value' = value /\ act' = act
          /\ reports' = reports /\ swept' = swept
          /\ status' \in {"canceled", "calculated", "goal"}
      BY <2>3 DEF SetStatus, SetCancel, SetCalculated, PosToAction, shape, table
    <3>2. QED
      BY <1>2, <3>1 DEF IterTyped, MapTypeOK, Current
  <2>4. QED
    BY <2>1, <2>2, <2>3 DEF Calls
<1>4. calls' \in 0 .. setup'.calls
  <2>1. calls \in 0 .. setup.calls /\ setup.calls \in Nat
    BY <1>2, IterFacts DEF IterTyped, MapTypeOK
  <2>2. QED
    BY <1>1, <2>1
<1>5. MapTypeOK'
  BY <1>1, <1>2, <1>3, <1>4 DEF IterTyped, MapTypeOK, MapCols
<1>6. IterTyped'
  BY <1>1, <1>2, <1>5 DEF IterTyped
<1>7. Current' /\ InBounds'
  BY <1>1, <1>2, <1>3 DEF Current, InBounds
<1>8. QED
  BY <1>6, <1>7 DEF IterInv
-----------------------------------------------------------------------------
\* Steps of a call leave the maps, the goal and the status alone.
LEMMA RunningFrame ==
  ASSUME IterInv, UNCHANGED <<fixed, shape, status, calls>>,
         value' \in [GridStates -> 0 .. TopCost],
         act' \in [GridStates -> Actions \union {NoAction}],
         crew' \subseteq Nat, DOMAIN worker' = crew',
         \A id \in crew' : worker'[id] \in Workers,
         Current', ordered = size => ~panicked'
  PROVE  IterInv'
<1>1. /\ setup' = setup /\ acts' = acts /\ free' = free /\ goal' = goal /\ size' = size
      /\ ordered' = ordered /\ status' = status /\ calls' = calls
  BY DEF fixed, shape
<1>2. MapTypeOK'
  BY <1>1 DEF IterInv, IterTyped, MapTypeOK, MapCols
<1>3. Workers' = Workers
  BY <1>1, WorkersStay
<1>4. IterTyped'
  BY <1>2, <1>3 DEF IterTyped
<1>5. InBounds'
  BY <1>1 DEF InBounds
<1>6. QED
  BY <1>4, <1>5 DEF IterInv

LEMMA WorkerEdits ==
  ASSUME NEW w \in Workers
  PROVE  /\ \A b \in BOOLEAN : [w EXCEPT !.todo = <<>>, !.loud = b] \in Workers
         /\ \A l \in Loaded : [w EXCEPT !.loads = l] \in Workers
         /\ \A a \in Actions \union {NoAction}, b \in BOOLEAN :
              [w EXCEPT !.new = <<a>>, !.loads = <<>>, !.loud = b] \in Workers
         /\ w.todo # <<>> => [w EXCEPT !.new = <<>>, !.todo = Tail(@)] \in Workers
<1> DEFINE T == Seq(Indices)
           N == {<<>>} \union {<<a>> : a \in Actions \union {NoAction}}
<1>1. Workers = [todo : T, sweeps : Nat \ {0}, loads : Loaded, new : N, loud : BOOLEAN]
  BY DEF Workers
<1>2. <<>> \in T /\ <<>> \in N /\ \A a \in Actions \union {NoAction} : <<a>> \in N
  OBVIOUS
<1>3. \A q \in T : q # <<>> => Tail(q) \in T
  OBVIOUS
<1>4. <<>> \in Loaded
  <2>1. {} \in SUBSET (Actions \X GridStates) /\ <<>> \in [{} -> 0 .. TopCost]
    OBVIOUS
  <2>2. QED
    BY <2>1 DEF Loaded
<1> HIDE DEF T, N
<1>5. \A b \in BOOLEAN : [w EXCEPT !.todo = <<>>, !.loud = b] \in Workers
  BY <1>1, <1>2
<1>6. \A l \in Loaded : [w EXCEPT !.loads = l] \in Workers
  BY <1>1
<1>7. \A a \in Actions \union {NoAction}, b \in BOOLEAN :
        [w EXCEPT !.new = <<a>>, !.loads = <<>>, !.loud = b] \in Workers
  <2>1. \A x \in N, l \in Loaded, b \in BOOLEAN :
          [w EXCEPT !.new = x, !.loads = l, !.loud = b] \in Workers
    BY <1>1
  <2>2. QED
    BY <1>2, <1>4, <2>1
<1>8. w.todo # <<>> => [w EXCEPT !.new = <<>>, !.todo = Tail(@)] \in Workers
  <2>1. \A x \in N, q \in T : [w EXCEPT !.new = x, !.todo = q] \in Workers
    BY <1>1
  <2>2. w.todo \in T
    BY <1>1
  <2>3. QED
    BY <1>2, <1>3, <2>1, <2>2
<1>9. QED
  BY <1>5, <1>6, <1>7, <1>8

LEMMA StartKeeps ==
  ASSUME IterInv, RunWorker \/ RunThreads
  PROVE  IterInv'
<1>1. IterTyped /\ Current
  BY DEF IterInv
<1>2. PICK ids \in SUBSET Nat : Start(ids) /\ (reports' = reports \/ reports' = <<>>)
  <2>1. setup.workers \subseteq Nat /\ setup.threads \in Nat
    BY <1>1, IterFacts
  <2>2. CASE RunWorker
    <3>1. PICK id \in setup.workers : Start({id}) /\ UNCHANGED reports
      BY <2>2 DEF RunWorker
    <3>2. {id} \in SUBSET Nat
      BY <2>1
    <3>3. QED
      BY <3>1, <3>2
  <2>3. CASE RunThreads
    <3>1. 0 .. setup.threads - 1 \in SUBSET Nat
      BY <2>1
    <3>2. QED
      BY <2>3, <3>1 DEF RunThreads
  <2>4. QED
    BY <2>2, <2>3
<1>3. /\ UNCHANGED <<fixed, shape, status, calls>> /\ value' = value /\ act' = act
      /\ crew' = ids /\ worker' = [id \in ids |-> Fresh(id)] /\ panicked' = panicked /\ swept' = swept
      /\ ~panicked
  BY <1>2 DEF Start, table, Idle
<1>4. \A id \in crew' : worker'[id] \in Workers
  BY <1>1, <1>3, IterFacts, FreshTyped
<1>5. DOMAIN worker' = crew' /\ crew' \subseteq Nat
  BY <1>3
<1>6. Current'
  <2>1. CASE reports' = reports
    BY <1>1, <1>3, <2>1 DEF Current
  <2>2. CASE reports' = <<>>
    <3>1. DOMAIN reports' = {}
      BY <2>2
    <3>2. QED
      BY <3>1 DEF Current
  <2>3. QED
    BY <1>2, <2>1, <2>2
<1>7. /\ value' \in [GridStates -> 0 .. TopCost]
      /\ act' \in [GridStates -> Actions \union {NoAction}]
  BY <1>1, <1>3, IterFacts
<1>8. ordered = size => ~panicked'
  BY <1>3
<1>9. QED
  BY <1>3, <1>4, <1>5, <1>6, <1>7, <1>8, RunningFrame

\* Where a sweep is, the orders fit the map.
LEMMA AtFacts ==
  ASSUME IterTyped, NEW id \in crew, Sweeping(id)
  PROVE  /\ worker[id] \in Workers /\ worker[id].todo \in Seq(Indices) /\ worker[id].todo # <<>>
         /\ InRange(id) => \A k \in 1 .. Len(worker[id].todo) :
                             Cell(worker[id].todo[k]) \in GridStates
         /\ InRange(id) => At(id) \in GridStates
<1> DEFINE q == worker[id].todo
<1>1. worker[id] \in Workers /\ q \in Seq(Indices) /\ q # <<>>
  BY DEF IterTyped, Sweeping, Workers
<1>2. size \in Sizes
  BY IterFacts
<1>3. \A k \in 1 .. Len(q) : q[k] \in Nat
  <2>1. \A k \in 1 .. Len(q) : q[k] \in Indices
    <3> HIDE DEF q
    <3>1. QED
      BY <1>1
  <2>2. Indices \subseteq Nat
    BY IterFacts DEF Indices
  <2> HIDE DEF q
  <2>3. QED
    BY <2>1, <2>2
<1>4. ASSUME InRange(id), NEW k \in 1 .. Len(q) PROVE Cell(q[k]) \in GridStates
  <2>1. q[k] < CellCount(size) /\ CellCount(size) \in Nat
    BY <1>1, <1>2, <1>4, CountFacts DEF InRange
  <2>2. q[k] \in 0 .. CellCount(size) - 1
    BY <1>3, <2>1
  <2>3. QED
    BY <1>2, <2>2, CellFacts
<1>5. ASSUME InRange(id) PROVE At(id) \in GridStates
  <2>1. 1 \in 1 .. Len(q) /\ Head(q) = q[1]
    BY <1>1
  <2>2. QED
    BY <1>4, <1>5, <2>1 DEF At
<1>6. QED
  BY <1>1, <1>4, <1>5

LEMMA PanicOut ==
  ASSUME IterInv, NEW id \in crew, Panic(id)
  PROVE  IterInv'
<1>1. IterTyped /\ Sweeping(id) /\ Current
  BY DEF IterInv, Panic
<1>2. /\ UNCHANGED <<fixed, shape, status, calls>> /\ value' = value /\ act' = act
      /\ crew' = crew /\ worker' = worker /\ reports' = reports /\ swept' = swept
  BY DEF Panic, table, sweep
<1>3. ordered # size
  <2>1. SUFFICES ASSUME ordered = size PROVE FALSE
    OBVIOUS
  <2>2. PICK k \in DOMAIN worker[id].todo : worker[id].todo[k] >= CellCount(size)
    BY DEF Panic
  <2>3. worker[id].todo[k] \in Indices
    BY <1>1, <2>2, AtFacts
  <2>4. CellCount(size) \in Nat
    BY <1>1, <2>1, IterFacts
  <2>5. QED
    BY <2>1, <2>2, <2>3, <2>4 DEF Indices
<1>4. Current'
  BY <1>1, <1>2 DEF Current
<1>5. QED
  BY <1>1, <1>2, <1>3, <1>4, IterFacts, RunningFrame DEF IterTyped

LEMMA WorkerStep ==
  ASSUME IterInv, NEW id \in crew, NEW w \in Workers, worker' = [worker EXCEPT ![id] = w],
         UNCHANGED <<fixed, shape, status, calls, reports, swept, crew>>,
         value' \in [GridStates -> 0 .. TopCost],
         act' \in [GridStates -> Actions \union {NoAction}],
         ~panicked'
  PROVE  IterInv'
<1>1. IterTyped /\ Current
  BY DEF IterInv
<1>2. DOMAIN worker = crew /\ crew \subseteq Nat /\ \A i \in crew : worker[i] \in Workers
  BY <1>1, IterFacts DEF IterTyped
<1>3. DOMAIN worker' = crew' /\ \A i \in crew' : worker'[i] \in Workers
  BY <1>2
<1>4. Current'
  BY <1>1 DEF Current
<1>5. QED
  BY <1>2, <1>3, <1>4, RunningFrame

LEMMA StepKeeps ==
  ASSUME IterInv, NEW id \in crew, Step(id)
  PROVE  IterInv'
<1>1. IterTyped /\ Current
  BY DEF IterInv
<1>2. /\ acts \subseteq Actions /\ value \in [GridStates -> 0 .. TopCost] /\ ordered \in Sizes
      /\ act \in [GridStates -> Actions \union {NoAction}] /\ DOMAIN worker = crew
  BY <1>1, IterFacts
<1>3. id \in Nat /\ worker[id] \in Workers
  BY <1>1 DEF IterTyped
<1> DEFINE q == worker[id].todo
<1>4. CASE SweepAlone(id)
  <2>1. Sweeping(id) /\ InRange(id)
    BY <1>4 DEF SweepAlone
  <2> DEFINE t == Swept(q)
             b == t.delta \div ProbBase > 0
             w == [worker[id] EXCEPT !.todo = <<>>, !.loud = b]
  <2>2. /\ value' = t.value /\ act' = t.act
        /\ worker' = [worker EXCEPT ![id].todo = <<>>, ![id].loud = b]
        /\ UNCHANGED <<fixed, shape, status, calls, reports, swept, crew>> /\ panicked' = panicked
    BY <1>4 DEF SweepAlone
  <2>3. q \in Seq(Indices) /\ \A k \in 1 .. Len(q) : Cell(q[k]) \in GridStates
    BY <1>1, <2>1, AtFacts
  <2>4. t \in Runs
    <3> DEFINE r == [value |-> value, act |-> act, delta |-> 0]
    <3>1. r \in Runs
      BY <1>2 DEF Runs
    <3>2. PICK n \in Nat : Len(q) = n
      BY <2>3
    <3> HIDE DEF r, q
    <3>3. PICK f \in [0 .. n -> Runs] : Swept(q) = f[n]
      BY <1>2, <2>3, <3>1, <3>2, SweptUnfold DEF r
    <3>4. f[n] \in Runs
      BY <3>2
    <3>5. QED
      BY <3>3, <3>4
  <2> HIDE DEF t
  <2>5. /\ value' \in [GridStates -> 0 .. TopCost] /\ act' \in [GridStates -> Actions \union {NoAction}]
    BY <2>2, <2>4 DEF Runs
  <2>6. b \in BOOLEAN
    OBVIOUS
  <2> HIDE DEF b
  <2>7. w \in Workers
    BY <1>3, <2>6, WorkerEdits
  <2>8. worker' = [worker EXCEPT ![id] = w]
    BY <2>2
  <2> HIDE DEF w
  <2>9. ~panicked'
    BY <2>1, <2>2 DEF Sweeping
  <2>10. QED
    BY <2>2, <2>5, <2>7, <2>8, <2>9, WorkerStep
<1>5. CASE Load(id)
  <2>1. Sweeping(id) /\ InRange(id)
    BY <1>5 DEF Load
  <2>2. PICK k \in LoadSlots(At(id)) \ DOMAIN worker[id].loads :
          worker' = [worker EXCEPT ![id].loads =
            [x \in DOMAIN @ \union {k} |-> IF x = k THEN value[k[2]] ELSE @[x]]]
    BY <1>5 DEF Load
  <2>3. /\ UNCHANGED <<fixed, shape, status, calls, reports, swept, crew>> /\ panicked' = panicked
        /\ value' = value /\ act' = act
    BY <1>5 DEF Load, table
  <2>4. At(id) \in GridStates
    BY <1>1, <2>1, AtFacts
  <2>5. k \in Actions \X GridStates
    <3>1. PICK a \in {b \in acts : \A tr \in Outcomes(b, At(id)) : Lands(free, At(id)[1], tr)} :
            k \in {<<a, Target(At(id)[1], tr)>> : tr \in Outcomes(a, At(id))}
      BY DEF LoadSlots
    <3>2. PICK tr \in Outcomes(a, At(id)) : k = <<a, Target(At(id)[1], tr)>>
      BY <3>1
    <3>3. a \in Actions /\ Lands(free, At(id)[1], tr)
      BY <1>2, <3>1, <3>2
    <3>4. Target(At(id)[1], tr) \in GridStates
      BY <2>4, <3>2, <3>3, TargetFacts
    <3>5. QED
      BY <3>2, <3>3, <3>4
  <2> DEFINE d == worker[id].loads
             l == [x \in DOMAIN d \union {k} |-> IF x = k THEN value[k[2]] ELSE d[x]]
             w == [worker[id] EXCEPT !.loads = l]
  <2>6. d \in Loaded
    BY <1>3 DEF Workers
  <2>7. l \in Loaded
    <3> HIDE DEF d
    <3>1. DOMAIN d \in SUBSET (Actions \X GridStates) /\ d \in [DOMAIN d -> 0 .. TopCost]
      BY <2>6 DEF Loaded
    <3>2. value[k[2]] \in 0 .. TopCost
      BY <1>2, <2>5
    <3> DEFINE D == DOMAIN d \union {k}
    <3>3. D \in SUBSET (Actions \X GridStates)
      BY <2>5, <3>1
    <3>4. l \in [D -> 0 .. TopCost]
      BY <3>1, <3>2
    <3> HIDE DEF D, l
    <3>5. QED
      BY <3>3, <3>4 DEF Loaded
  <2>8. worker' = [worker EXCEPT ![id] = w]
    BY <2>2
  <2> HIDE DEF l
  <2>9. w \in Workers
    BY <1>3, <2>7, WorkerEdits
  <2> HIDE DEF w
  <2>10. ~panicked'
    BY <2>1, <2>3 DEF Sweeping
  <2>11. QED
    BY <1>2, <2>3, <2>8, <2>9, <2>10, WorkerStep
<1>6. CASE StoreCost(id)
  <2>1. Sweeping(id) /\ InRange(id)
    BY <1>6 DEF StoreCost
  <2>2. At(id) \in GridStates
    BY <1>1, <2>1, AtFacts
  <2> DEFINE l == worker[id].loads
             seen(a) == [t \in {k[2] : k \in {x \in DOMAIN l : x[1] = a}} |-> l[<<a, t>>]]
             best == Best({<<CostMod(free, seen(a), a, At(id), Word), a>> : a \in acts})
             b == worker[id].loud \/ AbsInt(best[1] - value[At(id)]) \div ProbBase > 0
             w == [worker[id] EXCEPT !.new = <<best[2]>>, !.loads = <<>>, !.loud = b]
  <2>3. /\ DOMAIN l = LoadSlots(At(id))
        /\ value' = [value EXCEPT ![At(id)] = best[1]]
        /\ worker' = [worker EXCEPT ![id].new = <<best[2]>>, ![id].loads = <<>>,
              ![id].loud = @ \/ AbsInt(best[1] - value[At(id)]) \div ProbBase > 0]
        /\ UNCHANGED <<fixed, shape, status, calls, reports, swept, crew>> /\ panicked' = panicked
        /\ act' = act
    BY <1>6 DEF StoreCost
  <2>4. l \in Loaded
    BY <1>3 DEF Workers
  <2>5. best[1] \in 0 .. TopCost /\ best[2] \in acts \union {NoAction}
    <3> HIDE DEF l
    <3>1. QED
      BY <1>2, <2>2, <2>3, <2>4, LoadsBest
  <2> HIDE DEF best
  <2>6. value' \in [GridStates -> 0 .. TopCost]
    BY <1>2, <2>2, <2>3, <2>5
  <2>7. b \in BOOLEAN /\ best[2] \in Actions \union {NoAction}
    BY <1>2, <1>3, <2>5 DEF Workers
  <2>8. worker' = [worker EXCEPT ![id] = w]
    BY <1>2, <2>3
  <2> HIDE DEF b
  <2>9. w \in Workers
    BY <1>3, <2>7, WorkerEdits
  <2> HIDE DEF w
  <2>10. ~panicked'
    BY <2>1, <2>3 DEF Sweeping
  <2>11. QED
    BY <1>2, <2>3, <2>6, <2>8, <2>9, <2>10, WorkerStep
<1>7. CASE StoreAction(id)
  <2>1. Sweeping(id) /\ worker[id].new # <<>>
    BY <1>7 DEF StoreAction
  <2> DEFINE w == [worker[id] EXCEPT !.new = <<>>, !.todo = Tail(@)]
  <2>2. /\ act' = [act EXCEPT ![At(id)] = worker[id].new[1]]
        /\ worker' = [worker EXCEPT ![id].new = <<>>, ![id].todo = Tail(@)]
        /\ UNCHANGED <<fixed, shape, status, calls, reports, swept, crew>> /\ panicked' = panicked
        /\ value' = value
    BY <1>7 DEF StoreAction
  <2>3. worker[id].new[1] \in Actions \union {NoAction}
    <3>1. worker[id].new \in {<<>>} \union {<<a>> : a \in Actions \union {NoAction}}
      BY <1>3 DEF Workers
    <3>2. QED
      BY <2>1, <3>1
  <2>4. act' \in [GridStates -> Actions \union {NoAction}]
    BY <1>2, <2>2, <2>3
  <2>5. w \in Workers
    BY <1>3, <2>1, WorkerEdits DEF Sweeping
  <2>6. worker' = [worker EXCEPT ![id] = w]
    BY <1>2, <2>2
  <2> HIDE DEF w
  <2>7. ~panicked'
    BY <2>1, <2>2 DEF Sweeping
  <2>8. QED
    BY <1>2, <2>2, <2>4, <2>5, <2>6, <2>7, WorkerStep
<1>8. CASE EndSweep(id)
  <2> DEFINE w == [Fresh(id) EXCEPT !.sweeps = worker[id].sweeps + 1]
  <2>1. /\ worker' = [worker EXCEPT ![id] = w] /\ ~panicked
        /\ UNCHANGED <<fixed, shape, status, calls, reports, swept, crew>> /\ panicked' = panicked
        /\ value' = value /\ act' = act
    BY <1>8 DEF EndSweep, table
  <2>2. worker[id].sweeps + 1 \in Nat \ {0}
    <3>1. worker[id].sweeps \in Nat \ {0}
      BY <1>3 DEF Workers
    <3>2. QED
      BY <3>1
  <2>3. w \in Workers
    BY <1>2, <1>3, <2>2, FreshTyped
  <2> HIDE DEF w
  <2>4. QED
    BY <1>2, <2>1, <2>3, WorkerStep
<1>9. CASE Panic(id)
  BY <1>9, PanicOut
<1>10. QED
  BY <1>4, <1>5, <1>6, <1>7, <1>8, <1>9 DEF Step

LEMMA ReturnKeeps ==
  ASSUME IterInv, Return
  PROVE  IterInv'
<1>1. IterTyped /\ Current
  BY DEF IterInv
<1>2. /\ UNCHANGED <<fixed, shape, status, calls>> /\ value' = value /\ act' = act
      /\ crew' = {} /\ worker' = <<>> /\ panicked' = panicked /\ ~panicked
      /\ swept' = swept \union Reporting
      /\ reports' = [id \in Reporting \union DOMAIN reports |->
                       IF id \in Reporting
                       THEN [sweeps |-> worker[id].sweeps, quiet |-> ~worker[id].loud]
                       ELSE reports[id]]
  BY DEF Return, table
<1>3. \A id \in Reporting : worker[id].sweeps \in Nat \ {0}
  BY <1>1 DEF Reporting, IterTyped, Workers
<1>4. Current'
  <2>1. ASSUME NEW id \in DOMAIN reports' PROVE id \in swept' /\ reports'[id].sweeps >= 1
    <3>1. CASE id \in Reporting
      BY <1>2, <1>3, <3>1
    <3>2. CASE id \notin Reporting
      BY <1>1, <1>2, <3>2 DEF Current
    <3>3. QED
      BY <3>1, <3>2
  <2>2. QED
    BY <2>1 DEF Current
<1>5. /\ value' \in [GridStates -> 0 .. TopCost]
      /\ act' \in [GridStates -> Actions \union {NoAction}]
  BY <1>1, <1>2, IterFacts
<1>6. DOMAIN worker' = crew' /\ crew' \subseteq Nat /\ \A id \in crew' : worker'[id] \in Workers
  BY <1>2
<1>7. QED
  BY <1>2, <1>4, <1>5, <1>6, RunningFrame

LEMMA StutterKeeps ==
  ASSUME IterInv, UNCHANGED iterVars
  PROVE  IterInv'
<1>1. /\ UNCHANGED <<fixed, shape, status, calls>> /\ value' = value /\ act' = act
      /\ crew' = crew /\ worker' = worker /\ panicked' = panicked
      /\ reports' = reports /\ swept' = swept
  BY DEF iterVars, table, sweep
<1>2. Current'
  BY <1>1 DEF IterInv, Current
<1>3. QED
  BY <1>1, <1>2, IterFacts, RunningFrame DEF IterInv, IterTyped, InBounds

LEMMA IterNextInv == IterInv /\ [IterNext]_iterVars => IterInv'
<1> SUFFICES ASSUME IterInv, [IterNext]_iterVars PROVE IterInv'
  OBVIOUS
<1>1. CASE Calls
  BY <1>1, CallKeeps
<1>2. CASE RunWorker \/ RunThreads
  BY <1>2, StartKeeps
<1>3. CASE Return
  BY <1>3, ReturnKeeps
<1>4. CASE \E id \in crew : Step(id)
  BY <1>4, StepKeeps
<1>5. CASE UNCHANGED iterVars
  BY <1>5, StutterKeeps
<1>6. QED
  BY <1>1, <1>2, <1>3, <1>4, <1>5 DEF IterNext, Running

\* What is reported of threads is made of what they counted themselves.
LEMMA ReportsKept ==
  ASSUME IterInv, ReportsTypeOK, [IterNext]_iterVars
  PROVE  ReportsTypeOK'
<1> DEFINE Reports == [sweeps : Nat \ {0}, quiet : BOOLEAN]
<1>1. /\ DOMAIN reports \subseteq Nat /\ swept \subseteq Nat
      /\ \A id \in DOMAIN reports : reports[id] \in Reports
      /\ job \in [times : Nat, stop : BOOLEAN] /\ panicked \in BOOLEAN
  BY DEF ReportsTypeOK
<1>2. IterTyped
  BY DEF IterInv
<1>3. CASE Calls
  <2>1. job' = job /\ panicked' = panicked
    BY <1>3 DEF Calls, SetMap, SetGoal, SetStatus, sweep
  <2>2. CASE SetGoal
    <3>1. reports' = <<>> /\ swept' = {}
      BY <2>2 DEF SetGoal, AfterGoal
    <3>2. QED
      BY <1>1, <2>1, <3>1 DEF ReportsTypeOK
  <2>3. CASE SetMap \/ SetStatus
    <3>1. reports' = reports /\ swept' = swept
      BY <2>3 DEF SetMap, SetStatus
    <3>2. QED
      BY <1>1, <2>1, <3>1 DEF ReportsTypeOK
  <2>4. QED
    BY <1>3, <2>2, <2>3 DEF Calls
<1>4. CASE RunWorker \/ RunThreads
  <2>1. \E n \in setup.times : job' = [times |-> n, stop |-> Ended]
    BY <1>4 DEF RunWorker, RunThreads, Start
  <2>2. job' \in [times : Nat, stop : BOOLEAN]
    <3>1. setup.times \subseteq Nat
      BY <1>2, IterFacts, SetupsAssumption
    <3>2. Ended \in BOOLEAN
      BY DEF Ended
    <3>3. QED
      BY <2>1, <3>1, <3>2
  <2>3. swept' = swept /\ panicked' = panicked /\ (reports' = reports \/ reports' = <<>>)
    BY <1>4 DEF RunWorker, RunThreads, Start
  <2>4. QED
    BY <1>1, <2>2, <2>3 DEF ReportsTypeOK
<1>5. CASE Return
  <2>1. Reporting \subseteq Nat /\ \A id \in Reporting : worker[id] \in Workers
    BY <1>2 DEF Reporting, IterTyped
  <2>2. \A id \in Reporting : [sweeps |-> worker[id].sweeps, quiet |-> ~worker[id].loud] \in Reports
    BY <2>1 DEF Workers
  <2>3. /\ reports' = [id \in Reporting \union DOMAIN reports |->
                        IF id \in Reporting
                        THEN [sweeps |-> worker[id].sweeps, quiet |-> ~worker[id].loud]
                        ELSE reports[id]]
        /\ swept' = swept \union Reporting /\ job' = [times |-> 0, stop |-> FALSE]
        /\ panicked' = panicked
    BY <1>5 DEF Return, NoJob
  <2>4. DOMAIN reports' \subseteq Nat /\ \A id \in DOMAIN reports' : reports'[id] \in Reports
    <3> HIDE DEF Reports
    <3>1. QED
      BY <1>1, <2>1, <2>2, <2>3
  <2>5. job' \in [times : Nat, stop : BOOLEAN] /\ swept' \subseteq Nat /\ panicked' \in BOOLEAN
    BY <1>1, <2>1, <2>3
  <2>6. QED
    BY <2>4, <2>5 DEF ReportsTypeOK
<1>6. CASE \E id \in crew : Step(id)
  <2>1. reports' = reports /\ swept' = swept /\ job' = job /\ panicked' \in BOOLEAN
    BY <1>1, <1>6 DEF Step, SweepAlone, Load, StoreCost, StoreAction, EndSweep, Panic, sweep
  <2>2. QED
    BY <1>1, <2>1 DEF ReportsTypeOK
<1>7. CASE UNCHANGED iterVars
  <2>1. reports' = reports /\ swept' = swept /\ job' = job /\ panicked' = panicked
    BY <1>7 DEF iterVars, sweep
  <2>2. QED
    BY <1>1, <2>1 DEF ReportsTypeOK
<1>8. QED
  BY <1>3, <1>4, <1>5, <1>6, <1>7 DEF IterNext, Running

\* The loads a thread holds are costs of states under actions.
LEMMA WorkersTyped == ASSUME NEW w \in Workers PROVE ThreadTypeOK(w)
<1>1. w.loads \in Loaded
  BY DEF Workers
<1>2. PICK D \in SUBSET (Actions \X GridStates) : w.loads \in [D -> 0 .. TopCost]
  BY <1>1 DEF Loaded
<1>3. DOMAIN w.loads \subseteq Actions \X GridStates /\ \A k \in DOMAIN w.loads : w.loads[k] \in 0 .. TopCost
  BY <1>2
<1>4. w \in [todo : Seq(Indices), sweeps : Nat \ {0}, loads : {w.loads},
             new : {<<>>} \union {<<a>> : a \in Actions \union {NoAction}}, loud : BOOLEAN]
  <2> DEFINE T == Seq(Indices)
             N == {<<>>} \union {<<a>> : a \in Actions \union {NoAction}}
  <2>1. w \in [todo : T, sweeps : Nat \ {0}, loads : Loaded, new : N, loud : BOOLEAN]
    BY DEF Workers
  <2> HIDE DEF T, N
  <2>2. w \in [todo : T, sweeps : Nat \ {0}, loads : {w.loads}, new : N, loud : BOOLEAN]
    BY <2>1
  <2>3. QED
    BY <2>2 DEF T, N
<1>5. QED
  BY <1>3, <1>4 DEF ThreadTypeOK

\* Whatever the racing threads load and store and in whatever order, the table
\* and the reports keep their types, what a thread still has to visit are indices
\* of the states that its order was made for, and what it has loaded are costs.
THEOREM IteratorTyped == IterSpec => []IterTypeOK
<1>1. IterInit => ReportsTypeOK
  <2> SUFFICES ASSUME IterInit PROVE ReportsTypeOK
    OBVIOUS
  <2>1. reports = <<>> /\ swept = {} /\ job = [times |-> 0, stop |-> FALSE] /\ panicked = FALSE
    BY DEF IterInit, NoJob
  <2>2. DOMAIN reports = {}
    BY <2>1
  <2>3. job \in [times : Nat, stop : BOOLEAN] /\ panicked \in BOOLEAN
    BY <2>1
  <2>4. QED
    BY <2>1, <2>2, <2>3 DEF ReportsTypeOK
<1>2. IterInv /\ ReportsTypeOK /\ [IterNext]_iterVars => ReportsTypeOK'
  BY ReportsKept
<1>3. IterInv /\ ReportsTypeOK => IterTypeOK
  BY WorkersTyped DEF IterInv, IterTyped, IterTypeOK
<1>4. QED
  BY <1>1, <1>2, <1>3, IterInitInv, IterNextInv, PTL DEF IterSpec

\* As long as the map keeps its size no sweep leaves the state vector, and a
\* thread that is reported finished has swept since the last set_goal.
THEOREM IteratorCalls == IterSpec => []CallsHold
<1>1. IterInv => CallsHold
  BY DEF IterInv, CallsHold, FinishedIsCurrent, Current
<1>2. QED
  BY <1>1, IterInitInv, IterNextInv, PTL DEF IterSpec
-----------------------------------------------------------------------------
(* Tables that are close to each other. *)

LEMMA SumLinear ==
  ASSUME NEW n \in Nat, NEW t \in [1 .. n -> Nat], NEW u \in [1 .. n -> Nat],
         NEW p \in [1 .. n -> Nat], NEW c \in Nat, \A i \in 1 .. n : t[i] <= u[i] + c * p[i]
  PROVE  SumOf(t) <= SumOf(u) + c * SumOf(p)
<1>1. PICK f \in [0 .. n -> Nat] :
        f[0] = 0 /\ (\A i \in 1 .. n : f[i] = f[i - 1] + t[i]) /\ SumOf(t) = f[n]
  BY SumUnfold
<1>2. PICK g \in [0 .. n -> Nat] :
        g[0] = 0 /\ (\A i \in 1 .. n : g[i] = g[i - 1] + u[i]) /\ SumOf(u) = g[n]
  BY SumUnfold
<1>3. PICK h \in [0 .. n -> Nat] :
        h[0] = 0 /\ (\A i \in 1 .. n : h[i] = h[i - 1] + p[i]) /\ SumOf(p) = h[n]
  BY SumUnfold
<1> DEFINE T == {k \in 0 .. n : ~(f[k] <= g[k] + c * h[k])}
<1>4. SUFFICES T = {}
  <2>1. n \in 0 .. n
    OBVIOUS
  <2>2. T = {} => f[n] <= g[n] + c * h[n]
    BY <2>1
  <2> HIDE DEF T
  <2>3. QED
    BY <1>1, <1>2, <1>3, <2>2
<1>5. SUFFICES ASSUME T # {} PROVE FALSE
  OBVIOUS
<1>6. T \in SUBSET Nat
  OBVIOUS
<1>7. PICK m \in T : \A k \in T : m <= k
  BY <1>5, <1>6, LeastOf
<1>8. m # 0
  <2>1. f[0] = 0 /\ g[0] = 0 /\ h[0] = 0 /\ 0 <= 0 + c * 0
    BY <1>1, <1>2, <1>3
  <2>2. QED
    BY <1>7, <2>1
<1>9. m \in 1 .. n /\ m - 1 \in 0 .. n /\ m - 1 \notin T
  BY <1>7, <1>8
<1>10. /\ f[m - 1] <= g[m - 1] + c * h[m - 1]
       /\ f[m - 1] \in Nat /\ g[m - 1] \in Nat /\ h[m - 1] \in Nat
       /\ t[m] \in Nat /\ u[m] \in Nat /\ p[m] \in Nat /\ t[m] <= u[m] + c * p[m]
  BY <1>9
<1>11. /\ f[m] = f[m - 1] + t[m] /\ g[m] = g[m - 1] + u[m] /\ h[m] = h[m - 1] + p[m]
  BY <1>1, <1>2, <1>3, <1>9
<1>12. f[m] <= g[m] + c * h[m]
  <2>1. \A x, y, z, k, l, r \in Nat :
          x <= y + c * z /\ k <= l + c * r => x + k <= (y + l) + c * (z + r)
    OBVIOUS
  <2>2. f[m - 1] + t[m] <= (g[m - 1] + u[m]) + c * (h[m - 1] + p[m])
    BY <1>10, <2>1
  <2>3. QED
    BY <1>11, <2>2
<1>13. QED
  BY <1>7, <1>12

LEMMA ZeroSum ==
  ASSUME NEW n \in Nat
  PROVE  SumOf([i \in 1 .. n |-> 0]) = 0
<1> DEFINE o == [i \in 1 .. n |-> 0]
           Z(f) == {k \in 0 .. n : f[k] # 0}
<1>1. PICK f \in [0 .. n -> Nat] :
        f[0] = 0 /\ (\A i \in 1 .. n : f[i] = f[i - 1] + o[i]) /\ SumOf(o) = f[n]
  <2>1. o \in [1 .. n -> Nat]
    OBVIOUS
  <2> HIDE DEF o
  <2>2. QED
    BY <2>1, SumUnfold
<1>2. ASSUME Z(f) # {} PROVE FALSE
  <2>1. Z(f) \in SUBSET Nat
    OBVIOUS
  <2>2. PICK m \in Z(f) : \A k \in Z(f) : m <= k
    BY <1>2, <2>1, LeastOf
  <2>3. m # 0
    BY <1>1, <2>2
  <2>4. m \in 1 .. n /\ m - 1 \in 0 .. n /\ m - 1 \notin Z(f)
    BY <2>2, <2>3
  <2>5. o[m] = 0 /\ f[m - 1] = 0
    BY <2>4
  <2>6. f[m] = 0
    BY <1>1, <2>4, <2>5
  <2>7. QED
    BY <2>2, <2>6
<1>3. n \in 0 .. n
  OBVIOUS
<1>4. f[n] = 0
  BY <1>2, <1>3
<1>5. QED
  BY <1>1, <1>4

\* Values that are at most c higher make a sum at most c * ProbBase higher, and
\* values below a bound keep it below the bound's share.
LEMMA WeightedNear ==
  ASSUME NEW s \in GridStates, NEW a \in Actions, Open(free, a, s),
         NEW v \in [GridStates -> Nat], NEW w \in [GridStates -> Nat], NEW c \in Nat
  PROVE  /\ (\A t \in Targets(a, s) : w[t] <= v[t] + c) =>
              Weighted(w, s[1], Trans[a][s[2]]) <= Weighted(v, s[1], Trans[a][s[2]]) + c * ProbBase
         /\ (\A t \in Targets(a, s) : w[t] + Penalty[t] <= c) =>
              Weighted(w, s[1], Trans[a][s[2]]) <= c * ProbBase
<1> DEFINE trs == Trans[a][s[2]]
           n == Len(trs)
           T(x) == [i \in 1 .. n |-> Term(x, s[1], trs[i])]
           p == [i \in 1 .. n |-> trs[i].prob]
           o == [i \in 1 .. n |-> 0]
<1>1. n \in Nat /\ \A i \in 1 .. n : trs[i] \in Outcomes(a, s) /\ trs[i].prob \in Nat
  BY OutcomeFacts
<1>2. ASSUME NEW i \in 1 .. n
      PROVE  /\ Target(s[1], trs[i]) \in GridStates /\ Target(s[1], trs[i]) \in Targets(a, s)
             /\ Penalty[Target(s[1], trs[i])] \in Nat
  <2>1. trs[i] \in Outcomes(a, s) /\ Lands(free, s[1], trs[i])
    BY <1>1 DEF Open
  <2>2. Target(s[1], trs[i]) \in GridStates
    BY <2>1, TargetFacts
  <2>3. QED
    BY <2>1, <2>2, RawAssumption DEF Targets
<1>3. ASSUME NEW x \in [GridStates -> Nat], NEW i \in 1 .. n
      PROVE  /\ T(x)[i] = (x[Target(s[1], trs[i])] + Penalty[Target(s[1], trs[i])]) * p[i]
             /\ T(x)[i] \in Nat /\ p[i] \in Nat
  <2> DEFINE t == Target(s[1], trs[i])
  <2>1. x[t] \in Nat /\ Penalty[t] \in Nat /\ p[i] \in Nat
    BY <1>1, <1>2
  <2>2. T(x)[i] = (x[t] + Penalty[t]) * p[i]
    BY DEF Term
  <2> HIDE DEF t, p, T
  <2>3. \A j, k, l \in Nat : (j + k) * l \in Nat
    OBVIOUS
  <2>4. T(x)[i] \in Nat
    BY <2>1, <2>2, <2>3
  <2>5. QED
    BY <2>1, <2>2, <2>4 DEF t
<1>4. /\ T(v) \in [1 .. n -> Nat] /\ T(w) \in [1 .. n -> Nat]
      /\ p \in [1 .. n -> Nat] /\ o \in [1 .. n -> Nat]
  BY <1>1, <1>3
<1>5. Weighted(v, s[1], trs) = SumOf(T(v)) /\ Weighted(w, s[1], trs) = SumOf(T(w))
  BY DEF Weighted
<1>6. SumOf(p) <= ProbBase /\ SumOf(p) \in Nat /\ ProbBase \in Nat
  <2>1. s[2] \in 0 .. NTheta - 1
    BY DEF GridStates
  <2>2. SumOf(p) <= ProbBase
    BY <2>1, SumsAssumption
  <2> HIDE DEF p
  <2>3. SumOf(p) \in Nat
    BY <1>1, <1>4, SumFacts
  <2>4. QED
    BY <2>2, <2>3, RawAssumption
<1>7. c * SumOf(p) <= c * ProbBase /\ c * SumOf(p) \in Nat /\ c * ProbBase \in Nat
  <2> DEFINE x == SumOf(p)
  <2>1. x \in Nat /\ ProbBase \in Nat /\ x <= ProbBase
    BY <1>6
  <2> HIDE DEF x
  <2>2. \A i, j, k \in Nat : i <= j => k * i <= k * j /\ k * i \in Nat /\ k * j \in Nat
    OBVIOUS
  <2>3. c * x <= c * ProbBase /\ c * x \in Nat /\ c * ProbBase \in Nat
    BY <2>1, <2>2
  <2>4. QED
    BY <2>3 DEF x
<1>8. SumOf(o) = 0
  BY <1>1, ZeroSum
<1>9. ASSUME \A t \in Targets(a, s) : w[t] <= v[t] + c
      PROVE  SumOf(T(w)) <= SumOf(T(v)) + c * ProbBase
  <2>1. ASSUME NEW i \in 1 .. n PROVE T(w)[i] <= T(v)[i] + c * p[i]
    <3> DEFINE t == Target(s[1], trs[i])
    <3>1. /\ w[t] \in Nat /\ v[t] \in Nat /\ Penalty[t] \in Nat /\ p[i] \in Nat /\ w[t] <= v[t] + c
      BY <1>2, <1>3, <1>9
    <3>2. T(w)[i] = (w[t] + Penalty[t]) * p[i] /\ T(v)[i] = (v[t] + Penalty[t]) * p[i]
      BY <1>3
    <3> HIDE DEF t, p, T
    <3>3. \A x, y, z, q \in Nat : x <= y + c => (x + z) * q <= (y + z) * q + c * q
      <4>1. \A x, y, z, q \in Nat : x <= y + c => (x + z) * q <= (y + c + z) * q
        OBVIOUS
      <4>2. \A x, y, z, q \in Nat : (y + c + z) * q = (y + z) * q + c * q
        OBVIOUS
      <4>3. QED
        BY <4>1, <4>2
    <3>4. QED
      BY <3>1, <3>2, <3>3
  <2> HIDE DEF T, p
  <2>2. SumOf(T(w)) <= SumOf(T(v)) + c * SumOf(p)
    BY <1>1, <1>4, <2>1, SumLinear
  <2>3. SumOf(T(w)) \in Nat /\ SumOf(T(v)) \in Nat
    BY <1>1, <1>4, SumFacts
  <2>4. QED
    BY <1>7, <2>2, <2>3
<1>10. ASSUME \A t \in Targets(a, s) : w[t] + Penalty[t] <= c
       PROVE  SumOf(T(w)) <= c * ProbBase
  <2>1. ASSUME NEW i \in 1 .. n PROVE T(w)[i] <= o[i] + c * p[i]
    <3> DEFINE t == Target(s[1], trs[i])
    <3>1. w[t] \in Nat /\ Penalty[t] \in Nat /\ p[i] \in Nat /\ w[t] + Penalty[t] <= c
      BY <1>2, <1>3, <1>10
    <3>2. T(w)[i] = (w[t] + Penalty[t]) * p[i] /\ o[i] = 0
      BY <1>3
    <3> HIDE DEF t, p, T, o
    <3>3. \A x, z, q \in Nat : x + z <= c => (x + z) * q <= 0 + c * q
      OBVIOUS
    <3>4. QED
      BY <3>1, <3>2, <3>3
  <2> HIDE DEF T, p, o
  <2>2. SumOf(T(w)) <= SumOf(o) + c * SumOf(p)
    BY <1>1, <1>4, <2>1, SumLinear
  <2>3. SumOf(T(w)) \in Nat
    BY <1>1, <1>4, SumFacts
  <2>4. QED
    BY <1>7, <1>8, <2>2, <2>3
<1> HIDE DEF T
<1>11. QED
  BY <1>5, <1>9, <1>10
-----------------------------------------------------------------------------
\* Two tables that are within c of each other where action a leads.
NearAt(v, w, a, s, c) ==
  Open(free, a, s) => \A t \in Targets(a, s) : v[t] < Reach /\ w[t] <= v[t] + c /\ v[t] <= w[t] + c

LEMMA CostNear ==
  ASSUME NEW s \in GridStates, NEW a \in Actions,
         NEW v \in [GridStates -> Nat], NEW w \in [GridStates -> Nat],
         NEW c \in Nat, c <= 2 * ProbBase, NearAt(v, w, a, s, c)
  PROVE  CostIn(w, a, s) <= CostIn(v, a, s) + c /\ CostIn(v, a, s) <= CostIn(w, a, s) + c
<1> DEFINE V == Weighted(v, s[1], Trans[a][s[2]])
           W == Weighted(w, s[1], Trans[a][s[2]])
           P == ProbBase
           m == (Word - 1) \div P
<1>1. P \in Nat \ {0} /\ Word \in Nat \ {0} /\ Reach \in Nat /\ TopCost \in Nat
  BY RawAssumption
<1>2. CASE ~Open(free, a, s)
  <2>1. CostIn(v, a, s) = TopCost /\ CostIn(w, a, s) = TopCost
    BY <1>2 DEF CostIn, CostMod, Open
  <2>2. QED
    BY <1>1, <2>1
<1>3. CASE Open(free, a, s)
  <2>1. V \in Nat /\ W \in Nat
    BY <1>3, WeightedFacts
  <2>2. m \in Nat /\ m * P <= Word - 1 /\ \A x \in Nat : x * P < Word => x <= m
    <3> DEFINE k == Word - 1
               d == k \div P
               r == k % P
    <3>1. k \in Nat
      BY <1>1
    <3>2. d \in Nat /\ r \in 0 .. P - 1 /\ k = P * d + r
      <4> HIDE DEF k, P
      <4>1. QED
        BY <1>1, <3>1, DivMod
    <3>3. ASSUME NEW x \in Nat, x * P < Word PROVE x <= d
      <4>1. P * x <= k /\ P * x \in Nat
        BY <1>1, <3>3
      <4>2. (P * x) \div P = x
        <5>1. 0 < P /\ P * x + 0 = P * x
          BY <1>1, <4>1
        <5> HIDE DEF P
        <5>2. (P * x + 0) \div P = x
          BY <1>1, <5>1, PairIndex
        <5>3. QED
          BY <5>1, <5>2
      <4> DEFINE y == P * x
      <4>3. y \div P <= k \div P
        <5>1. y \in Nat /\ y <= k
          BY <4>1
        <5> HIDE DEF y, k, P
        <5>2. QED
          BY <1>1, <3>1, <5>1, DivMonotone
      <4>4. QED
        BY <4>2, <4>3
    <3>4. d * P <= k
      <4> DEFINE e == P * d
      <4>1. d * P = e /\ e \in Nat /\ r \in Nat /\ k = e + r
        BY <1>1, <3>2
      <4> HIDE DEF e, k, r, d, P
      <4>2. QED
        BY <4>1
    <3>5. QED
      BY <3>2, <3>3, <3>4
  <2> HIDE DEF m
  <2>3. \A t \in Targets(a, s) : t \in GridStates /\ Penalty[t] \in Nat
    <3>1. SUFFICES ASSUME NEW tr \in Outcomes(a, s)
                   PROVE  Target(s[1], tr) \in GridStates
      BY RawAssumption DEF Targets
    <3>2. QED
      BY <1>3, TargetFacts DEF Open
  <2>4. ASSUME NEW t \in Targets(a, s)
        PROVE  v[t] + Penalty[t] <= m /\ w[t] + Penalty[t] <= m
    <3> DEFINE x == Reach + 2 * ProbBase + Penalty[t]
    <3>1. x * ProbBase < Word /\ Penalty[t] \in Nat /\ v[t] \in Nat /\ w[t] \in Nat
      BY <2>3, SumsAssumption
    <3>2. x \in Nat
      BY <1>1, <3>1
    <3>3. x <= m
      <4> HIDE DEF x
      <4>1. QED
        BY <2>2, <3>1, <3>2
    <3>4. v[t] < Reach /\ w[t] <= v[t] + c
      BY <1>3 DEF NearAt
    <3>5. v[t] + Penalty[t] <= x /\ w[t] + Penalty[t] <= x
      BY <1>1, <3>1, <3>4
    <3> HIDE DEF x
    <3>6. QED
      BY <2>2, <3>1, <3>2, <3>3, <3>5
  <2>5. V <= m * ProbBase /\ W <= m * ProbBase
    BY <1>3, <2>2, <2>4, WeightedNear
  <2>6. V < Word /\ W < Word
    <3> DEFINE x == m * ProbBase
    <3>1. x <= Word - 1 /\ x \in Nat /\ V <= x /\ W <= x
      BY <1>1, <2>2, <2>5
    <3> HIDE DEF x, V, W
    <3>2. QED
      BY <1>1, <2>1, <3>1
  <2>7. W <= V + c * ProbBase /\ V <= W + c * ProbBase
    <3>1. \A t \in Targets(a, s) : w[t] <= v[t] + c /\ v[t] <= w[t] + c
      BY <1>3 DEF NearAt
    <3>2. QED
      BY <1>3, <3>1, WeightedNear
  <2>8. CostIn(v, a, s) = V \div ProbBase /\ CostIn(w, a, s) = W \div ProbBase
    BY <1>3, <2>6, CostFacts
  <2> HIDE DEF V, W
  <2>9. ASSUME NEW x \in Nat, NEW y \in Nat, y <= x + c * ProbBase
        PROVE  y \div ProbBase <= (x \div ProbBase) + c
    <3>1. ProbBase \in Nat \ {0}
      BY <1>1
    <3>2. x + ProbBase * c \in Nat /\ y <= x + ProbBase * c
      BY <1>1, <2>9
    <3> DEFINE z == x + ProbBase * c
    <3>3. z \div ProbBase = (x \div ProbBase) + c
      BY <3>1, DivShift
    <3>4. y \div ProbBase <= z \div ProbBase
      <4>1. z \in Nat /\ y <= z
        BY <3>2
      <4> HIDE DEF z
      <4>2. QED
        BY <3>1, <4>1, DivMonotone
    <3>5. QED
      BY <3>3, <3>4
  <2>10. QED
    BY <2>1, <2>7, <2>8, <2>9
<1>4. QED
  BY <1>2, <1>3

LEMMA BestNear ==
  ASSUME NEW s \in GridStates, acts \subseteq Actions,
         NEW v \in [GridStates -> Nat], NEW w \in [GridStates -> Nat],
         NEW c \in Nat, \A a \in acts : CostIn(w, a, s) <= CostIn(v, a, s) + c
  PROVE  BestIn(w, s)[1] <= BestIn(v, s)[1] + c
<1> DEFINE x == BestIn(v, s)[1]
           y == BestIn(w, s)[1]
           b == BestIn(v, s)[2]
<1>1. /\ x \in 0 .. TopCost /\ y \in 0 .. TopCost /\ TopCost \in Nat
      /\ x < TopCost => b \in acts /\ x = CostIn(v, b, s)
      /\ \A a \in acts : y < CostIn(w, a, s) \/ y = CostIn(w, a, s)
  BY BestInFacts, RawAssumption
<1> HIDE DEF x, y, b
<1>2. \A a \in acts : CostIn(w, a, s) \in Nat /\ CostIn(v, a, s) \in Nat
  BY CostFacts
<1>3. CASE x < TopCost
  <2>1. y < CostIn(w, b, s) \/ y = CostIn(w, b, s)
    BY <1>1, <1>3
  <2>2. CostIn(w, b, s) <= x + c /\ CostIn(w, b, s) \in Nat
    BY <1>1, <1>2, <1>3
  <2>3. y <= x + c
    BY <1>1, <2>1, <2>2
  <2>4. QED
    BY <2>3 DEF x, y
<1>4. CASE x = TopCost
  <2>1. y <= x + c
    BY <1>1, <1>4
  <2>2. QED
    BY <2>1 DEF x, y
<1>5. QED
  BY <1>1, <1>3, <1>4
-----------------------------------------------------------------------------
(* How far a sweep can move a value. *)

\* A sequence of values that changes only at the steps in V, each time by at
\* most d, is within d of where it was if it changed at most once since.
LEMMA NoChange ==
  ASSUME NEW n \in Nat, NEW g \in [0 .. n -> Nat], NEW V \in SUBSET (1 .. n),
         \A k \in (1 .. n) \ V : g[k] = g[k - 1],
         NEW a \in 0 .. n, NEW b \in 0 .. n, a <= b, \A k \in V : ~(a < k /\ k <= b)
  PROVE  g[b] = g[a]
<1> DEFINE T == {k \in a .. b : g[k] # g[a]}
<1>1. SUFFICES ASSUME T # {} PROVE FALSE
  <2>1. b \in a .. b
    OBVIOUS
  <2>2. T = {} => g[b] = g[a]
    BY <2>1
  <2> HIDE DEF T
  <2>3. QED
    BY <2>2
<1>2. T \in SUBSET Nat
  OBVIOUS
<1>3. PICK m \in T : \A k \in T : m <= k
  BY <1>1, <1>2, LeastOf
<1>4. m \in a .. b /\ g[m] # g[a]
  OBVIOUS
<1>5. m # a
  BY <1>4
<1>6. m - 1 \in a .. b /\ m \in (1 .. n) \ V
  BY <1>4, <1>5
<1>7. m - 1 \notin T
  BY <1>3, <1>4
<1>8. g[m - 1] = g[a]
  BY <1>6, <1>7
<1>9. g[m] = g[m - 1]
  BY <1>6
<1>10. QED
  BY <1>4, <1>8, <1>9

Within(x, y, d) == x <= y + d /\ y <= x + d

LEMMA WithinFacts ==
  ASSUME NEW x \in Nat, NEW y \in Nat, NEW d \in Nat
  PROVE  AbsInt(x - y) <= d <=> Within(x, y, d)
BY DEF AbsInt, Within

LEMMA OneChange ==
  ASSUME NEW n \in Nat, NEW g \in [0 .. n -> Nat], NEW V \in SUBSET (1 .. n), NEW d \in Nat,
         \A k \in (1 .. n) \ V : g[k] = g[k - 1],
         \A k \in V : Within(g[k], g[k - 1], d),
         NEW a \in 0 .. n, NEW b \in 0 .. n, a <= b,
         \A j, k \in V : a < j /\ j <= b /\ a < k /\ k <= b => j = k
  PROVE  Within(g[b], g[a], d)
<1>1. g[a] \in Nat /\ g[b] \in Nat
  OBVIOUS
<1>2. CASE \A k \in V : ~(a < k /\ k <= b)
  <2>1. g[b] = g[a]
    BY <1>2, NoChange
  <2>2. QED
    BY <1>1, <2>1 DEF Within
<1>3. ASSUME NEW k \in V, a < k, k <= b PROVE Within(g[b], g[a], d)
  <2>1. k - 1 \in 0 .. n /\ k \in 0 .. n /\ a <= k - 1 /\ k \in Nat
    BY <1>3
  <2>2. g[k - 1] = g[a]
    <3>1. \A j \in V : ~(a < j /\ j <= k - 1)
      <4>1. SUFFICES ASSUME NEW j \in V, a < j, j <= k - 1 PROVE FALSE
        OBVIOUS
      <4>2. j \in Nat /\ j <= b
        BY <1>3, <2>1, <4>1
      <4>3. j = k
        BY <1>3, <4>1, <4>2
      <4>4. QED
        BY <2>1, <4>1, <4>3
    <3>2. QED
      BY <2>1, <3>1, NoChange
  <2>3. g[b] = g[k]
    <3>1. \A j \in V : ~(k < j /\ j <= b)
      <4>1. SUFFICES ASSUME NEW j \in V, k < j, j <= b PROVE FALSE
        OBVIOUS
      <4>2. j \in Nat /\ a < j
        BY <1>3, <2>1, <4>1
      <4>3. j = k
        BY <1>3, <4>1, <4>2
      <4>4. QED
        BY <2>1, <4>1, <4>3
    <3>2. QED
      BY <1>3, <2>1, <3>1, NoChange
  <2>4. QED
    BY <2>2, <2>3
<1>4. QED
  BY <1>2, <1>3
-----------------------------------------------------------------------------
\* What workers 0 to 4 visit falls into two parts without repetitions, the
\* second one empty but for worker 4.
LEMMA VisitParts ==
  ASSUME ordered \in Sizes, NEW id \in 0 .. 4
  PROVE  \E p \in 0 .. Len(Visits(id)) :
           /\ \A j, k \in 1 .. p : Visits(id)[j] = Visits(id)[k] => j = k
           /\ \A j, k \in p + 1 .. Len(Visits(id)) : Visits(id)[j] = Visits(id)[k] => j = k
           /\ id # 4 => p = Len(Visits(id))
<1> DEFINE o == SweepOrders(ordered)
           e == o[(id % 6) + 1]
           S == {i \in Nat : i >= CellCount(size) \/ Updatable(Cell(i))}
           q == Visits(id)
           l == Len(q)
           rows == ByRows(ordered)
           cols == SecondHalf(ByCols(ordered))
<1>1. q = Sublist(e, S)
  BY DEF Visits
<1>2. id % 6 = id /\ id + 1 \in 1 .. 5
  OBVIOUS
<1>3. /\ e \in Seq(0 .. CellCount(ordered) - 1)
      /\ id # 4 => Once(e)
      /\ id = 4 => e = rows \o cols
      /\ Once(rows) /\ Once(cols)
      /\ rows \in Seq(0 .. CellCount(ordered) - 1) /\ cols \in Seq(0 .. CellCount(ordered) - 1)
  <2>1. e = o[id + 1] /\ id + 1 \in 1 .. 6 /\ (id # 4 => id + 1 \in 1 .. 4)
    BY <1>2
  <2>2. ByRows(ordered) \in Seq(0 .. CellCount(ordered) - 1) /\ ByCols(ordered) \in Seq(0 .. CellCount(ordered) - 1)
    BY RowsFacts, ColsFacts DEF Lists
  <2>3. cols \in Seq(0 .. CellCount(ordered) - 1)
    BY <2>2, HalfFacts
  <2>4. /\ \A j \in 1 .. 6 : o[j] \in Seq(0 .. CellCount(ordered) - 1)
        /\ \A j \in 1 .. 4 : Once(o[j])
        /\ o[5] = rows \o cols /\ Once(rows) /\ Once(cols)
    BY OrderFacts
  <2> HIDE DEF o, rows, cols
  <2>5. e \in Seq(0 .. CellCount(ordered) - 1) /\ (id # 4 => Once(e))
    <3>1. o[id + 1] \in Seq(0 .. CellCount(ordered) - 1) /\ (id # 4 => Once(o[id + 1]))
      BY <2>1, <2>4
    <3>2. e = o[id + 1]
      BY <2>1
    <3> HIDE DEF e
    <3>3. QED
      BY <3>1, <3>2
  <2>6. id = 4 => e = rows \o cols
    <3>1. id = 4 => e = o[5]
      BY <2>1
    <3> HIDE DEF e
    <3>2. QED
      BY <2>4, <3>1
  <2>7. rows \in Seq(0 .. CellCount(ordered) - 1)
    BY <2>2 DEF rows
  <2>8. QED
    BY <2>3, <2>4, <2>5, <2>6, <2>7
<1> HIDE DEF o, e, S, q, rows, cols
<1>4. PICK m \in Nat : Len(e) = m
  BY <1>3
<1>5. PICK F \in [1 .. l -> 1 .. m] :
        /\ \A j \in 1 .. l : q[j] = e[F[j]]
        /\ \A j, k \in 1 .. l : j < k => F[j] < F[k]
  BY <1>1, <1>4, SublistOrder
<1>6. l \in Nat
  <2>1. q \in Seq(Indices)
    BY VisitsIn DEF q
  <2>2. QED
    BY <2>1
<1> HIDE DEF l
<1>7. \A j, k \in 1 .. l : F[j] = F[k] => j = k
  <2>1. SUFFICES ASSUME NEW j \in 1 .. l, NEW k \in 1 .. l, F[j] = F[k] PROVE j = k
    OBVIOUS
  <2>2. j \in Nat /\ k \in Nat /\ F[j] \in 1 .. m /\ F[k] \in 1 .. m
    BY <1>6
  <2>3. ~(j < k) /\ ~(k < j)
    BY <1>5, <2>1, <2>2
  <2>4. QED
    BY <2>2, <2>3
<1>8. CASE id # 4
  <2>1. \A j, k \in 1 .. l : q[j] = q[k] => j = k
    <3>1. \A i, j \in 1 .. m : e[i] = e[j] => i = j
      BY <1>3, <1>4, <1>8 DEF Once
    <3>2. \A j \in 1 .. l : F[j] \in 1 .. m /\ q[j] = e[F[j]]
      BY <1>5
    <3>3. QED
      BY <1>7, <3>1, <3>2
  <2>2. l \in 0 .. l /\ l + 1 .. l = {}
    BY <1>6
  <2>3. QED
    BY <2>1, <2>2 DEF l, q
<1>9. CASE id = 4
  <2> DEFINE r == Len(rows)
             h == Len(cols)
             J == {j \in 1 .. l : F[j] <= r}
  <2>1. /\ r \in Nat /\ h \in Nat /\ m = r + h
        /\ \A i \in 1 .. r : e[i] = rows[i]
        /\ \A i \in 1 .. m : r < i => e[i] = cols[i - r] /\ i - r \in 1 .. h
    <3> DEFINE I == 0 .. CellCount(ordered) - 1
    <3>1. rows \in Seq(I) /\ cols \in Seq(I) /\ e = rows \o cols /\ Len(e) = m
      BY <1>3, <1>4, <1>9
    <3> HIDE DEF I
    <3>2. r \in Nat /\ h \in Nat /\ Len(rows \o cols) = r + h
      BY <3>1
    <3>3. \A i \in 1 .. r + h : (rows \o cols)[i] = IF i <= r THEN rows[i] ELSE cols[i - r]
      BY <3>1
    <3> HIDE DEF r, h
    <3>4. QED
      BY <3>1, <3>2, <3>3
  <2> HIDE DEF r, h
  <2>2. \A j, k \in 1 .. l : F[j] <= r /\ F[k] <= r /\ q[j] = q[k] => j = k
    <3>1. SUFFICES ASSUME NEW j \in 1 .. l, NEW k \in 1 .. l, F[j] <= r, F[k] <= r, q[j] = q[k]
                   PROVE  j = k
      OBVIOUS
    <3>2. F[j] \in 1 .. r /\ F[k] \in 1 .. r
      BY <1>4, <2>1, <3>1
    <3>3. rows[F[j]] = rows[F[k]]
      BY <1>5, <2>1, <3>1, <3>2
    <3>4. F[j] = F[k]
      BY <1>3, <3>2, <3>3 DEF Once, r
    <3>5. QED
      BY <1>7, <3>4
  <2>3. \A j, k \in 1 .. l : r < F[j] /\ r < F[k] /\ q[j] = q[k] => j = k
    <3>1. SUFFICES ASSUME NEW j \in 1 .. l, NEW k \in 1 .. l, r < F[j], r < F[k], q[j] = q[k]
                   PROVE  j = k
      OBVIOUS
    <3>2. F[j] \in 1 .. m /\ F[k] \in 1 .. m /\ F[j] - r \in 1 .. h /\ F[k] - r \in 1 .. h
      BY <2>1, <3>1
    <3>3. cols[F[j] - r] = cols[F[k] - r]
      BY <1>5, <2>1, <3>1, <3>2
    <3>4. F[j] - r = F[k] - r
      BY <1>3, <3>2, <3>3 DEF Once, h
    <3>5. F[j] = F[k]
      BY <2>1, <3>2, <3>4
    <3>6. QED
      BY <1>7, <3>5
  <2>4. PICK p \in 0 .. l : \A j \in 1 .. l : (j <= p => F[j] <= r) /\ (p < j => r < F[j])
    <3>1. CASE J = {}
      <4>1. 0 \in 0 .. l /\ \A j \in 1 .. l : ~(j <= 0) /\ ~(F[j] <= r) /\ F[j] \in Nat
        BY <1>4, <1>6, <3>1
      <4>2. \A j \in 1 .. l : r < F[j]
        BY <2>1, <4>1
      <4>3. QED
        BY <4>1, <4>2
    <3>2. CASE J # {}
      <4>1. J \in SUBSET (0 .. l)
        BY <1>6
      <4>2. PICK p \in J : \A j \in J : j <= p
        <5> HIDE DEF J
        <5>1. QED
          BY <1>6, <3>2, <4>1, GreatestOf
      <4>3. p \in 1 .. l /\ F[p] <= r /\ p \in 0 .. l /\ F[p] \in Nat
        BY <1>4, <1>6, <4>2
      <4>4. ASSUME NEW j \in 1 .. l PROVE (j <= p => F[j] <= r) /\ (p < j => r < F[j])
        <5>1. F[j] \in Nat /\ j \in Nat /\ p \in Nat
          BY <1>4, <1>6, <4>3
        <5>2. j < p => F[j] < F[p]
          BY <1>5, <4>3
        <5>3. p < j => j \notin J
          BY <4>2, <5>1
        <5>4. p < j => ~(F[j] <= r)
          BY <5>3
        <5>5. QED
          BY <2>1, <4>3, <5>1, <5>2, <5>4
      <4>5. QED
        BY <4>3, <4>4
    <3>3. QED
      BY <3>1, <3>2
  <2>5. \A j, k \in 1 .. p : q[j] = q[k] => j = k
    <3>1. \A j \in 1 .. p : j \in 1 .. l /\ j <= p
      BY <1>6
    <3>2. QED
      BY <2>2, <2>4, <3>1
  <2>6. \A j, k \in p + 1 .. l : q[j] = q[k] => j = k
    <3>1. \A j \in p + 1 .. l : j \in 1 .. l /\ p < j
      BY <1>6
    <3>2. QED
      BY <2>3, <2>4, <3>1
  <2>7. QED
    BY <1>9, <2>5, <2>6 DEF l, q
<1>10. QED
  BY <1>8, <1>9

\* They visit every state that can be updated, if the orders fit the map.
LEMMA VisitsAll ==
  ASSUME ordered \in Sizes, ordered = size, free \subseteq MapCols(size), NEW id \in 0 .. 4,
         NEW s \in GridStates, Updatable(s)
  PROVE  \E k \in 1 .. Len(Visits(id)) : Cell(Visits(id)[k]) = s
<1> DEFINE e == SweepOrders(ordered)[(id % 6) + 1]
           S == {i \in Nat : i >= CellCount(size) \/ Updatable(Cell(i))}
           n == CellCount(ordered)
<1>1. PICK i \in 0 .. CellCount(size) - 1 : Cell(i) = s
  <2>1. s[1] \in MapCols(size)
    BY DEF Updatable
  <2>2. QED
    BY <2>1, CellFacts
<1>2. Lists(e, n)
  <2>1. id % 6 = id /\ id + 1 \in 1 .. 5
    OBVIOUS
  <2>2. QED
    BY <2>1, OrderFacts
<1>3. i \in S
  <2>1. CellCount(size) \in Nat
    BY CountFacts
  <2>2. i \in Nat
    BY <2>1
  <2>3. QED
    BY <1>1, <2>2
<1> HIDE DEF e, S
<1>4. e \in Seq(0 .. n - 1) /\ \E k \in 1 .. Len(e) : e[k] = i
  BY <1>1, <1>2 DEF Lists
<1>5. Len(e) \in Nat
  <2> DEFINE I == 0 .. n - 1
  <2>1. e \in Seq(I)
    BY <1>4
  <2> HIDE DEF I
  <2>2. QED
    BY <2>1
<1>6. \A k \in 1 .. Len(e) : e[k] \in S => \E j \in 1 .. Len(Sublist(e, S)) : Sublist(e, S)[j] = e[k]
  BY <1>5, SublistHas
<1>7. Visits(id) = Sublist(e, S)
  BY DEF Visits, e, S
<1>8. QED
  BY <1>1, <1>3, <1>4, <1>6, <1>7
-----------------------------------------------------------------------------
\* The states that f, the loop of a sweep over q, has passed through: a state
\* is written where q names it, and no change exceeds the last delta.
LEMMA RunFacts ==
  ASSUME acts \subseteq Actions, NEW n \in Nat, NEW q, NEW f \in [0 .. n -> Runs],
         \A k \in 1 .. n : Cell(q[k]) \in GridStates,
         \A k \in 1 .. n : f[k] = VisitAlone(f[k - 1], q[k])
  PROVE  /\ f[n].delta \in Nat
         /\ \A k \in 0 .. n : f[k].value \in [GridStates -> 0 .. TopCost]
         /\ \A k \in 1 .. n, u \in GridStates :
              /\ Cell(q[k]) # u => f[k].value[u] = f[k - 1].value[u]
              /\ Cell(q[k]) = u => /\ f[k].value[u] = BestIn(f[k - 1].value, u)[1]
                                   /\ Within(f[k].value[u], f[k - 1].value[u], f[n].delta)
<1> DEFINE d == f[n].delta
<1>1. \A k \in 0 .. n : f[k] \in Runs /\ f[k].delta \in Nat /\ f[k].value \in [GridStates -> 0 .. TopCost]
  BY DEF Runs
<1>2. n \in 0 .. n /\ TopCost \in Nat
  BY RawAssumption
<1>3. \A k \in 1 .. n : k \in 0 .. n /\ k - 1 \in 0 .. n
  OBVIOUS
<1>4. ASSUME NEW k \in 1 .. n
      PROVE  /\ f[k].value = [f[k - 1].value EXCEPT ![Cell(q[k])] = BestIn(f[k - 1].value, Cell(q[k]))[1]]
             /\ f[k - 1].delta <= f[k].delta
             /\ AbsInt(f[k].value[Cell(q[k])] - f[k - 1].value[Cell(q[k])]) <= f[k].delta
  <2> DEFINE r == f[k - 1]
             i == q[k]
  <2>1. r \in Runs /\ Cell(i) \in GridStates /\ f[k] = VisitAlone(r, i)
    BY <1>1, <1>3
  <2> DEFINE x == f[k]
  <2> HIDE DEF r, i, x
  <2>2. LET y == VisitAlone(r, i)
        IN  /\ y.value = [r.value EXCEPT ![Cell(i)] = BestIn(r.value, Cell(i))[1]]
            /\ r.delta <= y.delta /\ AbsInt(y.value[Cell(i)] - r.value[Cell(i)]) <= y.delta
    BY <2>1, VisitFacts, ZenonT(40)
  <2>3. x = VisitAlone(r, i)
    BY <2>1 DEF x
  <2>4. /\ x.value = [r.value EXCEPT ![Cell(i)] = BestIn(r.value, Cell(i))[1]]
        /\ r.delta <= x.delta /\ AbsInt(x.value[Cell(i)] - r.value[Cell(i)]) <= x.delta
    BY <2>2, <2>3
  <2>5. QED
    BY <2>4 DEF r, i, x
<1>5. \A k \in 0 .. n : f[k].delta <= d
  <2> DEFINE T == {k \in 0 .. n : ~(f[k].delta <= d)}
  <2>1. SUFFICES ASSUME T # {} PROVE FALSE
    OBVIOUS
  <2>2. T \in SUBSET (0 .. n)
    OBVIOUS
  <2>3. PICK m \in T : \A k \in T : k <= m
    <3> HIDE DEF T
    <3>1. QED
      BY <2>1, <2>2, GreatestOf
  <2>4. m # n
    BY <1>1, <1>2, <2>3
  <2>5. m + 1 \in 1 .. n /\ m + 1 \in 0 .. n /\ (m + 1) - 1 = m /\ m \in 0 .. n
    BY <2>3, <2>4
  <2>6. m + 1 \notin T
    BY <2>3, <2>5
  <2>7. f[m + 1].delta <= d /\ f[m].delta <= f[m + 1].delta
    BY <1>4, <2>5, <2>6
  <2>8. f[m].delta \in Nat /\ f[m + 1].delta \in Nat /\ d \in Nat
    BY <1>1, <1>2, <2>5
  <2> HIDE DEF d
  <2>9. f[m].delta <= d
    BY <2>7, <2>8
  <2>10. QED
    BY <2>3, <2>9
<1>6. ASSUME NEW k \in 1 .. n, NEW u \in GridStates
      PROVE  /\ Cell(q[k]) # u => f[k].value[u] = f[k - 1].value[u]
             /\ Cell(q[k]) = u => /\ f[k].value[u] = BestIn(f[k - 1].value, u)[1]
                                  /\ Within(f[k].value[u], f[k - 1].value[u], d)
  <2>1. f[k - 1].value \in [GridStates -> 0 .. TopCost] /\ f[k].value \in [GridStates -> 0 .. TopCost]
    BY <1>1, <1>3
  <2>2. Cell(q[k]) # u => f[k].value[u] = f[k - 1].value[u]
    BY <1>4, <2>1
  <2>3. ASSUME Cell(q[k]) = u
        PROVE  /\ f[k].value[u] = BestIn(f[k - 1].value, u)[1]
               /\ Within(f[k].value[u], f[k - 1].value[u], d)
    <3> DEFINE x == f[k].value[u]
               y == f[k - 1].value[u]
               e == f[k].delta
    <3>1. x = BestIn(f[k - 1].value, u)[1] /\ AbsInt(x - y) <= e
      BY <1>4, <2>1, <2>3
    <3>2. x \in Nat /\ y \in Nat /\ e \in Nat /\ d \in Nat /\ e <= d
      BY <1>1, <1>2, <1>3, <1>5, <2>1
    <3> HIDE DEF x, y, e, d
    <3>3. AbsInt(x - y) \in Nat
      <4>1. x - y \in Int
        BY <3>2
      <4>2. QED
        BY <4>1, AbsFacts
    <3>4. AbsInt(x - y) <= d
      BY <3>1, <3>2, <3>3
    <3>5. Within(x, y, d)
      BY <3>2, <3>4, WithinFacts
    <3>6. QED
      BY <3>1, <3>5 DEF x, y
  <2>4. QED
    BY <2>2, <2>3
<1>7. QED
  BY <1>1, <1>2, <1>6

\* A sweep of workers 0 to 4 with small changes ends near a fixed point.
LEMMA SweptNear ==
  ASSUME IterTyped, ordered = size, NEW id \in 0 .. 4,
         ~(Swept(Visits(id)).delta \div ProbBase > 0),
         NEW s \in GridStates, Updatable(s),
         \A x \in LoadSlots(s) : Swept(Visits(id)).value[x[2]] < Reach
  PROVE  AbsInt(BestIn(Swept(Visits(id)).value, s)[1] - Swept(Visits(id)).value[s])
           < Passes(id) * ProbBase
<1> DEFINE q == Visits(id)
           r == [value |-> value, act |-> act, delta |-> 0]
           P == ProbBase
           K == Passes(id)
<1>1. /\ size \in Sizes /\ ordered \in Sizes /\ acts \subseteq Actions /\ free \subseteq MapCols(size)
      /\ value \in [GridStates -> 0 .. TopCost] /\ act \in [GridStates -> Actions \union {NoAction}]
      /\ P \in Nat \ {0} /\ TopCost \in Nat /\ K \in {1, 2} /\ (id # 4 => K = 1) /\ (id = 4 => K = 2)
  BY IterFacts, RawAssumption DEF IterTyped, MapTypeOK, Passes
<1>2. q \in Seq(Indices)
  <2>1. id \in Nat
    OBVIOUS
  <2>2. QED
    BY <1>1, <2>1, VisitsIn
<1>3. PICK n \in Nat : Len(q) = n
  BY <1>2
<1>4. \A k \in 1 .. n : q[k] \in 0 .. CellCount(size) - 1 /\ Cell(q[k]) \in GridStates
  <2>1. \A k \in 1 .. n : q[k] \in Indices
    <3> HIDE DEF q
    <3>1. QED
      BY <1>2, <1>3
  <2>2. QED
    BY <1>1, <2>1, CellFacts DEF Indices
<1>5. r \in Runs
  BY <1>1 DEF Runs
<1> HIDE DEF q, K
<1>6. PICK f \in [0 .. n -> Runs] :
        (\A k \in 1 .. n : f[k] = VisitAlone(f[k - 1], q[k])) /\ Swept(q) = f[n]
  <2>1. \A k \in 1 .. n : Cell(q[k]) \in GridStates
    BY <1>4
  <2>2. r = [value |-> value, act |-> act, delta |-> 0]
    OBVIOUS
  <2> HIDE DEF r
  <2>3. \E f \in [0 .. n -> Runs] :
          /\ f[0] = r /\ \A k \in 1 .. n : f[k] = VisitAlone(f[k - 1], q[k])
          /\ Swept(q) = f[n]
    <3>1. acts \subseteq Actions
      BY <1>1
    <3>2. QED
      BY <1>3, <1>5, <2>1, <2>2, <3>1, SweptUnfold, ZenonT(40)
  <2>4. QED
    BY <2>3
<1> DEFINE d == f[n].delta
           v == f[n].value
           val(k, u) == f[k].value[u]
           V(u) == {k \in 1 .. n : Cell(q[k]) = u}
           c == K * d
<1>7. /\ d \in Nat
      /\ \A k \in 0 .. n : f[k].value \in [GridStates -> 0 .. TopCost]
      /\ \A k \in 1 .. n, u \in GridStates :
           /\ Cell(q[k]) # u => val(k, u) = val(k - 1, u)
           /\ Cell(q[k]) = u => /\ val(k, u) = BestIn(f[k - 1].value, u)[1]
                                /\ Within(val(k, u), val(k - 1, u), d)
  <2>1. acts \subseteq Actions
    BY <1>1
  <2>2. \A k \in 1 .. n : Cell(q[k]) \in GridStates
    BY <1>4
  <2>3. \A k \in 1 .. n : f[k] = VisitAlone(f[k - 1], q[k])
    BY <1>6
  <2> HIDE DEF r
  <2>4. QED
    BY <2>1, <2>2, <2>3, RunFacts, ZenonT(40)
<1>8. \A k \in 0 .. n, u \in GridStates : val(k, u) \in Nat
  BY <1>1, <1>7
<1>9. v \in [GridStates -> Nat] /\ \A k \in 0 .. n : f[k].value \in [GridStates -> Nat]
  BY <1>1, <1>7
<1>10. ~(d \div P > 0)
  BY <1>6 DEF q
<1> HIDE DEF d, val
<1>11. d < P
  <2>1. d \div P \in Nat /\ d % P \in 0 .. P - 1 /\ d = P * (d \div P) + (d % P)
    BY <1>1, <1>7, DivMod
  <2>2. d \div P = 0
    BY <1>10, <2>1
  <2>3. QED
    BY <1>1, <2>1, <2>2
<1>12. c \in Nat /\ d <= c /\ c <= 2 * P /\ c < K * P /\ (K = 2 => c = d + d)
  <2>1. K = 1 \/ K = 2
    BY <1>1
  <2>2. QED
    BY <1>1, <1>7, <1>11, <2>1
<1>13. PICK p \in 0 .. n :
         /\ \A j, k \in 1 .. p : q[j] = q[k] => j = k
         /\ \A j, k \in p + 1 .. n : q[j] = q[k] => j = k
         /\ id # 4 => p = n
  BY <1>1, <1>3, VisitParts DEF q
<1>14. \A j, k \in 1 .. n : Cell(q[j]) = Cell(q[k]) => q[j] = q[k]
  BY <1>1, <1>4, CellFacts
<1>15. ASSUME NEW u \in GridStates, NEW a \in 0 .. n, NEW b \in 0 .. n, a <= b, b <= p \/ p <= a
       PROVE  Within(val(b, u), val(a, u), d)
  <2> DEFINE g == [k \in 0 .. n |-> val(k, u)]
  <2>1. g \in [0 .. n -> Nat] /\ V(u) \in SUBSET (1 .. n)
    BY <1>8
  <2>2. \A k \in (1 .. n) \ V(u) : g[k] = g[k - 1]
    BY <1>7
  <2>3. \A k \in V(u) : Within(g[k], g[k - 1], d)
    BY <1>7
  <2>4. ASSUME NEW j \in V(u), NEW k \in V(u), a < j, j <= b, a < k, k <= b PROVE j = k
    <3>1. q[j] = q[k]
      BY <1>14
    <3>2. (j \in 1 .. p /\ k \in 1 .. p) \/ (j \in p + 1 .. n /\ k \in p + 1 .. n)
      BY <1>15, <2>4
    <3>3. QED
      BY <1>13, <3>1, <3>2
  <2>5. g[a] = val(a, u) /\ g[b] = val(b, u)
    OBVIOUS
  <2> HIDE DEF g, V
  <2>6. Within(g[b], g[a], d)
    BY <1>7, <1>15, <2>1, <2>2, <2>3, <2>4, OneChange
  <2>7. QED
    BY <2>5, <2>6
<1>16. ASSUME NEW u \in GridStates, NEW a \in 0 .. n PROVE Within(val(n, u), val(a, u), c)
  <2>1. n \in 0 .. n /\ a <= n /\ a \in Nat /\ p \in Nat /\ p <= n
    OBVIOUS
  <2> DEFINE x == val(n, u)
             y == val(a, u)
             z == val(p, u)
  <2>2. x \in Nat /\ y \in Nat /\ z \in Nat
    BY <1>8, <2>1
  <2> HIDE DEF x, y, z, c
  <2>3. CASE p <= a \/ p = n
    <3>1. Within(x, y, d)
      BY <1>15, <2>1, <2>3 DEF x, y
    <3>2. Within(x, y, c)
      BY <1>7, <1>12, <2>2, <3>1 DEF Within
    <3>3. QED
      BY <3>2 DEF x, y
  <2>4. CASE a < p /\ p # n
    <3>1. Within(x, z, d)
      BY <1>15, <2>1 DEF x, z
    <3>2. Within(z, y, d)
      BY <1>15, <2>1, <2>4 DEF y, z
    <3>3. c = d + d
      BY <1>1, <1>12, <1>13, <2>4
    <3>4. Within(x, y, c)
      BY <1>7, <2>2, <3>1, <3>2, <3>3 DEF Within
    <3>5. QED
      BY <3>4 DEF x, y
  <2>5. QED
    BY <2>1, <2>3, <2>4
<1>17. PICK m \in V(s) : \A k \in V(s) : k <= m
  <2>1. V(s) # {}
    BY <1>1, <1>3, VisitsAll DEF q
  <2>2. V(s) \in SUBSET (0 .. n)
    OBVIOUS
  <2> HIDE DEF V
  <2>3. QED
    BY <2>1, <2>2, GreatestOf
<1>18. m \in 1 .. n /\ m - 1 \in 0 .. n /\ m \in 0 .. n /\ Cell(q[m]) = s
  OBVIOUS
<1> DEFINE w == f[m - 1].value
<1>19. v[s] = BestIn(w, s)[1]
  <2> DEFINE g == [k \in 0 .. n |-> val(k, s)]
  <2>1. g \in [0 .. n -> Nat] /\ V(s) \in SUBSET (1 .. n)
    BY <1>8
  <2>2. \A k \in (1 .. n) \ V(s) : g[k] = g[k - 1]
    BY <1>7
  <2>3. \A k \in V(s) : ~(m < k /\ k <= n)
    BY <1>17, <1>18
  <2>4. n \in 0 .. n /\ m <= n
    BY <1>18
  <2>5. g[n] = val(n, s) /\ g[m] = val(m, s)
    BY <1>18, <2>4
  <2> HIDE DEF g, V
  <2>6. g[n] = g[m]
    BY <1>18, <2>1, <2>2, <2>3, <2>4, NoChange
  <2>7. val(m, s) = BestIn(w, s)[1]
    BY <1>7, <1>18
  <2>8. QED
    BY <2>5, <2>6, <2>7 DEF val
<1>20. w \in [GridStates -> Nat] /\ \A u \in GridStates : Within(v[u], w[u], c)
  <2>1. \A u \in GridStates : v[u] = val(n, u) /\ w[u] = val(m - 1, u)
    BY DEF val
  <2> HIDE DEF c, v, w
  <2>2. w \in [GridStates -> Nat]
    BY <1>9, <1>18 DEF w
  <2>3. QED
    BY <1>16, <1>18, <2>1, <2>2
<1> HIDE DEF v, w, c
<1>21. ASSUME NEW a \in acts
       PROVE  NearAt(v, w, a, s, c)
  <2>1. SUFFICES ASSUME Open(free, a, s), NEW t \in Targets(a, s)
                 PROVE  v[t] < Reach /\ w[t] <= v[t] + c /\ v[t] <= w[t] + c
    BY DEF NearAt
  <2>2. PICK tr \in Outcomes(a, s) : t = Target(s[1], tr)
    BY DEF Targets
  <2>3. t \in GridStates
    BY <1>1, <2>1, <2>2, TargetFacts DEF Open
  <2>4. <<a, t>> \in LoadSlots(s)
    <3>1. a \in {b \in acts : \A o \in Outcomes(b, s) : Lands(free, s[1], o)}
      BY <2>1 DEF Open
    <3>2. QED
      BY <2>2, <3>1 DEF LoadSlots
  <2>5. \A x \in LoadSlots(s) : v[x[2]] < Reach
    BY <1>6 DEF q, v
  <2> DEFINE e == <<a, t>>
  <2>6. v[e[2]] < Reach
    <3>1. e \in LoadSlots(s)
      BY <2>4
    <3> HIDE DEF e
    <3>2. QED
      BY <2>5, <3>1
  <2>7. v[t] < Reach
    BY <2>6
  <2>8. QED
    BY <1>20, <2>3, <2>7 DEF Within
<1>22. ASSUME NEW a \in acts
       PROVE  CostIn(w, a, s) <= CostIn(v, a, s) + c /\ CostIn(v, a, s) <= CostIn(w, a, s) + c
  <2>1. a \in Actions
    BY <1>1
  <2>2. QED
    BY <1>9, <1>12, <1>20, <1>21, <2>1, CostNear
<1>23. BestIn(w, s)[1] <= BestIn(v, s)[1] + c
  BY <1>1, <1>9, <1>12, <1>20, <1>22, BestNear
<1>24. BestIn(v, s)[1] <= BestIn(w, s)[1] + c
  BY <1>1, <1>9, <1>12, <1>20, <1>22, BestNear
<1>25. BestIn(v, s)[1] \in Nat /\ BestIn(w, s)[1] \in Nat
  <2>1. BestIn(v, s)[1] \in 0 .. TopCost /\ BestIn(w, s)[1] \in 0 .. TopCost
    BY <1>1, <1>9, <1>20, BestInFacts
  <2>2. QED
    BY <1>1, <2>1
<1>26. AbsInt(BestIn(v, s)[1] - v[s]) < K * P
  <2> DEFINE x == BestIn(v, s)[1]
             y == BestIn(w, s)[1]
             b == K * P
  <2>1. x \in Nat /\ y \in Nat /\ c \in Nat /\ Within(x, y, c) /\ c < b /\ b \in Nat
    BY <1>1, <1>12, <1>23, <1>24, <1>25 DEF Within
  <2>2. v[s] = y
    BY <1>19
  <2> HIDE DEF x, y, b
  <2>3. AbsInt(x - y) <= c /\ AbsInt(x - y) \in Nat
    <3>1. x - y \in Int
      BY <2>1
    <3>2. AbsInt(x - y) \in Nat
      BY <3>1, AbsFacts
    <3>3. QED
      BY <2>1, <3>2, WithinFacts
  <2>4. AbsInt(x - y) < b
    BY <2>1, <2>3
  <2>5. QED
    BY <2>2, <2>4 DEF x, b
<1>27. QED
  BY <1>6, <1>26 DEF v, q, K
-----------------------------------------------------------------------------
\* A thread that is alone has begun its sweep or ended it, and if it ended it
\* with a delta of 0 the table is near a fixed point.
Calm ==
  \A id \in crew : crew = {id} =>
    /\ worker[id].new = <<>> /\ worker[id].todo \in {<<>>, Visits(id)}
    /\ id \in 0 .. 4 /\ ordered = size /\ worker[id].todo = <<>> /\ ~worker[id].loud =>
         NearFixed(Passes(id))

\* NearFixed in terms of a table v.
NearIn(v, k) ==
  \A s \in GridStates : Updatable(s) =>
    ((\A x \in LoadSlots(s) : v[x[2]] < Reach) => AbsInt(BestIn(v, s)[1] - v[s]) < k * ProbBase)

LEMMA SlotsIn ==
  ASSUME acts \subseteq Actions, NEW s \in GridStates
  PROVE  LoadSlots(s) \subseteq Actions \X GridStates
<1> SUFFICES ASSUME NEW k \in LoadSlots(s) PROVE k \in Actions \X GridStates
  OBVIOUS
<1>1. PICK a \in {b \in acts : \A tr \in Outcomes(b, s) : Lands(free, s[1], tr)} :
        k \in {<<a, Target(s[1], tr)>> : tr \in Outcomes(a, s)}
  BY DEF LoadSlots
<1>2. PICK tr \in Outcomes(a, s) : k = <<a, Target(s[1], tr)>>
  BY <1>1
<1>3. a \in Actions /\ Lands(free, s[1], tr)
  BY <1>1, <1>2
<1>4. Target(s[1], tr) \in GridStates
  BY <1>2, <1>3, TargetFacts
<1>5. QED
  BY <1>2, <1>3, <1>4

LEMMA NearNow ==
  ASSUME acts \subseteq Actions, value \in [GridStates -> 0 .. TopCost], NEW k \in {1, 2}, NearIn(value, k)
  PROVE  NearFixed(k)
<1> SUFFICES ASSUME NEW s \in GridStates, Updatable(s)
             PROVE  AbsInt(Backed(s) - value[s]) < k * ProbBase
  BY DEF NearFixed
<1>1. value[s] \in Nat /\ k * ProbBase > 0 /\ Reach \in Nat
  <2>1. ProbBase \in Nat \ {0} /\ TopCost \in Nat /\ Reach \in Nat
    BY RawAssumption
  <2>2. k * ProbBase > 0
    BY <2>1
  <2>3. QED
    BY <2>1, <2>2
<1>2. CASE \E x \in LoadSlots(s) : value[x[2]] >= Reach
  <2>1. Backed(s) = value[s]
    BY <1>2 DEF Backed
  <2>2. AbsInt(value[s] - value[s]) = 0
    BY <1>1 DEF AbsInt
  <2>3. QED
    BY <1>1, <2>1, <2>2
<1>3. CASE ~\E x \in LoadSlots(s) : value[x[2]] >= Reach
  <2>1. Backed(s) = BestIn(value, s)[1]
    BY <1>3, NowFacts DEF Backed
  <2>2. \A x \in LoadSlots(s) : value[x[2]] < Reach
    <3>1. SUFFICES ASSUME NEW x \in LoadSlots(s) PROVE value[x[2]] < Reach
      OBVIOUS
    <3>2. x[2] \in GridStates
      BY SlotsIn
    <3>3. value[x[2]] \in Nat
      BY <3>2
    <3>4. QED
      BY <1>1, <1>3, <3>3
  <2>3. QED
    BY <2>1, <2>2 DEF NearIn
<1>4. QED
  BY <1>2, <1>3

LEMMA NearNext == (acts \subseteq Actions /\ value \in [GridStates -> 0 .. TopCost]
                   => \A k \in {1, 2} : NearIn(value, k) => NearFixed(k))'
<1>1. acts \subseteq Actions /\ value \in [GridStates -> 0 .. TopCost]
      => \A k \in {1, 2} : NearIn(value, k) => NearFixed(k)
  BY NearNow
<1>2. QED
  BY <1>1, PTL

\* What the threads visit does not change while they run.
LEMMA ShapeStays ==
  ASSUME UNCHANGED <<free, goal, size, ordered>>
  PROVE  /\ \A id : Visits(id)' = Visits(id)
         /\ \A s : Updatable(s)' = Updatable(s)
<1>1. \A s : Updatable(s)' = Updatable(s)
  BY DEF Updatable
<1>2. \A i : Cell(i)' = Cell(i)
  BY DEF Cell
<1>3. \A i : Updatable(Cell(i))' = Updatable(Cell(i))
  BY <1>1, <1>2 DEF Updatable
<1>4. ASSUME NEW id PROVE Visits(id)' = Visits(id)
  BY <1>3 DEF Visits
<1>5. QED
  BY <1>1, <1>4

LEMMA SlotsStay ==
  ASSUME UNCHANGED <<free, acts>>
  PROVE  \A s : LoadSlots(s)' = LoadSlots(s)
BY DEF LoadSlots

\* BestIn of a table that is given does not change either.
LEMMA NearStays ==
  ASSUME UNCHANGED <<free, goal, acts>>
  PROVE  \A k : NearIn(value, k)' = NearIn(value', k)
<1>1. \A s : Updatable(s)' = Updatable(s)
  BY DEF Updatable
<1>2. \A s : LoadSlots(s)' = LoadSlots(s)
  BY SlotsStay
<1>3. \A s : BestIn(value, s)' = BestIn(value', s)
  BY DEF BestIn, CostIn
<1>4. QED
  BY <1>1, <1>2, <1>3 DEF NearIn

LEMMA NearKept ==
  ASSUME UNCHANGED <<free, goal, acts, value>>
  PROVE  \A k : NearFixed(k)' = NearFixed(k)
<1>1. \A s : Updatable(s)' = Updatable(s)
  BY DEF Updatable
<1>2. \A s : LoadSlots(s)' = LoadSlots(s)
  BY SlotsStay
<1>3. \A s : BestRaw(s)' = BestRaw(s)
  <2>1. \A s : BestRaw(s)' = BestIn(value', s)
    BY NextFacts DEF maze
  <2>2. QED
    BY <2>1, NowFacts
<1>4. \A s : Backed(s)' = Backed(s)
  BY <1>2, <1>3 DEF Backed
<1>5. QED
  BY <1>1, <1>4 DEF NearFixed

\* A thread that has just been started, or starts another sweep, is calm: if
\* there is nothing to visit there is nothing to back up.
LEMMA FreshCalm ==
  ASSUME IterTyped, UNCHANGED <<shape, acts, value>>, NEW id \in crew', crew' = {id},
         worker'[id].todo = Visits(id), worker'[id].new = <<>>
  PROVE  Calm'
<1>1. free' = free /\ goal' = goal /\ size' = size /\ ordered' = ordered /\ acts' = acts /\ value' = value
  BY DEF shape
<1>2. Visits(id)' = Visits(id)
  BY <1>1, ShapeStays
<1>3. ASSUME id \in 0 .. 4, ordered = size, Visits(id) = <<>> PROVE NearFixed(Passes(id))
  <2>1. ordered \in Sizes /\ free \subseteq MapCols(size)
    BY IterFacts DEF IterTyped, MapTypeOK
  <2>2. ~\E s \in GridStates : Updatable(s)
    <3>1. SUFFICES ASSUME NEW s \in GridStates, Updatable(s) PROVE FALSE
      OBVIOUS
    <3>2. PICK k \in 1 .. Len(Visits(id)) : TRUE
      BY <1>3, <2>1, <3>1, VisitsAll
    <3>3. QED
      BY <1>3, <3>2
  <2>3. QED
    BY <2>2 DEF NearFixed
<1>4. Passes(id)' = Passes(id)
  BY DEF Passes
<1>5. id \in 0 .. 4 /\ ordered = size /\ Visits(id) = <<>> => NearFixed(Passes(id))'
  BY <1>1, <1>3, <1>4, NearKept
<1>6. QED
  BY <1>1, <1>2, <1>5 DEF Calm

LEMMA StepCalm ==
  ASSUME IterInv, Calm, NEW i \in crew, Step(i)
  PROVE  Calm'
<1>1. UNCHANGED <<fixed, shape, crew>>
  BY DEF Step, SweepAlone, Load, StoreCost, StoreAction, EndSweep, Panic, sweep
<1>2. free' = free /\ goal' = goal /\ size' = size /\ ordered' = ordered /\ acts' = acts /\ crew' = crew
  BY <1>1 DEF fixed, shape
<1>3. IterTyped
  BY DEF IterInv
<1>4. SUFFICES ASSUME crew = {i} PROVE Calm'
  <2>1. ASSUME NEW id \in crew', crew' = {id} PROVE id = i
    BY <1>2, <2>1
  <2>2. crew # {i} => Calm'
    BY <1>2, <2>1 DEF Calm
  <2>3. QED
    BY <1>4, <2>2
<1>5. DOMAIN worker = crew /\ worker[i] \in Workers /\ worker[i].new = <<>>
      /\ worker[i].todo \in {<<>>, Visits(i)}
  BY <1>3, <1>4, IterFacts DEF Calm, IterTyped
<1>6. CASE SweepAlone(i)
  <2> DEFINE q == worker[i].todo
             t == Swept(q)
             b == t.delta \div ProbBase > 0
  <2>1. /\ Sweeping(i) /\ value' = t.value
        /\ worker' = [worker EXCEPT ![i].todo = <<>>, ![i].loud = b]
    BY <1>6 DEF SweepAlone
  <2>2. q = Visits(i)
    BY <1>5, <2>1 DEF Sweeping
  <2>3. /\ worker'[i].todo = <<>> /\ worker'[i].loud = b /\ worker'[i].new = <<>>
    <3> HIDE DEF b
    <3>1. \A w \in Workers : [w EXCEPT !.todo = <<>>, !.loud = b].new = w.new
                             /\ [w EXCEPT !.todo = <<>>, !.loud = b].todo = <<>>
                             /\ [w EXCEPT !.todo = <<>>, !.loud = b].loud = b
      BY DEF Workers
    <3>2. worker'[i] = [worker[i] EXCEPT !.todo = <<>>, !.loud = b]
      BY <1>5, <2>1
    <3>3. QED
      BY <1>5, <3>1, <3>2
  <2>4. ASSUME i \in 0 .. 4, ordered = size, ~b PROVE NearFixed(Passes(i))'
    <3> DEFINE k == Passes(i)
               v == Swept(Visits(i)).value
    <3>1. \A s \in GridStates : Updatable(s) =>
            ((\A x \in LoadSlots(s) : v[x[2]] < Reach) => AbsInt(BestIn(v, s)[1] - v[s]) < k * ProbBase)
      BY <1>3, <2>2, <2>4, SweptNear
    <3>2. value' = v
      BY <2>1, <2>2
    <3> HIDE DEF v, q, t
    <3>3. NearIn(value', k)
      BY <3>1, <3>2 DEF NearIn
    <3>4. NearIn(value, k)'
      <4>1. Passes(i)' = Passes(i)
        BY DEF Passes
      <4>2. QED
        BY <1>2, <3>3, <4>1, NearStays
    <3>5. k \in {1, 2}
      BY DEF Passes
    <3> HIDE DEF k
    <3>6. (acts \subseteq Actions /\ value \in [GridStates -> 0 .. TopCost])'
      <4>1. IterInv'
        BY StepKeeps
      <4>2. IterTyped'
        BY <4>1 DEF IterInv
      <4>3. acts \subseteq Actions
        BY <1>3, IterFacts
      <4>4. QED
        BY <1>2, <4>2, <4>3 DEF IterTyped, MapTypeOK
    <3>7. NearFixed(k)'
      BY <3>4, <3>5, <3>6, NearNext DEF k, Passes
    <3>8. QED
      BY <3>7 DEF k, Passes
  <2>5. Passes(i)' = Passes(i)
    BY DEF Passes
  <2> HIDE DEF b
  <2>6. QED
    BY <1>2, <1>4, <2>3, <2>4, <2>5 DEF Calm
<1>7. CASE EndSweep(i)
  <2>1. worker' = [worker EXCEPT ![i] = [Fresh(i) EXCEPT !.sweeps = worker[i].sweeps + 1]] /\ value' = value
    BY <1>7 DEF EndSweep, table
  <2>2. Fresh(i) \in Workers /\ Fresh(i).todo = Visits(i) /\ Fresh(i).new = <<>>
    BY <1>3, IterFacts, FreshTyped DEF Fresh, IterTyped
  <2>3. worker'[i].todo = Visits(i) /\ worker'[i].new = <<>>
    <3>1. \A n : \A w \in Workers : [w EXCEPT !.sweeps = n].new = w.new /\ [w EXCEPT !.sweeps = n].todo = w.todo
      BY DEF Workers
    <3>2. worker'[i] = [Fresh(i) EXCEPT !.sweeps = worker[i].sweeps + 1]
      BY <1>5, <2>1
    <3>3. QED
      BY <2>2, <3>1, <3>2
  <2>4. QED
    BY <1>1, <1>2, <1>3, <1>4, <2>1, <2>3, FreshCalm
<1>8. CASE Panic(i)
  <2>1. worker' = worker /\ value' = value
    BY <1>8 DEF Panic, table, sweep
  <2>2. Visits(i)' = Visits(i) /\ NearFixed(Passes(i))' = NearFixed(Passes(i))
    <3>1. Passes(i)' = Passes(i)
      BY DEF Passes
    <3>2. QED
      BY <1>2, <2>1, <3>1, ShapeStays, NearKept
  <2>3. QED
    BY <1>2, <1>4, <2>1, <2>2 DEF Calm
<1>9. ~(Load(i) \/ StoreCost(i) \/ StoreAction(i))
  BY <1>4, <1>5 DEF Load, StoreCost, StoreAction, Racing
<1>10. QED
  BY <1>6, <1>7, <1>8, <1>9 DEF Step

LEMMA CalmKept ==
  ASSUME IterInv, Calm, [IterNext]_iterVars
  PROVE  Calm'
<1>1. IterTyped
  BY DEF IterInv
<1>2. CASE Calls
  <2>1. crew' = {}
    BY <1>2 DEF Calls, SetMap, SetGoal, SetStatus, SetCancel, SetCalculated, PosToAction, Idle, sweep
  <2>2. QED
    BY <2>1 DEF Calm
<1>3. CASE RunWorker
  <2>1. PICK id \in setup.workers : Start({id}) /\ UNCHANGED reports
    BY <1>3 DEF RunWorker
  <2>2. /\ UNCHANGED <<fixed, shape>> /\ value' = value /\ crew' = {id}
        /\ worker' = [j \in {id} |-> Fresh(j)]
    BY <2>1 DEF Start, table
  <2>3. acts' = acts
    BY <2>2 DEF fixed
  <2>4. worker'[id].todo = Visits(id) /\ worker'[id].new = <<>>
    BY <2>2 DEF Fresh
  <2>5. QED
    BY <1>1, <2>2, <2>3, <2>4, FreshCalm
<1>4. CASE RunThreads
  <2>1. crew' = 0 .. setup.threads - 1 /\ setup.threads > 1
    BY <1>4 DEF RunThreads, Start
  <2>2. setup.threads \in Nat
    BY <1>1, IterFacts
  <2>3. 0 \in crew' /\ 1 \in crew'
    BY <2>1, <2>2
  <2>4. ~\E id \in crew' : crew' = {id}
    BY <2>3
  <2>5. QED
    BY <2>4 DEF Calm
<1>5. CASE Return
  <2>1. crew' = {}
    BY <1>5 DEF Return
  <2>2. QED
    BY <2>1 DEF Calm
<1>6. CASE \E i \in crew : Step(i)
  BY <1>6, StepCalm
<1>7. CASE UNCHANGED iterVars
  <2>1. /\ crew' = crew /\ worker' = worker /\ value' = value /\ free' = free /\ goal' = goal
        /\ size' = size /\ ordered' = ordered /\ acts' = acts
    BY <1>7 DEF iterVars, fixed, table, shape, sweep
  <2>2. \A id : Visits(id)' = Visits(id)
    BY <2>1, ShapeStays
  <2>3. \A id : NearFixed(Passes(id))' = NearFixed(Passes(id))
    <3>1. \A k : NearFixed(k)' = NearFixed(k)
      BY <2>1, NearKept
    <3>2. QED
      BY <3>1 DEF Passes
  <2>4. QED
    BY <2>1, <2>2, <2>3 DEF Calm
<1>8. QED
  BY <1>2, <1>3, <1>4, <1>5, <1>6, <1>7 DEF IterNext, Running

LEMMA ReturnNear ==
  ASSUME Calm, [IterNext]_iterVars
  PROVE  [\A id \in 0 .. 4 :
            (Return /\ crew = {id} /\ ordered = size /\ ~worker[id].loud) =>
               NearFixed(Passes(id))]_iterVars
<1>1. ASSUME NEW id \in 0 .. 4, Return, crew = {id}, ordered = size, ~worker[id].loud
      PROVE  NearFixed(Passes(id))
  <2>1. worker[id].todo = <<>>
    BY <1>1 DEF Return
  <2>2. QED
    BY <1>1, <2>1 DEF Calm
<1>2. QED
  BY <1>1

\* When a thread that swept alone returns a delta of 0, every backup of states
\* that are reached is within PROB_BASE of the table, or within twice as much
\* after worker 4, whatever the map, the penalties and the transitions.
THEOREM QuietReturn == IterSpec => QuietIsNear
<1>1. IterInit => Calm
  BY DEF IterInit, Calm
<1>2. QED
  BY <1>1, IterInitInv, IterNextInv, CalmKept, ReturnNear, PTL DEF IterSpec, QuietIsNear
-----------------------------------------------------------------------------
(* The window of a local planner. *)

CONSTANTS XYRange, HitReach, HitPenalty, Robots, Scans, CallCap, LoopCap
VARIABLES window, local, centred, loops

L == INSTANCE LocalVi

\* The window is four numbers, and it lies in the map once it has followed the
\* robot.
LocalInv ==
  /\ DOMAIN window = 1 .. 4 /\ \A i \in 1 .. 4 : window[i] \in Int
  /\ L!WindowInMap

\* A window that lies in the map has no column that does not exist.
LEMMA WindowExists ==
  ASSUME L!WindowCols \subseteq L!GridCols, NEW c \in L!WindowCols
  PROVE  L!Exists(c)
<1>1. c \in L!GridCols /\ NX \in Nat \ {0} /\ NY \in Nat \ {0}
  BY GeomAssumption
<1>2. PICK x \in 0 .. NX - 1, y \in 0 .. NY - 1 : c = <<x, y>>
  BY <1>1 DEF L!GridCols
<1>3. x + NX * y \in 0 .. NX * NY - 1
  <2>1. PICK n \in Nat : NY = y + 1 + n
    <3>1. NY - y - 1 \in Nat /\ NY = y + 1 + (NY - y - 1)
      BY <1>1
    <3>2. QED
      BY <3>1
  <2>2. NX * NY = NX * y + NX + NX * n /\ NX * n \in Nat /\ NX * y \in Nat
    BY <1>1, <2>1
  <2>3. QED
    BY <1>1, <2>2
<1>4. QED
  BY <1>2, <1>3 DEF L!Exists, L!Place

\* What a scan touches lies in the window.
LEMMA TouchedInWindow ==
  ASSUME LocalInv, HitReach \in Nat, NEW c \in Int \X Int, NEW scan \in Seq(Int \X Int \X Int)
  PROVE  L!Touched(c, scan) \subseteq L!WindowCols
<1>1. \A d \in Int \X Int : L!InLocal(d) => d \in L!WindowCols
  <2>1. window[1] \in Int /\ window[2] \in Int /\ window[3] \in Int /\ window[4] \in Int
    BY DEF LocalInv
  <2>2. QED
    BY <2>1 DEF L!InLocal, L!WindowCols
<1>2. \A i \in DOMAIN scan : scan[i] \in Int \X Int \X Int
  OBVIOUS
<1>3. \A b \in Int \X Int \X Int, k \in 1 .. 10 : L!Tenth(c, b, k) \in Int \X Int
  <2> TAKE b \in Int \X Int \X Int, k \in 1 .. 10
  <2>1. /\ c[1] \in Int /\ c[2] \in Int /\ b[1] \in Int /\ b[2] \in Int /\ b[3] \in Int /\ k \in Int
    OBVIOUS
  <2>2. \A m \in Int, n \in Int : m * n \in Int
    OBVIOUS
  <2>3. b[1] * b[3] * k \in Int /\ b[2] * b[3] * k \in Int
    BY <2>1, <2>2
  <2>4. \A m \in Int : m \div 10 \in Int
    OBVIOUS
  <2>5. 10 * c[1] + 5 + b[1] * b[3] * k \in Int /\ 10 * c[2] + 5 + b[2] * b[3] * k \in Int
    <3>1. \A x \in Int, m \in Int : 10 * x + 5 + m \in Int
      OBVIOUS
    <3>2. QED
      BY <2>1, <2>3, <3>1
  <2>6. QED
    BY <2>4, <2>5 DEF L!Tenth
<1>4. \A b \in Int \X Int \X Int : L!HitCols(c, b) \subseteq L!WindowCols
  <2> TAKE b \in Int \X Int \X Int
  <2>1. L!Tenth(c, b, 10) \in Int \X Int
    BY <1>3
  <2>2. \A d \in Int \X Int : L!Around(d) \subseteq Int \X Int
    BY DEF L!Around
  <2>3. QED
    BY <1>1, <2>1, <2>2 DEF L!HitCols
<1>5. \A b \in Int \X Int \X Int : L!Passed(c, b) \subseteq L!WindowCols
  <2>1. \A k \in 1 .. 9 : k \in 1 .. 10
    OBVIOUS
  <2>2. QED
    BY <1>1, <1>3, <2>1 DEF L!Passed
<1>6. QED
  BY <1>2, <1>4, <1>5 DEF L!Touched

\* The window around a robot, wherever it is, is cut off where the map ends.
LEMMA ClampedInMap ==
  ASSUME NEW c \in Int \X Int, XYRange \in Nat, window' = L!Clamped(c)
  PROVE  /\ DOMAIN window' = 1 .. 4 /\ \A i \in 1 .. 4 : window'[i] \in Int
         /\ L!WindowCols' \subseteq L!GridCols
<1>1. c[1] \in Int /\ c[2] \in Int /\ NX \in Int /\ NY \in Int
  BY GeomAssumption
<1>2. PICK x0 \in Int, x1 \in Int, y0 \in Int, y1 \in Int :
        /\ window' = <<x0, x1, y0, y1>>
        /\ x0 >= 0 /\ x1 <= NX - 1 /\ y0 >= 0 /\ y1 <= NY - 1
  <2>1. \A a \in Int, b \in Int :
          /\ L!Highest(a, b) \in Int /\ L!Highest(a, b) >= b
          /\ L!Lowest(a, b) \in Int /\ L!Lowest(a, b) <= b
    BY DEF L!Highest, L!Lowest
  <2>2. /\ c[1] - XYRange \in Int /\ c[1] + XYRange \in Int /\ c[2] - XYRange \in Int
        /\ c[2] + XYRange \in Int /\ NX - 1 \in Int /\ NY - 1 \in Int /\ 0 \in Int
    BY <1>1
  <2>3. /\ L!Highest(c[1] - XYRange, 0) \in Int /\ L!Highest(c[1] - XYRange, 0) >= 0
        /\ L!Lowest(c[1] + XYRange, NX - 1) \in Int /\ L!Lowest(c[1] + XYRange, NX - 1) <= NX - 1
        /\ L!Highest(c[2] - XYRange, 0) \in Int /\ L!Highest(c[2] - XYRange, 0) >= 0
        /\ L!Lowest(c[2] + XYRange, NY - 1) \in Int /\ L!Lowest(c[2] + XYRange, NY - 1) <= NY - 1
    BY <2>1, <2>2
  <2>4. QED
    BY <2>3, Zenon DEF L!Clamped
<1>3. QED
  BY <1>1, <1>2 DEF L!WindowCols, L!GridCols

\* From the start and after every method, once set_local_window was called every
\* column of the local window exists, and no method has left the table; local.rs.
THEOREM LocalWindow ==
  ASSUME XYRange \in Nat, HitReach \in Nat, Robots \subseteq Int \X Int,
         Scans \subseteq Seq(Int \X Int \X Int)
  PROVE  L!Spec => []L!WindowInMap
<1>1. L!Init => LocalInv
  <2> SUFFICES ASSUME L!Init PROVE LocalInv
    OBVIOUS
  <2>1. 2 * XYRange \in Int
    OBVIOUS
  <2>2. window = <<0, 2 * XYRange, 0, 2 * XYRange>> /\ centred = FALSE /\ panicked = FALSE
    BY DEF L!Init, L!Window0
  <2>3. QED
    BY <2>1, <2>2 DEF LocalInv, L!WindowInMap
<1>2. LocalInv /\ [L!Next]_L!vars => LocalInv'
  <2> SUFFICES ASSUME LocalInv, [L!Next]_L!vars PROVE LocalInv'
    OBVIOUS
  <2>1. CASE L!SetGoal
    BY <2>1 DEF LocalInv, L!SetGoal, L!WindowInMap, L!WindowCols
  <2>2. CASE L!SetLocalWindow
    <3>1. PICK c \in Int \X Int : window' = L!Clamped(c)
      BY <2>2 DEF L!SetLocalWindow
    <3>2. ~panicked'
      BY <2>2 DEF L!SetLocalWindow, L!Working
    <3>3. QED
      BY <3>1, <3>2, ClampedInMap DEF LocalInv, L!WindowInMap
  <2>3. CASE L!SetLocalCost
    <3>1. PICK c \in Robots, scan \in Scans :
            panicked' => panicked \/ \E d \in L!Touched(c, scan) : ~L!Exists(d)
      BY <2>3 DEF L!SetLocalCost
    <3>2. L!Touched(c, scan) \subseteq L!WindowCols
      BY TouchedInWindow
    <3>3. centred => ~panicked'
      BY <3>1, <3>2, WindowExists, <2>3 DEF LocalInv, L!WindowInMap, L!SetLocalCost
    <3>4. UNCHANGED <<window, centred>>
      BY <2>3 DEF L!SetLocalCost
    <3>5. QED
      BY <3>3, <3>4 DEF LocalInv, L!WindowInMap, L!WindowCols
  <2>4. CASE L!LocalLoop
    <3>1. panicked' => panicked \/ \E c \in L!WindowCols : ~L!Exists(c)
      BY <2>4 DEF L!LocalLoop
    <3>2. centred => ~panicked'
      BY <3>1, WindowExists DEF LocalInv, L!WindowInMap
    <3>3. UNCHANGED <<window, centred>>
      BY <2>4 DEF L!LocalLoop
    <3>4. QED
      BY <3>2, <3>3 DEF LocalInv, L!WindowInMap, L!WindowCols
  <2>5. CASE UNCHANGED L!vars
    BY <2>5 DEF LocalInv, L!vars, L!WindowInMap, L!WindowCols
  <2>6. QED
    BY <2>1, <2>2, <2>3, <2>4, <2>5 DEF L!Next
<1>3. LocalInv => L!WindowInMap
  BY DEF LocalInv
<1>4. QED
  BY <1>1, <1>2, <1>3, PTL DEF L!Spec
=============================================================================
