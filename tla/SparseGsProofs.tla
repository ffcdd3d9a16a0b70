--------------------------- MODULE SparseGsProofs ---------------------------
(***************************************************************************)
(* Theorems about the planning problem of GridMdp and about the solvers on *)
(* the fused layout: the backup is a monotone function of its loads, the   *)
(* deterministic solver ends with the greatest solution, no change is      *)
(* hidden by the masks, the policy fits the values, and the words          *)
(* implement the asynchronous value iteration of AsyncVi.                  *)
(***************************************************************************)
EXTENDS SparseGs, GridFacts
-----------------------------------------------------------------------------
(* The sum over the outcomes and the backup. *)

\* The terms that action_cost_pad adds up.
PadTerms(a, s, f) ==
  [i \in 1 .. Len(Trans[a][s[2]]) |->
     (f[<<a, i>>] + Penalty[GridNbr(s, <<a, i>>)]) * Trans[a][s[2]][i].prob]

LEMMA SlotFacts ==
  ASSUME NEW s \in GridStates, NEW a \in Actions, Usable(a, s), NEW i \in DOMAIN Trans[a][s[2]]
  PROVE  /\ <<a, i>> \in GridSlots(s)
         /\ GridNbr(s, <<a, i>>) \in GridStates
         /\ Free(GridNbr(s, <<a, i>>))
         /\ Penalty[GridNbr(s, <<a, i>>)] \in Nat
<1> DEFINE d == Target(s[1], Trans[a][s[2]][i])
<1>1. d[1] \in GridCols /\ Free(d)
  BY DEF Usable
<1>2. d \in GridStates
  BY <1>1, WindowReaches
<1>3. GridNbr(s, <<a, i>>) = d
  BY DEF GridNbr
<1>4. <<a, i>> \in GridSlots(s)
  BY DEF GridSlots
<1>5. Penalty[d] \in Nat
  BY <1>2, MdpAssumption
<1>6. QED
  BY <1>1, <1>2, <1>3, <1>4, <1>5

LEMMA SlotIs ==
  ASSUME NEW s \in GridStates, NEW k \in GridSlots(s)
  PROVE  \E a \in Actions : /\ Usable(a, s)
                            /\ \E i \in DOMAIN Trans[a][s[2]] : k = <<a, i>>
BY DEF GridSlots

LEMMA PadTermFacts ==
  ASSUME NEW s \in GridStates, NEW a \in Actions, Usable(a, s),
         NEW f \in [GridSlots(s) -> 0 .. TopCost]
  PROVE  /\ PadTerms(a, s, f) \in [1 .. Len(Trans[a][s[2]]) -> Nat]
         /\ \A g \in [GridSlots(s) -> 0 .. TopCost] :
              (\A k \in GridSlots(s) : f[k] <= g[k]) =>
                \A i \in 1 .. Len(Trans[a][s[2]]) : PadTerms(a, s, f)[i] <= PadTerms(a, s, g)[i]
<1> DEFINE trs == Trans[a][s[2]]
           p(i) == Penalty[GridNbr(s, <<a, i>>)]
<1>1. TopCost \in Nat /\ s[2] \in Thetas
  BY MdpAssumption DEF GridStates, Thetas
<1>2. ASSUME NEW i \in 1 .. Len(trs)
      PROVE  trs[i].prob \in Nat /\ p(i) \in Nat /\ <<a, i>> \in GridSlots(s)
  <2>1. i \in DOMAIN trs
    BY <1>1, TransLen
  <2>2. QED
    BY <1>1, <2>1, SlotFacts, TransFacts
<1>3. ASSUME NEW i \in 1 .. Len(trs)
      PROVE  (f[<<a, i>>] + p(i)) * trs[i].prob \in Nat
  <2>1. f[<<a, i>>] \in Nat
    BY <1>1, <1>2
  <2>2. QED
    BY <1>2, <2>1
<1>4. ASSUME NEW g \in [GridSlots(s) -> 0 .. TopCost], \A k \in GridSlots(s) : f[k] <= g[k],
             NEW i \in 1 .. Len(trs)
      PROVE  (f[<<a, i>>] + p(i)) * trs[i].prob <= (g[<<a, i>>] + p(i)) * trs[i].prob
  <2> DEFINE x == f[<<a, i>>] + p(i)
             y == g[<<a, i>>] + p(i)
             q == trs[i].prob
  <2>1. f[<<a, i>>] \in Nat /\ g[<<a, i>>] \in Nat /\ f[<<a, i>>] <= g[<<a, i>>]
    BY <1>1, <1>2, <1>4
  <2>2. x \in Nat /\ y \in Nat /\ x <= y /\ q \in Nat
    BY <1>2, <2>1
  <2> HIDE DEF x, y, q
  <2>3. x * q <= y * q
    BY <2>2, SMTT(30)
  <2>4. QED
    BY <2>3 DEF x, y, q
<1>5. QED
  BY <1>3, <1>4 DEF PadTerms

LEMMA PadCostIs ==
  ASSUME NEW s \in GridStates, NEW a \in Actions, NEW f
  PROVE  PadCost(a, s, f) = IF \E i \in DOMAIN Trans[a][s[2]] : f[<<a, i>>] = TopCost
                            THEN TopCost
                            ELSE SumOf(PadTerms(a, s, f)) \div ProbBase
BY Zenon DEF PadCost, PadTerms

LEMMA PadCostFacts ==
  ASSUME NEW s \in GridStates, NEW a \in Actions, Usable(a, s),
         NEW f \in [GridSlots(s) -> 0 .. TopCost]
  PROVE  /\ PadCost(a, s, f) \in Nat
         /\ \A g \in [GridSlots(s) -> 0 .. TopCost] :
              (\A k \in GridSlots(s) : f[k] <= g[k]) =>
                PadCost(a, s, f) <= PadCost(a, s, g) \/ TopCost <= PadCost(a, s, g)
         /\ (\A k \in GridSlots(s) : f[k] = TopCost) => PadCost(a, s, f) = TopCost
<1> DEFINE n == Len(Trans[a][s[2]])
           D == DOMAIN Trans[a][s[2]]
<1>1. TopCost \in Nat /\ ProbBase \in Nat \ {0} /\ s[2] \in Thetas
  BY MdpAssumption DEF GridStates, Thetas
<1>2. n \in Nat \ {0} /\ D = 1 .. n
  BY <1>1, TransLen
<1>3. ASSUME NEW h \in [GridSlots(s) -> 0 .. TopCost]
      PROVE  /\ PadTerms(a, s, h) \in [1 .. n -> Nat]
             /\ SumOf(PadTerms(a, s, h)) \in Nat
             /\ SumOf(PadTerms(a, s, h)) \div ProbBase \in Nat
  <2>1. PadTerms(a, s, h) \in [1 .. n -> Nat]
    BY PadTermFacts
  <2> HIDE DEF n
  <2>2. SumOf(PadTerms(a, s, h)) \in Nat
    BY <1>2, <2>1, SumFacts
  <2>3. SumOf(PadTerms(a, s, h)) \div ProbBase \in Nat
    BY <1>1, <2>2, DivMod
  <2>4. QED
    BY <2>1, <2>2, <2>3
<1>4. PadCost(a, s, f) \in Nat
  BY <1>1, <1>3, PadCostIs
<1>5. ASSUME NEW g \in [GridSlots(s) -> 0 .. TopCost], \A k \in GridSlots(s) : f[k] <= g[k]
      PROVE  PadCost(a, s, f) <= PadCost(a, s, g) \/ TopCost <= PadCost(a, s, g)
  <2>1. CASE \E i \in D : g[<<a, i>>] = TopCost
    <3>1. PadCost(a, s, g) = TopCost
      BY <2>1, PadCostIs
    <3>2. QED
      BY <1>1, <3>1
  <2>2. CASE ~\E i \in D : g[<<a, i>>] = TopCost
    <3>1. ASSUME NEW i \in D PROVE f[<<a, i>>] # TopCost
      <4>1. <<a, i>> \in GridSlots(s)
        BY SlotFacts
      <4>2. g[<<a, i>>] # TopCost /\ f[<<a, i>>] <= g[<<a, i>>]
        BY <1>5, <2>2, <4>1
      <4>3. f[<<a, i>>] \in 0 .. TopCost /\ g[<<a, i>>] \in 0 .. TopCost
        BY <4>1
      <4>4. QED
        BY <1>1, <4>2, <4>3
    <3>2. /\ PadCost(a, s, f) = SumOf(PadTerms(a, s, f)) \div ProbBase
          /\ PadCost(a, s, g) = SumOf(PadTerms(a, s, g)) \div ProbBase
      BY <2>2, <3>1, PadCostIs
    <3>3. \A i \in 1 .. n : PadTerms(a, s, f)[i] <= PadTerms(a, s, g)[i]
      BY <1>5, PadTermFacts
    <3>4. SumOf(PadTerms(a, s, f)) <= SumOf(PadTerms(a, s, g))
      <4> HIDE DEF n
      <4>1. QED
        BY <1>2, <1>3, <3>3, SumFacts
    <3>5. QED
      BY <1>1, <1>3, <3>2, <3>4, DivMonotone
  <2>3. QED
    BY <2>1, <2>2
<1>6. ASSUME \A k \in GridSlots(s) : f[k] = TopCost
      PROVE  PadCost(a, s, f) = TopCost
  <2>1. 1 \in D
    BY <1>2
  <2>2. f[<<a, 1>>] = TopCost
    BY <1>6, <2>1, SlotFacts
  <2>3. QED
    BY <2>1, <2>2, PadCostIs
<1>7. QED
  BY <1>4, <1>5, <1>6

\* The backup is the least cost, and MAX_COST if no action costs less.
LEMMA BackupIs ==
  ASSUME NEW s \in GridStates, NEW f \in [GridSlots(s) -> 0 .. TopCost]
  PROVE  /\ GridBackup(s, f) \in 0 .. TopCost
         /\ \A a \in Actions : Usable(a, s) => GridBackup(s, f) <= PadCost(a, s, f)
         /\ \/ GridBackup(s, f) = TopCost
            \/ \E a \in Actions : Usable(a, s) /\ GridBackup(s, f) = PadCost(a, s, f)
<1> DEFINE B == {b \in Actions : Usable(b, s)}
           S == {TopCost} \union {PadCost(a, s, f) : a \in B}
<1>1. TopCost \in Nat
  BY MdpAssumption
<1>2. S \in SUBSET Nat /\ S # {} /\ TopCost \in S
  BY <1>1, PadCostFacts
<1>3. GridBackup(s, f) = Min(S)
  BY DEF GridBackup
<1>4. \A x \in S : x = TopCost \/ \E a \in B : x = PadCost(a, s, f)
  OBVIOUS
<1>5. \A a \in B : PadCost(a, s, f) \in S
  OBVIOUS
<1> HIDE DEF S
<1>6. Min(S) \in S /\ \A x \in S : Min(S) <= x
  BY <1>2, MinFacts
<1>7. GridBackup(s, f) \in 0 .. TopCost
  <2>1. Min(S) \in Nat /\ Min(S) <= TopCost
    BY <1>2, <1>6
  <2>2. QED
    BY <1>1, <1>3, <2>1
<1>8. QED
  BY <1>3, <1>4, <1>5, <1>6, <1>7

\* A monotone function of the loads that keeps a state unreached which reads
\* only unreached states (the clamp of action_cost_pad).
THEOREM BackupMonotone ==
  ASSUME NEW s \in GridStates, NEW f \in [GridSlots(s) -> 0 .. TopCost]
  PROVE  /\ GridBackup(s, f) \in 0 .. TopCost
         /\ \A g \in [GridSlots(s) -> 0 .. TopCost] :
              (\A k \in GridSlots(s) : f[k] <= g[k]) => GridBackup(s, f) <= GridBackup(s, g)
         /\ (\A k \in GridSlots(s) : f[k] = TopCost) => GridBackup(s, f) = TopCost
<1>1. TopCost \in Nat
  BY MdpAssumption
<1>2. GridBackup(s, f) \in 0 .. TopCost
  BY BackupIs
<1>3. ASSUME NEW g \in [GridSlots(s) -> 0 .. TopCost], \A k \in GridSlots(s) : f[k] <= g[k]
      PROVE  GridBackup(s, f) <= GridBackup(s, g)
  <2>1. CASE GridBackup(s, g) = TopCost
    BY <1>1, <1>2, <2>1
  <2>2. CASE GridBackup(s, g) # TopCost
    <3>1. PICK a \in Actions : Usable(a, s) /\ GridBackup(s, g) = PadCost(a, s, g)
      BY <2>2, BackupIs
    <3>2. GridBackup(s, g) \in 0 .. TopCost
      BY BackupIs
    <3>3. GridBackup(s, f) <= PadCost(a, s, f) /\ PadCost(a, s, f) \in Nat
      BY <3>1, BackupIs, PadCostFacts
    <3>4. PadCost(a, s, f) <= PadCost(a, s, g) \/ TopCost <= PadCost(a, s, g)
      BY <1>3, <3>1, PadCostFacts
    <3>5. QED
      BY <1>1, <1>2, <2>2, <3>1, <3>2, <3>3, <3>4
  <2>3. QED
    BY <2>1, <2>2
<1>4. ASSUME \A k \in GridSlots(s) : f[k] = TopCost PROVE GridBackup(s, f) = TopCost
  <2>1. CASE \E a \in Actions : Usable(a, s) /\ GridBackup(s, f) = PadCost(a, s, f)
    BY <1>4, <2>1, PadCostFacts
  <2>2. QED
    BY <2>1, BackupIs
<1>5. QED
  BY <1>2, <1>3, <1>4
-----------------------------------------------------------------------------
(* The deterministic solver. *)

GridTables == [GridStates -> 0 .. TopCost]

\* A solution of the Bellman equation that keeps the initial value of every
\* state that no solver updates.
GridSolves(v) ==
  /\ v \in GridTables
  /\ \A s \in GridStates :
       v[s] = IF s \in GridEval THEN GridBackup(s, GridView(s, v)) ELSE GridValue0[s]

LEMMA ViewFacts ==
  ASSUME NEW s \in GridStates, NEW v \in GridTables
  PROVE  /\ GridView(s, v) \in [GridSlots(s) -> 0 .. TopCost]
         /\ \A k \in GridSlots(s) : /\ GridNbr(s, k) \in GridStates
                                    /\ GridView(s, v)[k] = v[GridNbr(s, k)]
<1>1. \A k \in GridSlots(s) : GridNbr(s, k) \in GridStates
  BY SlotIs, SlotFacts
<1>2. QED
  BY <1>1 DEF GridView, GridTables

\* The values of two tables, one below the other, are backed up in order.
LEMMA BackupOrder ==
  ASSUME NEW s \in GridStates, NEW v \in GridTables, NEW w \in GridTables,
         \A d \in GridStates : v[d] <= w[d]
  PROVE  /\ GridBackup(s, GridView(s, v)) \in 0 .. TopCost
         /\ GridBackup(s, GridView(s, v)) <= GridBackup(s, GridView(s, w))
<1>1. /\ GridView(s, v) \in [GridSlots(s) -> 0 .. TopCost]
      /\ GridView(s, w) \in [GridSlots(s) -> 0 .. TopCost]
  BY ViewFacts
<1>2. \A k \in GridSlots(s) : GridView(s, v)[k] <= GridView(s, w)[k]
  BY ViewFacts
<1>3. QED
  BY <1>1, <1>2, BackupMonotone

\* A state that reads a column of F lies in the dilation of F.
LEMMA NbrDilate ==
  ASSUME NEW s \in GridStates, NEW k \in GridSlots(s), NEW F \in SUBSET GridCols,
         GridNbr(s, k)[1] \in F
  PROVE  s[1] \in GridDilate(F)
<1>1. PICK a \in Actions : Usable(a, s) /\ \E i \in DOMAIN Trans[a][s[2]] : k = <<a, i>>
  BY SlotIs
<1>2. PICK i \in DOMAIN Trans[a][s[2]] : k = <<a, i>>
  BY <1>1
<1>3. GridNbr(s, k) = Target(s[1], Trans[a][s[2]][i])
  BY <1>2 DEF GridNbr
<1>4. <<GridNbr(s, k)[1], s[1]>> \in GridNear
  BY <1>3, WindowReaches
<1>5. s[1] \in GridCols
  BY DEF GridStates
<1>6. QED
  BY <1>4, <1>5 DEF GridDilate

LEMMA TableIs == ASSUME NEW f PROVE Table(f) = f
BY DEF Table

LEMMA Value0Facts ==
  /\ GridValue0 \in GridTables
  /\ \A s \in GridEval : GridValue0[s] = TopCost
  /\ \A s \in GridEval : s \in GridStates
<1>1. TopCost \in Nat
  BY MdpAssumption
<1>2. QED
  BY <1>1 DEF GridValue0, GridTables, GridEval

\* A state outside the dilation of the reached columns reads only unreached
\* states.
LEMMA SeedReaches ==
  ASSUME NEW v \in GridTables, NEW s \in GridStates, s[1] \notin GridDilate(GridSeed(v))
  PROVE  GridBackup(s, GridView(s, v)) = TopCost
<1>1. ASSUME NEW k \in GridSlots(s) PROVE v[GridNbr(s, k)] = TopCost
  <2> DEFINE d == GridNbr(s, k)
  <2>1. SUFFICES ASSUME v[d] # TopCost PROVE FALSE
    OBVIOUS
  <2>2. d \in GridStates
    BY ViewFacts
  <2>3. v[d] \in 0 .. TopCost /\ TopCost \in Nat
    BY <2>2, MdpAssumption DEF GridTables
  <2>4. v[d] < TopCost
    BY <2>1, <2>3
  <2>5. d = <<d[1], d[2]>> /\ d[1] \in GridCols /\ d[2] \in 0 .. NTheta - 1
    BY <2>2 DEF GridStates
  <2> HIDE DEF d
  <2>6. d[1] \in GridSeed(v)
    BY <2>4, <2>5 DEF GridSeed
  <2>7. GridSeed(v) \in SUBSET GridCols
    BY DEF GridSeed
  <2>8. s[1] \in GridDilate(GridSeed(v))
    BY <2>6, <2>7, NbrDilate DEF d
  <2>9. QED
    BY <2>8
<1>2. \A k \in GridSlots(s) : GridView(s, v)[k] = TopCost
  BY <1>1, ViewFacts
<1>3. QED
  BY <1>2, ViewFacts, BackupMonotone

Rounds == [value : GridTables, frontier : SUBSET GridCols]

\* What holds after every round: a value is at least its backup, and it is
\* its backup unless a state that it reads has just been lowered; and no
\* solution lies above the table.
RoundSound(r) ==
  /\ r \in Rounds
  /\ \A s \in GridStates :
       IF s \in GridEval
       THEN /\ GridBackup(s, GridView(s, r.value)) <= r.value[s]
            /\ \/ s[1] \in GridDilate(r.frontier)
               \/ r.value[s] <= GridBackup(s, GridView(s, r.value))
       ELSE r.value[s] = GridValue0[s]
  /\ \A g : GridSolves(g) => \A s \in GridStates : g[s] <= r.value[s]

LEMMA StartSound == RoundSound(JacobiStart(GridValue0))
<1> DEFINE r == JacobiStart(GridValue0)
<1>1. r.value = GridValue0 /\ r.frontier = GridSeed(GridValue0) /\ r \in Rounds
  <2>1. GridSeed(GridValue0) \in SUBSET GridCols
    BY DEF GridSeed
  <2>2. QED
    BY <2>1, Value0Facts DEF JacobiStart, Rounds
<1>2. TopCost \in Nat
  BY MdpAssumption
<1>3. ASSUME NEW s \in GridEval
      PROVE  /\ GridBackup(s, GridView(s, GridValue0)) <= GridValue0[s]
             /\ \/ s[1] \in GridDilate(GridSeed(GridValue0))
                \/ GridValue0[s] <= GridBackup(s, GridView(s, GridValue0))
  <2>1. s \in GridStates /\ GridValue0[s] = TopCost /\ GridValue0 \in GridTables
    BY Value0Facts
  <2>2. GridBackup(s, GridView(s, GridValue0)) \in 0 .. TopCost
    BY <2>1, ViewFacts, BackupIs
  <2>3. s[1] \in GridDilate(GridSeed(GridValue0)) \/ GridBackup(s, GridView(s, GridValue0)) = TopCost
    BY <2>1, SeedReaches
  <2>4. QED
    BY <1>2, <2>1, <2>2, <2>3
<1>4. ASSUME NEW g, GridSolves(g), NEW s \in GridStates PROVE g[s] <= GridValue0[s]
  <2>1. g[s] \in 0 .. TopCost
    BY <1>4 DEF GridSolves, GridTables
  <2>2. CASE s \in GridEval
    BY <1>2, <2>1, <2>2, Value0Facts
  <2>3. CASE s \notin GridEval
    BY <1>2, <1>4, <2>1, <2>3 DEF GridSolves
  <2>4. QED
    BY <2>2, <2>3
<1> HIDE DEF r
<1>5. QED
  BY <1>1, <1>3, <1>4 DEF RoundSound, r

LEMMA RoundKeeps ==
  ASSUME NEW r, RoundSound(r)
  PROVE  RoundSound(JacobiRound(r))
<1> DEFINE v == r.value
           F == r.frontier
           cells == {s \in GridEval : s[1] \in GridDilate(F)}
           new == [s \in cells |-> GridBackup(s, GridView(s, v))]
           ups == {s \in cells : new[s] < v[s]}
           lowered == [s \in GridStates |-> IF s \in ups THEN new[s] ELSE v[s]]
           G == {s[1] : s \in ups}
           q == JacobiRound(r)
<1>1. q = [value |-> Table(lowered), frontier |-> G]
  BY Zenon DEF JacobiRound
<1>2. q.value = lowered /\ q.frontier = G
  <2> HIDE DEF lowered, G, q
  <2>1. QED
    BY <1>1, TableIs
<1>3. v \in GridTables /\ F \in SUBSET GridCols
  BY DEF RoundSound, Rounds
<1>4. \A s \in GridEval : s \in GridStates
  BY Value0Facts
<1>5. \A s \in cells : s \in GridEval /\ new[s] = GridBackup(s, GridView(s, v))
  OBVIOUS
<1>6. \A s \in ups : s \in cells /\ new[s] < v[s]
  OBVIOUS
<1>7. \A s \in cells : s \notin ups => ~(new[s] < v[s])
  OBVIOUS
<1>8. \A s \in GridStates : lowered[s] = IF s \in ups THEN new[s] ELSE v[s]
  OBVIOUS
<1>9. G \in SUBSET GridCols /\ \A s \in ups : s[1] \in G
  <2>1. \A s \in ups : s[1] \in GridCols
    BY <1>4 DEF GridStates
  <2>2. QED
    BY <2>1
<1>10. \A s \in GridEval : s[1] \in GridDilate(F) => s \in cells
  OBVIOUS
<1>11. DOMAIN lowered = GridStates /\ lowered = [s \in GridStates |-> lowered[s]]
  OBVIOUS
<1> HIDE DEF cells, new, ups, lowered, G, q
<1>12. TopCost \in Nat
  BY MdpAssumption
<1>13. \A s \in GridStates : v[s] \in 0 .. TopCost /\ GridBackup(s, GridView(s, v)) \in 0 .. TopCost
  <2>1. ASSUME NEW s \in GridStates PROVE GridBackup(s, GridView(s, v)) \in 0 .. TopCost
    BY <1>3, ViewFacts, BackupIs
  <2>2. \A s \in GridStates : v[s] \in 0 .. TopCost
    BY <1>3 DEF GridTables
  <2>3. QED
    BY <2>1, <2>2
<1>14. \A s \in GridStates : lowered[s] \in 0 .. TopCost /\ lowered[s] <= v[s]
  <2>1. ASSUME NEW s \in GridStates PROVE lowered[s] \in 0 .. TopCost /\ lowered[s] <= v[s]
    <3>1. CASE s \in ups
      <4>1. new[s] \in 0 .. TopCost /\ new[s] < v[s] /\ v[s] \in 0 .. TopCost
        BY <1>5, <1>6, <1>13, <3>1
      <4>2. QED
        BY <1>8, <1>12, <3>1, <4>1
    <3>2. CASE s \notin ups
      BY <1>8, <1>12, <1>13, <3>2
    <3>3. QED
      BY <3>1, <3>2
  <2>2. QED
    BY <2>1
<1>15. lowered \in GridTables
  BY <1>11, <1>14 DEF GridTables
<1>16. q \in Rounds
  <2>1. q = [value |-> lowered, frontier |-> G]
    BY <1>1, TableIs
  <2>2. QED
    BY <1>9, <1>15, <2>1 DEF Rounds
<1>17. ASSUME NEW s \in GridEval
       PROVE  /\ GridBackup(s, GridView(s, lowered)) <= lowered[s]
              /\ \/ s[1] \in GridDilate(G)
                 \/ lowered[s] <= GridBackup(s, GridView(s, lowered))
  <2>1. s \in GridStates
    BY <1>4
  <2> DEFINE b == GridBackup(s, GridView(s, v))
             c == GridBackup(s, GridView(s, lowered))
  <2>2. c \in 0 .. TopCost /\ b \in 0 .. TopCost /\ c <= b
    BY <1>3, <1>13, <1>14, <1>15, <2>1, BackupOrder
  <2>3. /\ b <= v[s]
        /\ s[1] \in GridDilate(F) \/ v[s] <= b
    BY <2>1 DEF RoundSound
  <2>4. lowered[s] = b
    <3>1. CASE s \in ups
      BY <1>5, <1>6, <1>8, <2>1, <3>1
    <3>2. CASE s \notin ups
      <4>1. lowered[s] = v[s] /\ v[s] \in 0 .. TopCost
        BY <1>8, <1>13, <2>1, <3>2
      <4>2. s \in cells => ~(b < v[s])
        BY <1>5, <1>7, <3>2
      <4>3. s \notin cells => v[s] <= b
        BY <1>10, <2>3
      <4> HIDE DEF b
      <4>4. QED
        BY <1>12, <2>2, <2>3, <4>1, <4>2, <4>3
    <3>3. QED
      BY <3>1, <3>2
  <2>5. CASE \E k \in GridSlots(s) : GridNbr(s, k) \in ups
    <3>1. PICK k \in GridSlots(s) : GridNbr(s, k) \in ups
      BY <2>5
    <3>2. s[1] \in GridDilate(G)
      BY <1>9, <2>1, <3>1, NbrDilate
    <3> HIDE DEF b, c
    <3>3. QED
      BY <1>12, <2>2, <2>4, <3>2 DEF c
  <2>6. CASE \A k \in GridSlots(s) : GridNbr(s, k) \notin ups
    <3>1. \A k \in GridSlots(s) : GridView(s, lowered)[k] = GridView(s, v)[k]
      BY <1>3, <1>8, <1>15, <2>1, <2>6, ViewFacts
    <3>2. GridView(s, lowered) = GridView(s, v)
      <4>1. /\ GridView(s, v) \in [GridSlots(s) -> 0 .. TopCost]
            /\ GridView(s, lowered) \in [GridSlots(s) -> 0 .. TopCost]
        BY <1>3, <1>15, <2>1, ViewFacts
      <4> HIDE DEF v
      <4>2. QED
        BY <3>1, <4>1, Zenon DEF GridView
    <3>3. b = c
      BY <3>2
    <3> HIDE DEF b
    <3>4. QED
      BY <1>12, <2>2, <2>4, <3>3
  <2>7. QED
    BY <2>5, <2>6
<1>18. ASSUME NEW s \in GridStates, s \notin GridEval PROVE lowered[s] = GridValue0[s]
  <2>1. s \notin ups
    BY <1>5, <1>6, <1>18
  <2>2. v[s] = GridValue0[s]
    BY <1>18 DEF RoundSound
  <2>3. QED
    BY <1>8, <2>1, <2>2
<1>19. ASSUME NEW g, GridSolves(g), NEW s \in GridStates PROVE g[s] <= lowered[s]
  <2>1. g \in GridTables /\ \A d \in GridStates : g[d] <= v[d]
    BY <1>19 DEF RoundSound, GridSolves
  <2>2. CASE s \in ups
    <3>1. s \in GridEval /\ lowered[s] = GridBackup(s, GridView(s, v))
      BY <1>5, <1>6, <1>8, <2>2
    <3>2. g[s] = GridBackup(s, GridView(s, g))
      BY <1>19, <3>1 DEF GridSolves
    <3>3. GridBackup(s, GridView(s, g)) <= GridBackup(s, GridView(s, v))
      BY <1>3, <2>1, BackupOrder
    <3>4. QED
      BY <3>1, <3>2, <3>3
  <2>3. CASE s \notin ups
    BY <1>8, <2>1, <2>3
  <2>4. QED
    BY <2>2, <2>3
<1>20. QED
  BY <1>2, <1>16, <1>17, <1>18, <1>19 DEF RoundSound, q

LEMMA SolveSound ==
  ASSUME NEW n \in Nat
  PROVE  RoundSound(ParSolve(GridValue0, n))
<1> DEFINE v0 == GridValue0
           run[i \in 0 .. n] ==
             IF i = 0 THEN JacobiStart(v0)
             ELSE LET r == run[i - 1]
                  IN  IF r.frontier = {} THEN r ELSE JacobiRound(r)
           A == {r \in Rounds : RoundSound(r)}
           step == [i \in 1 .. n |-> [r \in A |->
                      IF r.frontier = {} THEN r ELSE JacobiRound(r)]]
<1>1. JacobiStart(v0) \in A
  BY StartSound DEF RoundSound
<1>2. \A r \in A : JacobiRound(r) \in A
  <2>1. ASSUME NEW r \in A PROVE JacobiRound(r) \in A
    <3>1. RoundSound(JacobiRound(r))
      BY RoundKeeps
    <3>2. JacobiRound(r) \in Rounds
      BY <3>1 DEF RoundSound
    <3>3. QED
      BY <3>1, <3>2
  <2>2. QED
    BY <2>1
<1>3. \A r \in A : RoundSound(r)
  OBVIOUS
<1> HIDE DEF A
<1>4. step \in [1 .. n -> [A -> A]]
  BY <1>2
<1>5. \A i \in 1 .. n, r \in A :
        step[i][r] = IF r.frontier = {} THEN r ELSE JacobiRound(r)
  OBVIOUS
<1> HIDE DEF step
<1>6. PICK f \in [0 .. n -> A] :
        f[0] = JacobiStart(v0) /\ \A i \in 1 .. n : f[i] = step[i][f[i - 1]]
  <2>1. Recursive(A, JacobiStart(v0), n, step)
    BY <1>1, <1>4, RecursiveExists
  <2>2. QED
    BY <2>1 DEF Recursive
<1>7. ASSUME NEW i \in 1 .. n
      PROVE  f[i] = IF f[i - 1].frontier = {} THEN f[i - 1] ELSE JacobiRound(f[i - 1])
  <2>1. f[i - 1] \in A
    <3>1. i - 1 \in 0 .. n
      OBVIOUS
    <3>2. QED
      BY <3>1
  <2>2. QED
    BY <1>5, <1>6, <2>1
<1>8. f = [i \in 0 .. n |->
             IF i = 0 THEN JacobiStart(v0)
             ELSE IF f[i - 1].frontier = {} THEN f[i - 1] ELSE JacobiRound(f[i - 1])]
  <2>1. ASSUME NEW i \in 0 .. n
        PROVE  f[i] = IF i = 0 THEN JacobiStart(v0)
                      ELSE IF f[i - 1].frontier = {} THEN f[i - 1] ELSE JacobiRound(f[i - 1])
    <3>1. i = 0 \/ i \in 1 .. n
      OBVIOUS
    <3>2. QED
      BY <1>6, <1>7, <3>1
  <2>2. QED
    BY <2>1
<1>9. run = [i \in 0 .. n |->
               IF i = 0 THEN JacobiStart(v0)
               ELSE IF run[i - 1].frontier = {} THEN run[i - 1] ELSE JacobiRound(run[i - 1])]
  BY <1>8, Zenon
<1>10. ParSolve(GridValue0, n) = run[n]
  BY Zenon DEF ParSolve
<1> HIDE DEF run
<1>11. /\ run[0] = JacobiStart(v0)
       /\ \A i \in 1 .. n :
            run[i] = IF run[i - 1].frontier = {} THEN run[i - 1] ELSE JacobiRound(run[i - 1])
  <2>1. 0 \in 0 .. n /\ \A i \in 1 .. n : i \in 0 .. n /\ i # 0
    OBVIOUS
  <2>2. QED
    BY <1>9, <2>1
<1>12. n \in {k \in 0 .. n : run[k] \in A}
  <2> DEFINE T == {k \in 0 .. n : run[k] \notin A}
  <2>1. T = {}
    <3>1. SUFFICES ASSUME T # {} PROVE FALSE
      OBVIOUS
    <3>2. T \in SUBSET Nat
      OBVIOUS
    <3>3. PICK m \in T : \A k \in T : m <= k
      BY <3>1, <3>2, LeastOf
    <3>4. m # 0
      BY <1>1, <1>11, <3>3
    <3>5. m \in 1 .. n /\ m - 1 \in 0 .. n /\ m - 1 \notin T
      BY <3>3, <3>4
    <3>6. run[m - 1] \in A
      BY <3>5
    <3>7. run[m] \in A
      BY <1>2, <1>11, <3>5, <3>6
    <3>8. QED
      BY <3>3, <3>7
  <2>2. n \in 0 .. n
    OBVIOUS
  <2>3. QED
    BY <2>1, <2>2
<1>13. QED
  BY <1>3, <1>10, <1>12

\* When the deterministic solver ends with an empty frontier, its table is the
\* greatest solution of the Bellman equation: a parallel round never loses a
\* change that a later evaluation needs, and never lowers a value too far.
THEOREM JacobiExact ==
  ASSUME NEW n \in Nat, ParSolve(GridValue0, n).frontier = {}
  PROVE  /\ GridSolves(ParSolve(GridValue0, n).value)
         /\ \A g : GridSolves(g) =>
              \A s \in GridStates : g[s] <= ParSolve(GridValue0, n).value[s]
<1> DEFINE r == ParSolve(GridValue0, n)
<1>1. RoundSound(r)
  BY SolveSound
<1> HIDE DEF r
<1>2. r.value \in GridTables
  BY <1>1 DEF RoundSound, Rounds
<1>3. GridDilate({}) = {}
  BY DEF GridDilate
<1>4. ASSUME NEW s \in GridStates
      PROVE  r.value[s] = IF s \in GridEval THEN GridBackup(s, GridView(s, r.value))
                          ELSE GridValue0[s]
  <2>1. CASE s \in GridEval
    <3>1. /\ GridBackup(s, GridView(s, r.value)) <= r.value[s]
          /\ r.value[s] <= GridBackup(s, GridView(s, r.value))
      <4>1. r.frontier = {}
        BY DEF r
      <4>2. QED
        BY <1>1, <1>3, <2>1, <4>1 DEF RoundSound
    <3>2. GridBackup(s, GridView(s, r.value)) \in 0 .. TopCost
      BY <1>2, ViewFacts, BackupIs
    <3>3. r.value[s] \in 0 .. TopCost /\ TopCost \in Nat
      BY <1>2, MdpAssumption DEF GridTables
    <3>4. QED
      BY <2>1, <3>1, <3>2, <3>3
  <2>2. CASE s \notin GridEval
    BY <1>1, <2>2 DEF RoundSound
  <2>3. QED
    BY <2>1, <2>2
<1>5. GridSolves(r.value)
  BY <1>2, <1>4 DEF GridSolves
<1>6. \A g : GridSolves(g) => \A s \in GridStates : g[s] <= r.value[s]
  BY <1>1 DEF RoundSound
<1>7. QED
  BY <1>5, <1>6 DEF r
-----------------------------------------------------------------------------
(* Words and the values they stand for. *)

LEMMA StateFacts ==
  ASSUME NEW s \in GridStates
  PROVE  /\ s = <<s[1], s[2]>> /\ s[1] \in GridCols /\ s[2] \in Thetas
         /\ Penalty[s] \in Nat
BY MdpAssumption DEF GridStates, Thetas

LEMMA PenaltyFacts ==
  MaxPenalty \in Nat /\ \A s \in GridStates : Penalty[s] <= MaxPenalty
<1> DEFINE S == {Penalty[s] : s \in GridStates}
<1>1. IsFiniteSet(GridStates) /\ GridStates # {}
  <2>1. NX \in Nat \ {0} /\ NY \in Nat \ {0} /\ NTheta \in Nat \ {0}
    BY GeomAssumption
  <2>2. IsFiniteSet(0 .. NX - 1) /\ IsFiniteSet(0 .. NY - 1) /\ IsFiniteSet(0 .. NTheta - 1)
    BY <2>1, FS_Interval
  <2>3. IsFiniteSet(GridCols)
    BY <2>2, FS_Product DEF GridCols
  <2>4. IsFiniteSet(GridStates)
    BY <2>2, <2>3, FS_Product DEF GridStates
  <2>5. <<<<0, 0>>, 0>> \in GridStates
    BY <2>1 DEF GridStates, GridCols
  <2>6. QED
    BY <2>4, <2>5
<1>2. IsFiniteSet(S)
  <2> DEFINE f == [s \in GridStates |-> Penalty[s]]
  <2>1. f \in Surjection(GridStates, S)
    BY DEF Surjection
  <2>2. QED
    BY <1>1, <2>1, FS_Surjection
<1>3. S \in SUBSET Nat /\ S # {} /\ \A s \in GridStates : Penalty[s] \in S
  BY <1>1, StateFacts
<1> HIDE DEF S
<1>4. Max(S) \in S /\ \A k \in S : k <= Max(S)
  BY <1>2, <1>3, MaxFacts
<1>5. QED
  BY <1>3, <1>4 DEF MaxPenalty, S

LEMMA WordFacts ==
  ASSUME NEW s \in GridStates
  PROVE  /\ WordsOf(s) \subseteq Words \union {Unreached}
         /\ Unreached \in WordsOf(s)
         /\ \A u \in WordsOf(s) :
              /\ Unfused(s, u) \in 0 .. TopCost
              /\ Unfused(s, u) = TopCost <=> u = Unreached
              /\ u # Unreached => /\ u \in Nat /\ Free(s)
                                  /\ Unfused(s, u) + Penalty[s] = u
         /\ \A c \in 0 .. TopCost - 1 :
              Free(s) => /\ c + Penalty[s] \in WordsOf(s)
                         /\ Unfused(s, c + Penalty[s]) = c
                         /\ c + Penalty[s] # Unreached
<1>1. TopCost \in Nat \ {0} /\ Penalty[s] \in Nat /\ MaxPenalty \in Nat /\ Penalty[s] <= MaxPenalty
  BY MdpAssumption, StateFacts, PenaltyFacts
<1>2. Unreached \notin Words
  BY FusedAssumption
<1>3. WordsOf(s) \subseteq Words \union {Unreached} /\ Unreached \in WordsOf(s)
  BY DEF WordsOf
<1>4. ASSUME NEW u \in WordsOf(s)
      PROVE  /\ Unfused(s, u) \in 0 .. TopCost
             /\ Unfused(s, u) = TopCost <=> u = Unreached
             /\ u # Unreached => /\ u \in Nat /\ Free(s)
                                 /\ Unfused(s, u) + Penalty[s] = u
  <2>1. CASE u = Unreached
    BY <1>1, <2>1 DEF Unfused
  <2>2. CASE u # Unreached
    <3>1. u \in Words /\ Free(s) /\ u >= Penalty[s] /\ u - Penalty[s] < TopCost
      BY <2>2 DEF WordsOf
    <3>2. u \in Nat
      BY <1>1, <3>1 DEF Words
    <3>3. Unfused(s, u) = u - Penalty[s]
      BY <2>2 DEF Unfused
    <3>4. QED
      BY <1>1, <2>2, <3>1, <3>2, <3>3
  <2>3. QED
    BY <2>1, <2>2
<1>5. ASSUME NEW c \in 0 .. TopCost - 1, Free(s)
      PROVE  /\ c + Penalty[s] \in WordsOf(s)
             /\ Unfused(s, c + Penalty[s]) = c
             /\ c + Penalty[s] # Unreached
  <2> DEFINE u == c + Penalty[s]
  <2>1. u \in Words /\ u >= Penalty[s] /\ u - Penalty[s] = c /\ c < TopCost
    BY <1>1 DEF Words
  <2> HIDE DEF u
  <2>2. u # Unreached
    BY <1>2, <2>1
  <2>3. u \in WordsOf(s)
    BY <1>5, <2>1 DEF WordsOf
  <2>4. Unfused(s, u) = c
    BY <2>1, <2>2 DEF Unfused
  <2>5. QED
    BY <2>2, <2>3, <2>4 DEF u
<1>6. QED
  BY <1>3, <1>4, <1>5

LEMMA OutcomeFacts ==
  ASSUME NEW s \in GridStates, NEW a \in Actions, NEW i \in DOMAIN Trans[a][s[2]]
  PROVE  <<a, i>> \in Outcomes(s) /\ GridNbr(s, <<a, i>>) = Target(s[1], Trans[a][s[2]][i])
BY DEF Outcomes, GridNbr

LEMMA OutcomeIs ==
  ASSUME NEW s \in GridStates, NEW k \in Outcomes(s)
  PROVE  \E a \in Actions : \E i \in DOMAIN Trans[a][s[2]] : k = <<a, i>>
BY DEF Outcomes

LEMMA SlotOutcome ==
  ASSUME NEW s \in GridStates, NEW k \in GridSlots(s)
  PROVE  k \in Outcomes(s) /\ GridNbr(s, k) \in GridStates
BY SlotIs, SlotFacts, OutcomeFacts

\* An outcome that lies on the map is near, and no further around the circle
\* than DispT.
LEMMA OutcomeNear ==
  ASSUME NEW s \in GridStates, NEW k \in Outcomes(s), GridNbr(s, k) \in GridStates
  PROVE  /\ <<GridNbr(s, k)[1], s[1]>> \in GridNear
         /\ CircDist(s[2], GridNbr(s, k)[2]) <= DispT
<1>1. PICK a \in Actions : \E i \in DOMAIN Trans[a][s[2]] : k = <<a, i>>
  BY OutcomeIs
<1>2. PICK i \in DOMAIN Trans[a][s[2]] : k = <<a, i>>
  BY <1>1
<1>3. GridNbr(s, k) = Target(s[1], Trans[a][s[2]][i])
  BY <1>2 DEF GridNbr
<1>4. Target(s[1], Trans[a][s[2]][i])[1] \in GridCols
  BY <1>3, StateFacts
<1>5. QED
  BY <1>3, <1>4, WindowReaches

\* Loads of words that may stand for a value; the padding holds the sentinel.
GoodLoads(s, f) ==
  /\ f \in [Outcomes(s) -> Words \union {Unreached}]
  /\ \A k \in Outcomes(s) :
       IF GridNbr(s, k) \in GridStates THEN f[k] \in WordsOf(GridNbr(s, k))
       ELSE f[k] = Unreached

\* The values that they stand for.
ValuesRead(s, f) == [k \in GridSlots(s) |-> Unfused(GridNbr(s, k), f[k])]

LEMMA ValuesReadFacts ==
  ASSUME NEW s \in GridStates, NEW f, GoodLoads(s, f)
  PROVE  /\ ValuesRead(s, f) \in [GridSlots(s) -> 0 .. TopCost]
         /\ \A k \in GridSlots(s) : ValuesRead(s, f)[k] = Unfused(GridNbr(s, k), f[k])
<1>1. ASSUME NEW k \in GridSlots(s) PROVE Unfused(GridNbr(s, k), f[k]) \in 0 .. TopCost
  <2>1. k \in Outcomes(s) /\ GridNbr(s, k) \in GridStates
    BY SlotOutcome
  <2>2. f[k] \in WordsOf(GridNbr(s, k))
    BY <2>1 DEF GoodLoads
  <2>3. QED
    BY <2>1, <2>2, WordFacts
<1>2. QED
  BY <1>1 DEF ValuesRead

\* The terms that action_cost_fused adds up.
FusedTerms(a, s, f) ==
  [i \in 1 .. Len(Trans[a][s[2]]) |-> f[<<a, i>>] * Trans[a][s[2]][i].prob]

LEMMA FusedCostIs ==
  ASSUME NEW s \in GridStates, NEW a \in Actions, NEW f
  PROVE  FusedCost(a, s, f) = IF \E i \in DOMAIN Trans[a][s[2]] : f[<<a, i>>] = Unreached
                              THEN TopCost
                              ELSE SumOf(FusedTerms(a, s, f)) \div ProbBase
BY Zenon DEF FusedCost, FusedTerms

\* Where the padded table has an obstacle or no cell, the fused one has the
\* sentinel, and elsewhere the two cost functions add up the same terms.
LEMMA FusedUsable ==
  ASSUME NEW s \in GridStates, NEW f, GoodLoads(s, f), NEW a \in Actions, Usable(a, s)
  PROVE  FusedCost(a, s, f) = PadCost(a, s, ValuesRead(s, f))
<1> DEFINE trs == Trans[a][s[2]]
           D == DOMAIN trs
           g == ValuesRead(s, f)
           d(i) == GridNbr(s, <<a, i>>)
<1>1. ASSUME NEW i \in D
      PROVE  /\ g[<<a, i>>] = TopCost <=> f[<<a, i>>] = Unreached
             /\ f[<<a, i>>] # Unreached => g[<<a, i>>] + Penalty[d(i)] = f[<<a, i>>]
  <2>1. <<a, i>> \in GridSlots(s) /\ d(i) \in GridStates
    BY SlotFacts
  <2>2. <<a, i>> \in Outcomes(s)
    BY OutcomeFacts
  <2>3. f[<<a, i>>] \in WordsOf(d(i))
    BY <2>1, <2>2 DEF GoodLoads
  <2>4. g[<<a, i>>] = Unfused(d(i), f[<<a, i>>])
    BY <2>1, ValuesReadFacts
  <2>5. QED
    BY <2>1, <2>3, <2>4, WordFacts
<1>2. CASE \E i \in D : f[<<a, i>>] = Unreached
  <2>1. \E i \in D : g[<<a, i>>] = TopCost
    BY <1>1, <1>2
  <2>2. QED
    BY <1>2, <2>1, FusedCostIs, PadCostIs
<1>3. CASE ~\E i \in D : f[<<a, i>>] = Unreached
  <2>1. ~\E i \in D : g[<<a, i>>] = TopCost
    BY <1>1, <1>3
  <2>2. s[2] \in Thetas
    BY StateFacts
  <2>3. D = 1 .. Len(trs)
    BY <2>2, TransLen
  <2>4. \A i \in 1 .. Len(trs) :
          (g[<<a, i>>] + Penalty[d(i)]) * trs[i].prob = f[<<a, i>>] * trs[i].prob
    BY <1>1, <1>3, <2>3
  <2>5. PadTerms(a, s, g) = FusedTerms(a, s, f)
    BY <2>4 DEF PadTerms, FusedTerms
  <2>6. QED
    BY <1>3, <2>1, <2>5, FusedCostIs, PadCostIs
<1>4. QED
  BY <1>2, <1>3

LEMMA FusedUnusable ==
  ASSUME NEW s \in GridStates, NEW f, GoodLoads(s, f), NEW a \in Actions, ~Usable(a, s)
  PROVE  FusedCost(a, s, f) = TopCost
<1>1. PICK i \in DOMAIN Trans[a][s[2]] :
        LET d == Target(s[1], Trans[a][s[2]][i]) IN ~(d[1] \in GridCols /\ Free(d))
  BY DEF Usable
<1> DEFINE d == Target(s[1], Trans[a][s[2]][i])
<1>2. <<a, i>> \in Outcomes(s) /\ GridNbr(s, <<a, i>>) = d
  BY OutcomeFacts
<1>3. ~(d[1] \in GridCols /\ Free(d))
  BY <1>1
<1> HIDE DEF d
<1>4. CASE d \in GridStates
  <2>1. f[<<a, i>>] \in WordsOf(d) /\ d[1] \in GridCols
    BY <1>2, <1>4, StateFacts DEF GoodLoads
  <2>2. f[<<a, i>>] = Unreached
    BY <1>3, <1>4, <2>1, WordFacts
  <2>3. QED
    BY <2>2, FusedCostIs
<1>5. CASE d \notin GridStates
  <2>1. f[<<a, i>>] = Unreached
    BY <1>2, <1>5 DEF GoodLoads
  <2>2. QED
    BY <2>1, FusedCostIs
<1>6. QED
  BY <1>4, <1>5

\* The fused backup is the padded one, and so are the actions that attain it.
THEOREM FusedIsPadded ==
  ASSUME NEW s \in GridStates, NEW f, GoodLoads(s, f)
  PROVE  /\ Lowest(s, f) = GridBackup(s, ValuesRead(s, f))
         /\ BestActions(s, f) = GridBest(s, ValuesRead(s, f))
<1> DEFINE g == ValuesRead(s, f)
           B == {b \in Actions : Usable(b, s)}
           S == {TopCost} \union {FusedCost(a, s, f) : a \in Actions}
           P == {TopCost} \union {PadCost(a, s, g) : a \in B}
<1>1. \A a \in Actions : FusedCost(a, s, f) = IF Usable(a, s) THEN PadCost(a, s, g) ELSE TopCost
  BY FusedUsable, FusedUnusable
<1> HIDE DEF g
<1>2. S = P
  <2>1. S \subseteq P
    BY <1>1
  <2>2. P \subseteq S
    BY <1>1
  <2>3. QED
    BY <2>1, <2>2
<1>3. Lowest(s, f) = Min(S) /\ GridBackup(s, g) = Min(P)
  BY DEF Lowest, GridBackup
<1> HIDE DEF S, P, B
<1>4. Lowest(s, f) = GridBackup(s, g)
  BY <1>2, <1>3
<1>5. TopCost \in Nat
  BY MdpAssumption
<1>6. \A a \in Actions : a \in BestActions(s, f) <=> a \in GridBest(s, g)
  BY <1>1, <1>4, <1>5 DEF BestActions, GridBest
<1>7. BestActions(s, f) \subseteq Actions /\ GridBest(s, g) \subseteq Actions
  BY DEF BestActions, GridBest
<1>8. BestActions(s, f) = GridBest(s, g)
  BY <1>6, <1>7
<1>9. QED
  BY <1>4, <1>8 DEF g
-----------------------------------------------------------------------------
(* A table of words. *)

GoodWords(c) ==
  /\ c \in [GridStates -> Words \union {Unreached}]
  /\ \A s \in GridStates : c[s] \in WordsOf(s)

\* Now and ValueOf, for the table c.
NowOf(c, s) ==
  [k \in Outcomes(s) |->
     LET d == GridNbr(s, k) IN IF d \in GridStates THEN c[d] ELSE Unreached]
ValOf(c) == [s \in GridStates |-> Unfused(s, c[s])]

LEMMA ValFacts ==
  ASSUME NEW c, GoodWords(c)
  PROVE  /\ ValOf(c) \in GridTables
         /\ \A s \in GridStates : ValOf(c)[s] = Unfused(s, c[s])
<1>1. \A s \in GridStates : Unfused(s, c[s]) \in 0 .. TopCost
  BY WordFacts DEF GoodWords
<1>2. QED
  BY <1>1 DEF ValOf, GridTables

LEMMA NowFacts ==
  ASSUME NEW c, GoodWords(c), NEW s \in GridStates
  PROVE  /\ GoodLoads(s, NowOf(c, s))
         /\ Lowest(s, NowOf(c, s)) = GridBackup(s, GridView(s, ValOf(c)))
         /\ BestActions(s, NowOf(c, s)) = GridBest(s, GridView(s, ValOf(c)))
<1> DEFINE f == NowOf(c, s)
<1>1. \A k \in Outcomes(s) : f[k] = IF GridNbr(s, k) \in GridStates THEN c[GridNbr(s, k)] ELSE Unreached
  BY DEF NowOf
<1>2. f = [k \in Outcomes(s) |-> f[k]]
  BY DEF NowOf
<1> HIDE DEF f
<1>3. GoodLoads(s, f)
  <2>1. \A k \in Outcomes(s) : f[k] \in Words \union {Unreached}
    BY <1>1 DEF GoodWords
  <2>2. QED
    BY <1>1, <1>2, <2>1 DEF GoodLoads, GoodWords
<1>4. \A k \in GridSlots(s) : ValuesRead(s, f)[k] = ValOf(c)[GridNbr(s, k)]
  <2>1. ASSUME NEW k \in GridSlots(s) PROVE ValuesRead(s, f)[k] = ValOf(c)[GridNbr(s, k)]
    <3>1. k \in Outcomes(s) /\ GridNbr(s, k) \in GridStates
      BY SlotOutcome
    <3>2. f[k] = c[GridNbr(s, k)]
      BY <1>1, <3>1
    <3>3. QED
      BY <1>3, <3>1, <3>2, ValuesReadFacts, ValFacts
  <2>2. QED
    BY <2>1
<1>5. ValuesRead(s, f) = GridView(s, ValOf(c))
  <2>1. ValuesRead(s, f) = [k \in GridSlots(s) |-> ValuesRead(s, f)[k]]
    BY DEF ValuesRead
  <2>2. QED
    BY <1>4, <2>1 DEF GridView
<1>6. QED
  BY <1>3, <1>5, FusedIsPadded DEF f

\* The values of the solvers, taken apart and put together again.
LEMMA BuildValues ==
  ASSUME NEW v \in GridTables, \A s \in GridStates : ~Free(s) => v[s] = TopCost
  PROVE  GoodWords(Build(v)) /\ ValOf(Build(v)) = v
<1>1. TopCost \in Nat
  BY MdpAssumption
<1>2. ASSUME NEW s \in GridStates
      PROVE  Build(v)[s] \in WordsOf(s) /\ Unfused(s, Build(v)[s]) = v[s]
  <2>1. v[s] \in 0 .. TopCost
    BY DEF GridTables
  <2>2. CASE v[s] = TopCost
    <3>1. Build(v)[s] = Unreached
      BY <2>2 DEF Build
    <3>2. QED
      BY <2>2, <3>1, WordFacts
  <2>3. CASE v[s] # TopCost
    <3>1. Free(s) /\ v[s] \in 0 .. TopCost - 1
      BY <1>1, <2>1, <2>3
    <3>2. Build(v)[s] = v[s] + Penalty[s]
      BY <2>3, <3>1 DEF Build
    <3>3. QED
      BY <3>1, <3>2, WordFacts
  <2>4. QED
    BY <2>2, <2>3
<1>3. Build(v) \in [GridStates -> Words \union {Unreached}]
  <2>1. Build(v) = [s \in GridStates |-> Build(v)[s]]
    BY DEF Build
  <2>2. \A s \in GridStates : Build(v)[s] \in Words \union {Unreached}
    BY <1>2, WordFacts
  <2>3. QED
    BY <2>1, <2>2
<1>4. GoodWords(Build(v))
  BY <1>2, <1>3 DEF GoodWords
<1>5. ValOf(Build(v)) = v
  <2>1. v = [s \in GridStates |-> v[s]]
    BY DEF GridTables
  <2>2. QED
    BY <1>2, <2>1 DEF ValOf
<1>6. QED
  BY <1>4, <1>5

LEMMA BuildAgain ==
  ASSUME NEW c, GoodWords(c)
  PROVE  Build(ValOf(c)) = c
<1>1. ASSUME NEW s \in GridStates PROVE Build(ValOf(c))[s] = c[s]
  <2>1. ValOf(c)[s] = Unfused(s, c[s]) /\ c[s] \in WordsOf(s)
    BY ValFacts DEF GoodWords
  <2>2. CASE c[s] = Unreached
    <3>1. ValOf(c)[s] = TopCost
      BY <2>1, <2>2, WordFacts
    <3>2. QED
      BY <2>2, <3>1 DEF Build
  <2>3. CASE c[s] # Unreached
    <3>1. ValOf(c)[s] # TopCost /\ Free(s) /\ ValOf(c)[s] + Penalty[s] = c[s]
      BY <2>1, <2>3, WordFacts
    <3>2. QED
      BY <3>1 DEF Build
  <2>4. QED
    BY <2>2, <2>3
<1>2. Build(ValOf(c)) = [s \in GridStates |-> Build(ValOf(c))[s]]
  BY DEF Build
<1>3. c = [s \in GridStates |-> c[s]]
  BY DEF GoodWords
<1>4. QED
  BY <1>1, <1>2, <1>3

\* Loads of words that stood for values at least as high give a backup at
\* least as high.
LEMMA LoadsAbove ==
  ASSUME NEW c, GoodWords(c), NEW s \in GridStates, NEW f, GoodLoads(s, f),
         \A k \in Outcomes(s) : LET d == GridNbr(s, k) IN
           d \in GridStates => Unfused(d, c[d]) <= Unfused(d, f[k])
  PROVE  /\ Lowest(s, f) \in 0 .. TopCost
         /\ GridBackup(s, GridView(s, ValOf(c))) <= Lowest(s, f)
<1> DEFINE g == GridView(s, ValOf(c))
           h == ValuesRead(s, f)
<1>1. Lowest(s, f) = GridBackup(s, h)
  BY FusedIsPadded
<1>2. g \in [GridSlots(s) -> 0 .. TopCost] /\ h \in [GridSlots(s) -> 0 .. TopCost]
  BY ValFacts, ViewFacts, ValuesReadFacts
<1>3. ASSUME NEW k \in GridSlots(s) PROVE g[k] <= h[k]
  <2> DEFINE d == GridNbr(s, k)
  <2>1. k \in Outcomes(s) /\ d \in GridStates
    BY SlotOutcome
  <2>2. g[k] = Unfused(d, c[d])
    <3>1. g[k] = ValOf(c)[d]
      BY ValFacts, ViewFacts
    <3>2. QED
      BY <2>1, <3>1, ValFacts
  <2>3. h[k] = Unfused(d, f[k])
    BY ValuesReadFacts
  <2>4. Unfused(d, c[d]) <= Unfused(d, f[k])
    BY <2>1
  <2>5. QED
    BY <2>2, <2>3, <2>4
<1> HIDE DEF g, h
<1>4. GridBackup(s, g) <= GridBackup(s, h) /\ GridBackup(s, h) \in 0 .. TopCost
  BY <1>2, <1>3, BackupMonotone
<1>5. QED
  BY <1>1, <1>4 DEF g
-----------------------------------------------------------------------------
(* The grid and the reference table. *)

LEMMA GridFinite == IsFiniteSet(GridStates) /\ IsFiniteSet(GridCols)
<1>1. NX \in Nat \ {0} /\ NY \in Nat \ {0} /\ NTheta \in Nat \ {0}
  BY GeomAssumption
<1>2. IsFiniteSet(0 .. NX - 1) /\ IsFiniteSet(0 .. NY - 1) /\ IsFiniteSet(0 .. NTheta - 1)
  BY <1>1, FS_Interval
<1>3. IsFiniteSet(GridCols)
  BY <1>2, FS_Product DEF GridCols
<1>4. QED
  BY <1>2, <1>3, FS_Product DEF GridStates

LEMMA ReferenceFacts ==
  /\ GridSolves(Reference) /\ Reference \in GridTables
  /\ \A g : GridSolves(g) => \A s \in GridStates : g[s] <= Reference[s]
<1>1. Cardinality(GridStates) * TopCost + 1 \in Nat
  <2>1. Cardinality(GridStates) \in Nat
    BY GridFinite, FS_CardinalityType
  <2> DEFINE n == Cardinality(GridStates)
  <2>2. TopCost \in Nat /\ n \in Nat
    BY <2>1, MdpAssumption
  <2> HIDE DEF n
  <2>3. n * TopCost + 1 \in Nat
    BY <2>2
  <2>4. QED
    BY <2>3 DEF n
<1>2. PICK n \in 0 .. Cardinality(GridStates) * TopCost + 1 :
        /\ ParSolve(GridValue0, n).frontier = {}
        /\ Reference = ParSolve(GridValue0, n).value
  BY ReferenceAssumption
<1>3. n \in Nat
  BY <1>1, <1>2
<1>4. QED
  BY <1>2, <1>3, JacobiExact DEF GridSolves

LEMMA EvalFacts ==
  ASSUME NEW s \in GridEval
  PROVE  s \in GridStates /\ Free(s)
BY DEF GridEval

\* The deterministic table lies below every table of ValuesAbove.
LEMMA BackupAboveReference ==
  ASSUME NEW v \in GridTables, \A d \in GridStates : Reference[d] <= v[d],
         NEW s \in GridEval
  PROVE  Reference[s] <= GridBackup(s, GridView(s, v))
<1>1. s \in GridStates
  BY EvalFacts
<1>2. Reference[s] = GridBackup(s, GridView(s, Reference))
  BY <1>1, ReferenceFacts DEF GridSolves
<1>3. GridBackup(s, GridView(s, Reference)) <= GridBackup(s, GridView(s, v))
  BY <1>1, ReferenceFacts, BackupOrder
<1>4. QED
  BY <1>2, <1>3

\* The first round of a call evaluates every state that could be lowered.
LEMMA StartCovers ==
  ASSUME NEW v \in GridTables, NEW s \in GridEval
  PROVE  \/ v[s] <= GridBackup(s, GridView(s, v))
         \/ \E i \in 1 .. Len(Candidates(v)) : Candidates(v)[i] = s[1]
<1>1. s \in GridStates /\ s[1] \in GridCols
  BY EvalFacts, StateFacts
<1>2. CASE s[1] \in GridDilate(GridSeed(v))
  <2>1. GridDilate(GridSeed(v)) \in SUBSET GridCols
    BY DEF GridDilate
  <2>2. QED
    BY <1>2, <2>1, ScanLists DEF Candidates
<1>3. CASE s[1] \notin GridDilate(GridSeed(v))
  <2>1. GridBackup(s, GridView(s, v)) = TopCost
    BY <1>1, <1>3, SeedReaches
  <2>2. v[s] \in 0 .. TopCost
    BY <1>1 DEF GridTables
  <2>3. QED
    BY <2>1, <2>2, MdpAssumption
<1>4. QED
  BY <1>2, <1>3

LEMMA CandidatesFacts ==
  ASSUME NEW v
  PROVE  /\ Candidates(v) \in Seq(GridCols)
         /\ \A i, j \in 1 .. Len(Candidates(v)) :
              Candidates(v)[i] = Candidates(v)[j] => i = j
<1>1. GridDilate(GridSeed(v)) \in SUBSET GridCols
  BY DEF GridDilate
<1>2. QED
  BY <1>1, ScanLists DEF Candidates

\* What the invariant says of the words.
LEMMA CpFacts ==
  ASSUME TypeOK, LoadsSound
  PROVE  /\ GoodWords(cp) /\ ValueOf = ValOf(cp) /\ ValueOf \in GridTables
         /\ \A s \in GridStates : ValueOf[s] = Unfused(s, cp[s])
         /\ \A s : Now(s) = NowOf(cp, s)
         /\ \A s \in GridStates : Lowest(s, Now(s)) = GridBackup(s, GridView(s, ValueOf))
<1>1. GoodWords(cp)
  BY DEF TypeOK, LoadsSound, GoodWords
<1>2. ValueOf = ValOf(cp) /\ \A s : Now(s) = NowOf(cp, s)
  BY DEF ValueOf, ValOf, Now, NowOf
<1>3. QED
  BY <1>1, <1>2, ValFacts, NowFacts

LEMMA LayerFacts == Layers = Thetas /\ NTheta \in Nat \ {0}
BY GeomAssumption DEF Layers, Thetas

LEMMA ToEvalFacts ==
  ASSUME NEW c, NEW i \in ToEval(c)
  PROVE  <<c, i>> \in GridEval /\ <<c, i>> \in GridStates /\ i \in Layers
<1>1. <<c, i>> \in GridEval
  BY DEF ToEval
<1>2. <<c, i>> \in GridStates
  BY <1>1, EvalFacts
<1>3. QED
  BY <1>1, <1>2 DEF GridStates, Layers
-----------------------------------------------------------------------------
(* The inductive invariant. *)

\* The values of a table of words are above the reference if no state can be
\* below its backup.
AboveReference(v) ==
  \A s \in GridStates :
    IF s \in GridEval
    THEN Reference[s] <= v[s] /\ GridBackup(s, GridView(s, v)) <= v[s]
    ELSE v[s] = GridValue0[s]

LEMMA AboveFacts ==
  ASSUME NEW v \in GridTables, AboveReference(v)
  PROVE  /\ \A s \in GridStates : Reference[s] <= v[s]
         /\ \A s \in GridEval : GridBackup(s, GridView(s, v)) <= v[s]
<1>1. ASSUME NEW s \in GridStates PROVE Reference[s] <= v[s]
  <2>1. CASE s \in GridEval
    BY <2>1 DEF AboveReference
  <2>2. CASE s \notin GridEval
    <3>1. Reference[s] = GridValue0[s] /\ v[s] = GridValue0[s] /\ GridValue0[s] \in 0 .. TopCost
      BY <2>2, ReferenceFacts, Value0Facts DEF GridSolves, AboveReference, GridTables
    <3>2. QED
      BY <3>1, MdpAssumption
  <2>3. QED
    BY <2>1, <2>2
<1>2. QED
  BY <1>1, EvalFacts DEF AboveReference

LEMMA StartAbove == AboveReference(GridValue0)
<1>1. ASSUME NEW s \in GridStates, s \in GridEval
      PROVE  /\ Reference[s] <= GridValue0[s]
             /\ GridBackup(s, GridView(s, GridValue0)) <= GridValue0[s]
  <2>1. GridValue0[s] = TopCost
    BY <1>1, Value0Facts
  <2>2. Reference[s] \in 0 .. TopCost
    BY ReferenceFacts DEF GridTables
  <2>3. GridBackup(s, GridView(s, GridValue0)) \in 0 .. TopCost
    BY Value0Facts, BackupOrder, MdpAssumption DEF GridTables
  <2>4. QED
    BY <2>1, <2>2, <2>3, MdpAssumption
<1>2. QED
  BY <1>1 DEF AboveReference

LEMMA AboveIs == ValuesAbove <=> AboveReference(ValueOf)
BY DEF ValuesAbove, AboveReference

LEMMA FreshHeld ==
  ASSUME NEW c, GoodWords(c), NEW h, h = [s \in GridStates |-> {c[s]}]
  PROVE  /\ h \in [GridStates -> SUBSET (Words \union {Unreached})]
         /\ \A s \in GridStates :
              /\ h[s] = {c[s]} /\ c[s] \in h[s] /\ h[s] \subseteq WordsOf(s)
              /\ \A u \in h[s] : Unfused(s, c[s]) <= Unfused(s, u)
<1>1. ASSUME NEW s \in GridStates
      PROVE  /\ h[s] = {c[s]} /\ c[s] \in h[s] /\ h[s] \subseteq WordsOf(s)
             /\ \A u \in h[s] : Unfused(s, c[s]) <= Unfused(s, u)
  <2>1. h[s] = {c[s]} /\ c[s] \in WordsOf(s)
    BY DEF GoodWords
  <2>2. Unfused(s, c[s]) \in 0 .. TopCost
    BY <2>1, WordFacts
  <2>3. QED
    BY <2>1, <2>2, MdpAssumption
<1>2. QED
  BY <1>1 DEF GoodWords

LEMMA InitIInv == Init => IInv
<1> SUFFICES ASSUME Init PROVE IInv
  OBVIOUS
<1>1. /\ GridValue0 \in GridTables /\ cp = Build(GridValue0)
      /\ held = [s \in GridStates |-> {cp[s]}] /\ cand = Candidates(GridValue0) /\ cursor = 0
      /\ phase = "sweep" /\ iter = 0 /\ converged = FALSE /\ calls = 1
      /\ job = Each("claim") /\ cmask = Each({}) /\ layout \in Layouts
  BY Value0Facts DEF Init
<1>2. GoodWords(cp) /\ ValOf(cp) = GridValue0
  <2>1. \A s \in GridStates : ~Free(s) => GridValue0[s] = TopCost
    BY MdpAssumption DEF GridValue0
  <2>2. QED
    BY <1>1, <2>1, BuildValues
<1>3. TypeOK
  <2>1. total \in [GridStates -> 0 .. TopCost] /\ action \in [GridStates -> SUBSET Actions]
    BY <1>1 DEF Init, GridTables
  <2>2. /\ cp \in [GridStates -> Words \union {Unreached}]
        /\ held \in [GridStates -> SUBSET (Words \union {Unreached})]
    BY <1>1, <1>2, FreshHeld DEF GoodWords
  <2>3. cand \in Seq(GridCols) /\ cursor \in Nat
    BY <1>1, CandidatesFacts
  <2>4. /\ job \in [Threads -> {"claim", "eval", "wait"}]
        /\ at \in [Threads -> Nat] /\ lim \in [Threads -> Nat]
        /\ todo \in [Threads -> SUBSET Layers] /\ cmask \in [Threads -> SUBSET Layers]
        /\ changed \in [Threads -> SUBSET (GridCols \X SUBSET Layers)]
    BY DEF Init, Each
  <2>5. mask \in [GridCols -> SUBSET Layers] /\ prev \subseteq GridCols
    BY DEF Init, NoMask
  <2>6. iter \in 0 .. MaxIter /\ calls \in 1 .. MaxCalls
    BY <1>1, FusedAssumption
  <2>7. QED
    BY <1>1, <2>1, <2>2, <2>3, <2>4, <2>5, <2>6 DEF TypeOK
<1>4. LoadsSound
  BY <1>1, <1>2, FreshHeld DEF LoadsSound
<1>5. ValueOf = GridValue0
  BY <1>2, <1>3, <1>4, CpFacts
<1>6. ClaimsSound
  <2>1. \A i, j \in 1 .. Len(cand) : cand[i] = cand[j] => i = j
    BY <1>1, CandidatesFacts
  <2>2. \A w \in Threads : job[w] = "claim" /\ cmask[w] = {}
    BY <1>1 DEF Each
  <2>3. QED
    BY <2>1, <2>2 DEF ClaimsSound
<1>7. StaleAnnounced
  BY <1>1, <1>2, FreshHeld DEF StaleAnnounced
<1>8. Phases
  BY <1>1, FusedAssumption DEF Phases
<1>9. ValuesAbove
  BY <1>5, StartAbove, AboveIs
<1>10. NoHiddenChange
  <2> SUFFICES ASSUME NEW s \in GridEval
               PROVE  Unfused(s, cp[s]) <= Lowest(s, Now(s)) \/ Coming(s)
    BY DEF NoHiddenChange
  <2>1. s \in GridStates /\ s[2] \in ToEval(s[1])
    <3>1. s \in GridStates /\ s = <<s[1], s[2]>> /\ s[2] \in Layers
      BY EvalFacts, StateFacts, LayerFacts
    <3>2. Gather(s[1]) = Layers
      BY <1>1 DEF Gather
    <3>3. QED
      BY <3>1, <3>2 DEF ToEval
  <2>2. CASE GridValue0[s] <= GridBackup(s, GridView(s, GridValue0))
    BY <1>3, <1>4, <1>5, <2>1, <2>2, CpFacts
  <2>3. CASE \E i \in 1 .. Len(cand) : cand[i] = s[1]
    <3>1. s[1] \in {cand[i] : i \in cursor + 1 .. Len(cand)}
      BY <1>1, <2>3
    <3>2. QED
      BY <2>1, <3>1 DEF Coming
  <2>4. QED
    BY <1>1, <2>2, <2>3, StartCovers
<1>11. PolicyFits
  BY <1>1 DEF PolicyFits
<1>12. QED
  BY <1>3, <1>4, <1>6, <1>7, <1>8, <1>9, <1>10, <1>11 DEF IInv

\* A column that a worker has claimed is one of the list.
LEMMA ColFacts ==
  ASSUME TypeOK, ClaimsSound, NEW w \in Threads, job[w] = "eval"
  PROVE  /\ at[w] \in 1 .. Len(cand) /\ lim[w] \in 1 .. Len(cand)
         /\ cursor \in Nat /\ Len(cand) \in Nat /\ at[w] <= lim[w] /\ lim[w] <= cursor
         /\ ColOf(w) = cand[at[w]] /\ ColOf(w) \in GridCols
<1>1. /\ at[w] \in 1 .. lim[w] /\ lim[w] <= cursor /\ lim[w] <= Len(cand)
      /\ at[w] \in Nat /\ lim[w] \in Nat /\ cursor \in Nat /\ cand \in Seq(GridCols)
  BY DEF ClaimsSound, TypeOK
<1>2. Len(cand) \in Nat
  BY <1>1
<1>3. at[w] \in 1 .. Len(cand) /\ lim[w] \in 1 .. Len(cand) /\ at[w] <= lim[w]
  BY <1>1, <1>2
<1>4. cand[at[w]] \in GridCols
  BY <1>1, <1>3
<1>5. QED
  BY <1>1, <1>2, <1>3, <1>4 DEF ColOf

\* A claim that finds columns left takes a block behind the cursor.
LEMMA ClaimBlock ==
  ASSUME TypeOK, NEW w \in Threads, Claim(w), cursor < Len(cand)
  PROVE  /\ job' = [job EXCEPT ![w] = "eval"]
         /\ at' = [at EXCEPT ![w] = cursor + 1]
         /\ lim'[w] \in Nat /\ lim' = [lim EXCEPT ![w] = lim'[w]]
         /\ todo' = [todo EXCEPT ![w] = ToEval(cand[cursor + 1])]
         /\ cursor + 1 <= lim'[w] /\ lim'[w] <= Len(cand) /\ lim'[w] <= cursor'
         /\ lim'[w] = Len(cand) \/ lim'[w] = cursor'
         /\ cursor \in Nat /\ Len(cand) \in Nat /\ cursor' = cursor + Block /\ Block \in Nat \ {0}
<1>1. /\ cursor \in Nat /\ Len(cand) \in Nat /\ Block \in Nat \ {0} /\ cursor' = cursor + Block
      /\ job \in [Threads -> {"claim", "eval", "wait"}]
      /\ at \in [Threads -> Nat] /\ lim \in [Threads -> Nat] /\ todo \in [Threads -> SUBSET Layers]
  BY FusedAssumption DEF TypeOK, Claim
<1>2. ~(cursor >= Len(cand))
  BY <1>1
<1>3. /\ job' = [job EXCEPT ![w] = "eval"]
      /\ at' = [at EXCEPT ![w] = cursor + 1]
      /\ lim' = [lim EXCEPT ![w] = Min({cursor + Block, Len(cand)})]
      /\ todo' = [todo EXCEPT ![w] = ToEval(cand[cursor + 1])]
  BY <1>2 DEF Claim
<1> DEFINE S == {cursor + Block, Len(cand)}
<1>4. lim'[w] = Min(S) /\ lim' = [lim EXCEPT ![w] = lim'[w]]
  BY <1>1, <1>3
<1>5. Min(S) \in S /\ \A k \in S : Min(S) <= k
  <2>1. S \in SUBSET Nat /\ S # {}
    BY <1>1
  <2> HIDE DEF S
  <2>2. QED
    BY <2>1, MinFacts
<1>6. QED
  BY <1>1, <1>3, <1>4, <1>5

\* What a step that leaves the words and the lists alone keeps.
LEMMA ToEvalSame ==
  ASSUME UNCHANGED <<layout, iter, mask>>
  PROVE  \A c : ToEval(c)' = ToEval(c)
BY DEF ToEval, Gather

LEMMA ClaimType ==
  ASSUME TypeOK, NEW w \in Threads, Claim(w)
  PROVE  TypeOK'
<1>1. UNCHANGED <<layout, total, action, cp, held, cand, cmask, changed, mask, prev, iter,
                  phase, converged, calls>>
  BY DEF Claim, table, words, round, status
<1>2. cursor' \in Nat
  <2>1. cursor \in Nat /\ Block \in Nat /\ cursor' = cursor + Block
    BY FusedAssumption DEF TypeOK, Claim
  <2>2. QED
    BY <2>1
<1>3. /\ job' \in [Threads -> {"claim", "eval", "wait"}]
      /\ at' \in [Threads -> Nat] /\ lim' \in [Threads -> Nat]
      /\ todo' \in [Threads -> SUBSET Layers]
  <2>0. /\ job \in [Threads -> {"claim", "eval", "wait"}]
        /\ at \in [Threads -> Nat] /\ lim \in [Threads -> Nat]
        /\ todo \in [Threads -> SUBSET Layers]
        /\ cursor \in Nat /\ Len(cand) \in Nat
    BY DEF TypeOK
  <2>1. CASE cursor < Len(cand)
    <3>1. /\ job' = [job EXCEPT ![w] = "eval"] /\ at' = [at EXCEPT ![w] = cursor + 1]
          /\ lim'[w] \in Nat /\ lim' = [lim EXCEPT ![w] = lim'[w]]
          /\ todo' = [todo EXCEPT ![w] = ToEval(cand[cursor + 1])]
      BY <2>1, ClaimBlock
    <3>2. ToEval(cand[cursor + 1]) \in SUBSET Layers
      BY ToEvalFacts
    <3>3. job' \in [Threads -> {"claim", "eval", "wait"}] /\ lim' \in [Threads -> Nat]
      BY <2>0, <3>1
    <3>4. at' \in [Threads -> Nat]
      <4>1. cursor + 1 \in Nat
        BY <2>0
      <4>2. QED
        BY <2>0, <3>1, <4>1
    <3>5. todo' \in [Threads -> SUBSET Layers]
      BY <2>0, <3>1, <3>2
    <3>6. QED
      BY <3>3, <3>4, <3>5
  <2>2. CASE ~(cursor < Len(cand))
    <3>1. job' = [job EXCEPT ![w] = "wait"] /\ UNCHANGED <<at, lim, todo>>
      BY <2>2 DEF Claim
    <3>2. QED
      BY <2>0, <3>1
  <2>3. QED
    BY <2>1, <2>2
<1>4. QED
  BY <1>1, <1>2, <1>3 DEF TypeOK

LEMMA ClaimClaims ==
  ASSUME TypeOK, ClaimsSound, NEW w \in Threads, Claim(w)
  PROVE  ClaimsSound'
<1>1. /\ UNCHANGED <<cand, cmask, layout, iter, mask>> /\ job[w] = "claim"
      /\ cursor' = cursor + Block
  BY DEF Claim, round
<1>2. /\ cursor \in Nat /\ Len(cand) \in Nat /\ Block \in Nat \ {0}
      /\ job \in [Threads -> {"claim", "eval", "wait"}]
      /\ at \in [Threads -> Nat] /\ lim \in [Threads -> Nat] /\ todo \in [Threads -> SUBSET Layers]
  BY FusedAssumption DEF TypeOK
<1>3. \A i, j \in 1 .. Len(cand') : cand'[i] = cand'[j] => i = j
  BY <1>1 DEF ClaimsSound
<1>4. CASE cursor < Len(cand)
  <2>1. /\ job' = [job EXCEPT ![w] = "eval"] /\ at' = [at EXCEPT ![w] = cursor + 1]
        /\ lim'[w] \in Nat /\ lim' = [lim EXCEPT ![w] = lim'[w]]
        /\ todo' = [todo EXCEPT ![w] = ToEval(cand[cursor + 1])]
        /\ cursor + 1 <= lim'[w] /\ lim'[w] <= Len(cand) /\ lim'[w] <= cursor'
    BY <1>4, ClaimBlock
  <2>2. /\ job'[w] = "eval" /\ at'[w] = cursor + 1 /\ todo'[w] = ToEval(cand[cursor + 1])
        /\ \A v \in Threads \ {w} : /\ job'[v] = job[v] /\ at'[v] = at[v]
                                    /\ lim'[v] = lim[v] /\ todo'[v] = todo[v]
    BY <1>2, <2>1
  <2>3. ASSUME NEW v \in Threads
        PROVE  /\ job'[v] = "wait" => cursor' >= Len(cand')
               /\ job'[v] # "eval" => cmask'[v] = {}
    <3>1. CASE v = w
      BY <2>2, <3>1
    <3>2. CASE v # w
      <4>1. job'[v] = job[v] /\ cmask'[v] = cmask[v]
        BY <1>1, <2>2, <3>2
      <4>2. /\ job[v] = "wait" => cursor >= Len(cand)
            /\ job[v] # "eval" => cmask[v] = {}
        BY DEF ClaimsSound
      <4>3. QED
        BY <1>1, <1>2, <4>1, <4>2
    <3>3. QED
      BY <3>1, <3>2
  <2>4. ASSUME NEW v \in Threads, job'[v] = "eval"
        PROVE  /\ at'[v] \in 1 .. lim'[v] /\ lim'[v] <= cursor' /\ lim'[v] <= Len(cand')
               /\ todo'[v] \subseteq ToEval(ColOf(v))'
               /\ at'[v] = cursor + 1 \/ lim'[v] <= cursor
    <3>1. \A c : ToEval(c)' = ToEval(c)
      BY <1>1, ToEvalSame
    <3>2. CASE v = w
      <4>1. ColOf(v)' = cand[cursor + 1]
        BY <1>1, <2>2, <3>2 DEF ColOf
      <4>2. todo'[v] \subseteq ToEval(ColOf(v))'
        BY <1>1, <2>2, <3>2, <4>1 DEF ToEval, Gather
      <4>3. QED
        BY <1>1, <1>2, <2>1, <2>2, <3>2, <4>2
    <3>3. CASE v # w
      <4>1. job[v] = "eval" /\ at'[v] = at[v] /\ lim'[v] = lim[v] /\ todo'[v] = todo[v]
        BY <2>2, <2>4, <3>3
      <4>2. ColOf(v)' = ColOf(v)
        BY <1>1, <4>1 DEF ColOf
      <4>3. /\ at[v] \in 1 .. lim[v] /\ lim[v] <= cursor /\ lim[v] <= Len(cand)
            /\ todo[v] \subseteq ToEval(ColOf(v))
        BY <4>1 DEF ClaimsSound
      <4>4. todo'[v] \subseteq ToEval(ColOf(v))'
        BY <1>1, <4>1, <4>2, <4>3 DEF ToEval, Gather
      <4>5. lim[v] \in Nat
        BY <1>2
      <4>6. QED
        BY <1>1, <1>2, <4>1, <4>3, <4>4, <4>5
    <3>4. QED
      BY <3>2, <3>3
  <2>5. ASSUME NEW v \in Threads, NEW u \in Threads \ {v}, job'[v] = "eval", job'[u] = "eval"
        PROVE  lim'[u] < at'[v] \/ lim'[v] < at'[u]
    <3>1. CASE v # w /\ u # w
      BY <2>2, <2>5, <3>1 DEF ClaimsSound
    <3>2. CASE v = w
      <4>1. lim'[u] <= cursor /\ lim'[u] \in Nat
        <5>1. u # w
          BY <3>2
        <5>2. lim'[u] = lim[u] /\ job[u] = "eval"
          BY <2>2, <2>5, <5>1
        <5>3. QED
          BY <1>2, <5>2 DEF ClaimsSound
      <4>2. QED
        BY <1>2, <2>2, <3>2, <4>1
    <3>3. CASE u = w
      <4>1. lim'[v] <= cursor /\ lim'[v] \in Nat
        <5>1. v # w
          BY <3>3
        <5>2. lim'[v] = lim[v] /\ job[v] = "eval"
          BY <2>2, <2>5, <5>1
        <5>3. QED
          BY <1>2, <5>2 DEF ClaimsSound
      <4>2. QED
        BY <1>2, <2>2, <3>3, <4>1
    <3>4. QED
      BY <3>1, <3>2, <3>3
  <2>6. QED
    BY <1>3, <2>3, <2>4, <2>5 DEF ClaimsSound
<1>5. CASE ~(cursor < Len(cand))
  <2>1. job' = [job EXCEPT ![w] = "wait"] /\ UNCHANGED <<at, lim, todo>>
    BY <1>2, <1>5 DEF Claim
  <2>2. job'[w] = "wait" /\ \A v \in Threads \ {w} : job'[v] = job[v]
    BY <1>2, <2>1
  <2>3. cmask'[w] = {}
    BY <1>1 DEF ClaimsSound
  <2>4. cursor' >= Len(cand') /\ cursor' >= cursor
    BY <1>1, <1>2, <1>5
  <2>5. ASSUME NEW v \in Threads, job'[v] = "eval"
        PROVE  /\ job[v] = "eval" /\ ColOf(v)' = ColOf(v)
               /\ at'[v] \in 1 .. lim'[v] /\ lim'[v] <= cursor' /\ lim'[v] <= Len(cand')
               /\ todo'[v] \subseteq ToEval(ColOf(v))'
    <3>1. job[v] = "eval" /\ v # w
      BY <2>2, <2>5
    <3>2. ColOf(v)' = ColOf(v)
      BY <1>1, <2>1 DEF ColOf
    <3>3. todo'[v] \subseteq ToEval(ColOf(v))'
      <4>1. todo[v] \subseteq ToEval(ColOf(v))
        BY <3>1 DEF ClaimsSound
      <4>2. QED
        BY <1>1, <2>1, <3>2, <4>1 DEF ToEval, Gather
    <3>4. /\ at[v] \in 1 .. lim[v] /\ lim[v] <= cursor /\ lim[v] <= Len(cand) /\ lim[v] \in Nat
      BY <1>2, <3>1 DEF ClaimsSound
    <3>5. QED
      BY <1>1, <1>2, <2>1, <2>4, <3>1, <3>2, <3>3, <3>4
  <2>6. ASSUME NEW v \in Threads, NEW u \in Threads \ {v}, job'[v] = "eval", job'[u] = "eval"
        PROVE  lim'[u] < at'[v] \/ lim'[v] < at'[u]
    BY <2>1, <2>5, <2>6 DEF ClaimsSound
  <2>7. \A v \in Threads : job'[v] # "eval" => cmask'[v] = {}
    <3>1. ASSUME NEW v \in Threads, job'[v] # "eval" PROVE cmask'[v] = {}
      BY <1>1, <2>2, <2>3, <3>1 DEF ClaimsSound
    <3>2. QED
      BY <3>1
  <2>8. QED
    BY <1>3, <2>4, <2>5, <2>6, <2>7 DEF ClaimsSound
<1>6. QED
  BY <1>4, <1>5

\* A step that leaves the words alone and moves no state out of what is still
\* to come, nor into it, keeps what the invariant says of them.
LEMMA WordsStay ==
  ASSUME LoadsSound, StaleAnnounced, Phases, ValuesAbove, NoHiddenChange, PolicyFits,
         UNCHANGED <<cp, held, total, action, iter, phase, converged>>, phase = "sweep",
         \A s \in GridStates : Coming(s)' <=> Coming(s),
         \A d : Announced(d) => Announced(d)'
  PROVE  (LoadsSound /\ StaleAnnounced /\ Phases /\ ValuesAbove /\ NoHiddenChange /\ PolicyFits)'
<1>1. LoadsSound'
  BY DEF LoadsSound
<1>2. StaleAnnounced'
  <2> SUFFICES ASSUME NEW s \in GridStates
               PROVE  /\ held'[s] # {cp'[s]} => Announced(s)'
                      /\ Coming(s)' => held'[s] = {cp'[s]}
    BY DEF StaleAnnounced
  <2>1. /\ held[s] # {cp[s]} => Announced(s)
        /\ Coming(s) => held[s] = {cp[s]}
    BY DEF StaleAnnounced
  <2>2. QED
    BY <2>1
<1>3. Phases'
  BY DEF Phases
<1>4. ValuesAbove'
  BY DEF ValuesAbove, ValueOf
<1>5. NoHiddenChange'
  <2> SUFFICES ASSUME NEW s \in GridEval
               PROVE  \/ Unfused(s, cp'[s]) <= Lowest(s, Now(s))'
                      \/ Coming(s)'
                      \/ \E k \in Outcomes(s) : Announced(GridNbr(s, k))'
    BY DEF NoHiddenChange
  <2>1. \/ Unfused(s, cp[s]) <= Lowest(s, Now(s))
        \/ Coming(s)
        \/ \E k \in Outcomes(s) : Announced(GridNbr(s, k))
    BY DEF NoHiddenChange
  <2>2. Lowest(s, Now(s))' = Lowest(s, Now(s))
    BY DEF Now
  <2>3. QED
    BY <2>1, <2>2, EvalFacts
<1>6. PolicyFits'
  BY DEF PolicyFits
<1>7. QED
  BY <1>1, <1>2, <1>3, <1>4, <1>5, <1>6

LEMMA ClaimComing ==
  ASSUME TypeOK, ClaimsSound, NEW w \in Threads, Claim(w), NEW s \in GridStates
  PROVE  /\ Coming(s)' <=> Coming(s)
         /\ \A d : Announced(d) => Announced(d)'
<1>1. /\ UNCHANGED <<cand, changed, cmask, layout, iter, mask>> /\ job[w] = "claim"
      /\ cursor' = cursor + Block
  BY DEF Claim, round
<1>2. /\ cursor \in Nat /\ Len(cand) \in Nat /\ Block \in Nat \ {0}
      /\ job \in [Threads -> {"claim", "eval", "wait"}]
      /\ at \in [Threads -> Nat] /\ lim \in [Threads -> Nat] /\ todo \in [Threads -> SUBSET Layers]
  BY FusedAssumption DEF TypeOK
<1>3. \A v \in Threads : v # w => /\ job'[v] = job[v] /\ at'[v] = at[v]
                                  /\ lim'[v] = lim[v] /\ todo'[v] = todo[v]
  <2>1. CASE cursor < Len(cand)
    BY <1>2, <2>1, ClaimBlock
  <2>2. CASE ~(cursor < Len(cand))
    BY <1>2, <2>2 DEF Claim
  <2>3. QED
    BY <2>1, <2>2
<1>4. \A v \in Threads : v # w => ColOf(v)' = ColOf(v)
  BY <1>1, <1>3 DEF ColOf
<1>5. \A d : Announced(d) => Announced(d)'
  <2> SUFFICES ASSUME NEW d, Announced(d) PROVE Announced(d)'
    OBVIOUS
  <2>1. CASE \E e \in Told : e[1] = d[1] /\ d[2] \in e[2]
    BY <1>1, <2>1 DEF Announced, Told
  <2>2. CASE \E v \in Threads : job[v] = "eval" /\ d[1] = ColOf(v) /\ d[2] \in cmask[v]
    <3>1. PICK v \in Threads : job[v] = "eval" /\ d[1] = ColOf(v) /\ d[2] \in cmask[v]
      BY <2>2
    <3>2. v # w
      BY <1>1, <3>1
    <3>3. job'[v] = "eval" /\ d[1] = ColOf(v)' /\ d[2] \in cmask'[v]
      BY <1>1, <1>3, <1>4, <3>1, <3>2
    <3>4. QED
      BY <3>3 DEF Announced
  <2>3. QED
    BY <2>1, <2>2 DEF Announced
<1> DEFINE T == s[2] \in ToEval(s[1])
           Rest == s[1] \in {cand[i] : i \in cursor + 1 .. Len(cand)}
           Has(v) == job[v] = "eval" /\
             \/ s[1] = ColOf(v) /\ s[2] \in todo[v]
             \/ s[2] \in ToEval(s[1]) /\ s[1] \in {cand[i] : i \in at[v] + 1 .. lim[v]}
<1>6. T' <=> T
  BY <1>1 DEF ToEval, Gather
<1>7. \A v \in Threads : v # w => (Has(v)' <=> Has(v))
  BY <1>1, <1>3, <1>4, <1>6
<1>8. ~Has(w)
  BY <1>1
<1>9. (T' /\ Rest') \/ Has(w)' <=> T /\ Rest
  <2>1. CASE cursor < Len(cand)
    <3>1. /\ job' = [job EXCEPT ![w] = "eval"] /\ at' = [at EXCEPT ![w] = cursor + 1]
          /\ todo' = [todo EXCEPT ![w] = ToEval(cand[cursor + 1])]
          /\ cursor + 1 <= lim'[w] /\ lim'[w] <= Len(cand) /\ lim'[w] \in Nat
          /\ lim'[w] = Len(cand) \/ lim'[w] = cursor'
          /\ lim'[w] <= cursor'
      BY <2>1, ClaimBlock
    <3>2. job'[w] = "eval" /\ at'[w] = cursor + 1 /\ todo'[w] = ToEval(cand[cursor + 1])
      BY <1>2, <3>1
    <3>3. ColOf(w)' = cand[cursor + 1]
      BY <1>1, <3>2 DEF ColOf
    <3>4. Has(w)' <=> \/ s[1] = cand[cursor + 1] /\ T
                      \/ T /\ s[1] \in {cand[i] : i \in cursor + 2 .. lim'[w]}
      <4>1. at'[w] + 1 = cursor + 2
        BY <1>2, <3>2
      <4>2. \A c : (s[2] \in ToEval(c))' <=> s[2] \in ToEval(c)
        BY <1>1 DEF ToEval, Gather
      <4>3. Has(w)' <=> \/ s[1] = cand[cursor + 1] /\ s[2] \in ToEval(cand[cursor + 1])
                        \/ T' /\ s[1] \in {cand[i] : i \in cursor + 2 .. lim'[w]}
        BY <1>1, <3>2, <3>3, <4>1
      <4>4. QED
        BY <1>6, <4>3
    <3>5. Rest' <=> s[1] \in {cand[i] : i \in cursor' + 1 .. Len(cand)}
      BY <1>1
    <3>6. ASSUME NEW i \in cursor + 1 .. Len(cand)
          PROVE  i = cursor + 1 \/ i \in cursor + 2 .. lim'[w] \/ i \in cursor' + 1 .. Len(cand)
      BY <1>1, <1>2, <3>1
    <3>7. cursor + 1 \in cursor + 1 .. Len(cand)
      BY <1>2, <2>1
    <3>8. \A i \in cursor + 2 .. lim'[w] : i \in cursor + 1 .. Len(cand)
      BY <1>1, <1>2, <3>1
    <3>9. \A i \in cursor' + 1 .. Len(cand) : i \in cursor + 1 .. Len(cand)
      BY <1>1, <1>2
    <3>10. T /\ Rest => (T' /\ Rest') \/ Has(w)'
      <4>1. ASSUME T, Rest PROVE (T' /\ Rest') \/ Has(w)'
        <5>1. PICK i \in cursor + 1 .. Len(cand) : s[1] = cand[i]
          BY <4>1
        <5>2. i = cursor + 1 \/ i \in cursor + 2 .. lim'[w] \/ i \in cursor' + 1 .. Len(cand)
          BY <3>6
        <5> HIDE DEF T, Rest, Has
        <5>3. QED
          BY <1>6, <3>4, <3>5, <4>1, <5>1, <5>2
      <4>2. QED
        BY <4>1
    <3>11. Rest' => Rest
      BY <3>5, <3>9
    <3>12. Has(w)' => T /\ Rest
      <4>1. cand[cursor + 1] \in {cand[i] : i \in cursor + 1 .. Len(cand)}
        BY <3>7
      <4>2. QED
        BY <3>4, <3>8, <4>1
    <3> HIDE DEF T, Rest, Has
    <3>13. QED
      BY <1>6, <3>10, <3>11, <3>12
  <2>2. CASE ~(cursor < Len(cand))
    <3>1. job' = [job EXCEPT ![w] = "wait"]
      BY <1>2, <2>2 DEF Claim
    <3>2. ~Has(w)'
      BY <1>2, <3>1
    <3>3. ~Rest /\ ~Rest'
      <4>1. cursor + 1 .. Len(cand) = {} /\ cursor' + 1 .. Len(cand) = {}
        BY <1>1, <1>2, <2>2
      <4>2. QED
        BY <1>1, <4>1
    <3>4. QED
      BY <3>2, <3>3
  <2>3. QED
    BY <2>1, <2>2
<1>10. Coming(s) <=> (T /\ Rest) \/ \E v \in Threads : Has(v)
  BY DEF Coming
<1>11. Coming(s)' <=> (T' /\ Rest') \/ \E v \in Threads : Has(v)'
  BY DEF Coming
<1> HIDE DEF T, Rest, Has
<1>12. QED
  BY <1>5, <1>7, <1>8, <1>9, <1>10, <1>11

LEMMA ClaimKeeps ==
  ASSUME IInv, NEW w \in Threads, Claim(w)
  PROVE  IInv'
<1>1. /\ TypeOK /\ LoadsSound /\ ClaimsSound /\ StaleAnnounced
      /\ Phases /\ ValuesAbove /\ NoHiddenChange /\ PolicyFits
  BY DEF IInv
<1>2. UNCHANGED <<cp, held, total, action, iter, phase, converged>> /\ phase = "sweep"
  BY DEF Claim, table, words, round, status
<1>3. /\ \A s \in GridStates : Coming(s)' <=> Coming(s)
      /\ \A d : Announced(d) => Announced(d)'
  <2>1. \A s \in GridStates : Coming(s)' <=> Coming(s)
    BY <1>1, ClaimComing
  <2>2. <<<<0, 0>>, 0>> \in GridStates
    BY GeomAssumption DEF GridStates, GridCols
  <2>3. \A d : Announced(d) => Announced(d)'
    BY <1>1, <2>2, ClaimComing
  <2>4. QED
    BY <2>1, <2>3
<1>4. TypeOK' /\ ClaimsSound'
  BY <1>1, ClaimType, ClaimClaims
<1>5. (LoadsSound /\ StaleAnnounced /\ Phases /\ ValuesAbove /\ NoHiddenChange /\ PolicyFits)'
  BY <1>1, <1>2, <1>3, WordsStay
<1>6. QED
  BY <1>4, <1>5 DEF IInv

\* The end of a column: what changes of its worker.
LEMMA EndColumnIs ==
  ASSUME TypeOK, ClaimsSound, NEW w \in Threads, EndColumn(w)
  PROVE  /\ job[w] = "eval" /\ todo[w] = {}
         /\ cmask'[w] = {} /\ at'[w] = at[w] + 1
         /\ \/ /\ at[w] < lim[w] /\ job' = job
               /\ todo'[w] = ToEval(cand[at[w] + 1]) /\ ColOf(w)' = cand[at[w] + 1]
            \/ at[w] = lim[w] /\ job'[w] = "claim" /\ todo' = todo
         /\ \A v \in Threads : v # w =>
              /\ job'[v] = job[v] /\ at'[v] = at[v] /\ todo'[v] = todo[v]
              /\ cmask'[v] = cmask[v] /\ changed'[v] = changed[v] /\ ColOf(v)' = ColOf(v)
         /\ changed'[w] = IF cmask[w] = {} THEN changed[w]
                          ELSE changed[w] \union {<<ColOf(w), cmask[w]>>}
         /\ UNCHANGED <<layout, total, action, cp, held, cand, cursor, lim, mask, prev, iter,
                        phase, converged, calls>>
<1>1. /\ job \in [Threads -> {"claim", "eval", "wait"}]
      /\ at \in [Threads -> Nat] /\ lim \in [Threads -> Nat]
      /\ todo \in [Threads -> SUBSET Layers] /\ cmask \in [Threads -> SUBSET Layers]
      /\ changed \in [Threads -> SUBSET (GridCols \X SUBSET Layers)]
  BY DEF TypeOK
<1>2. /\ job[w] = "eval" /\ todo[w] = {}
      /\ UNCHANGED <<layout, total, action, cp, held, cand, cursor, lim, mask, prev, iter,
                     phase, converged, calls>>
  BY DEF EndColumn, table, words, lists, round, status
<1>3. cmask' = [cmask EXCEPT ![w] = {}] /\ at' = [at EXCEPT ![w] = at[w] + 1]
  BY DEF EndColumn
<1>4. at[w] <= lim[w]
  BY <1>2, ColFacts
<1>5. \/ /\ at[w] < lim[w] /\ job' = job
         /\ todo' = [todo EXCEPT ![w] = ToEval(cand[at[w] + 1])]
      \/ at[w] = lim[w] /\ job' = [job EXCEPT ![w] = "claim"] /\ todo' = todo
  BY <1>1, <1>4 DEF EndColumn
<1>6. /\ changed' = IF cmask[w] = {} THEN changed
                    ELSE [changed EXCEPT ![w] = changed[w] \union {<<ColOf(w), cmask[w]>>}]
  BY DEF EndColumn
<1>7. /\ cmask'[w] = {} /\ at'[w] = at[w] + 1
      /\ \A v \in Threads : v # w => at'[v] = at[v] /\ cmask'[v] = cmask[v]
  BY <1>1, <1>3
<1>8. /\ \A v \in Threads : v # w => job'[v] = job[v] /\ todo'[v] = todo[v]
      /\ \/ at[w] < lim[w] /\ job' = job /\ todo'[w] = ToEval(cand[at[w] + 1])
         \/ at[w] = lim[w] /\ job'[w] = "claim" /\ todo' = todo
  BY <1>1, <1>5
<1>9. /\ \A v \in Threads : v # w => changed'[v] = changed[v]
      /\ changed'[w] = IF cmask[w] = {} THEN changed[w]
                       ELSE changed[w] \union {<<ColOf(w), cmask[w]>>}
  BY <1>1, <1>6
<1>10. /\ ColOf(w)' = cand[at[w] + 1]
       /\ \A v \in Threads : v # w => ColOf(v)' = ColOf(v)
  BY <1>2, <1>7 DEF ColOf
<1>11. QED
  BY <1>2, <1>7, <1>8, <1>9, <1>10

LEMMA EndColumnType ==
  ASSUME TypeOK, ClaimsSound, NEW w \in Threads, EndColumn(w)
  PROVE  TypeOK'
<1>1. UNCHANGED <<layout, total, action, cp, held, cand, cursor, lim, mask, prev, iter,
                  phase, converged, calls>>
  BY EndColumnIs
<1>2. /\ job \in [Threads -> {"claim", "eval", "wait"}]
      /\ at \in [Threads -> Nat] /\ lim \in [Threads -> Nat]
      /\ todo \in [Threads -> SUBSET Layers] /\ cmask \in [Threads -> SUBSET Layers]
      /\ changed \in [Threads -> SUBSET (GridCols \X SUBSET Layers)]
  BY DEF TypeOK
<1>3. at' \in [Threads -> Nat] /\ cmask' \in [Threads -> SUBSET Layers]
  <2>1. at[w] + 1 \in Nat
    BY <1>2
  <2>2. cmask' = [cmask EXCEPT ![w] = {}] /\ at' = [at EXCEPT ![w] = at[w] + 1]
    BY DEF EndColumn
  <2>3. QED
    BY <1>2, <2>1, <2>2
<1>4. job' \in [Threads -> {"claim", "eval", "wait"}]
  BY <1>2 DEF EndColumn
<1>5. todo' \in [Threads -> SUBSET Layers]
  <2>1. ToEval(cand[at[w] + 1]) \in SUBSET Layers
    BY ToEvalFacts
  <2>2. \/ todo' = [todo EXCEPT ![w] = ToEval(cand[at[w] + 1])]
        \/ todo' = todo
    BY DEF EndColumn
  <2>3. QED
    BY <1>2, <2>1, <2>2
<1>6. changed' \in [Threads -> SUBSET (GridCols \X SUBSET Layers)]
  <2>1. ColOf(w) \in GridCols
    BY EndColumnIs, ColFacts
  <2>2. <<ColOf(w), cmask[w]>> \in GridCols \X SUBSET Layers
    BY <1>2, <2>1
  <2>3. changed[w] \union {<<ColOf(w), cmask[w]>>} \in SUBSET (GridCols \X SUBSET Layers)
    BY <1>2, <2>2
  <2>4. \/ changed' = changed
        \/ changed' = [changed EXCEPT ![w] = changed[w] \union {<<ColOf(w), cmask[w]>>}]
    BY DEF EndColumn
  <2>5. QED
    BY <1>2, <2>3, <2>4
<1>7. QED
  BY <1>1, <1>3, <1>4, <1>5, <1>6 DEF TypeOK

LEMMA EndColumnClaims ==
  ASSUME TypeOK, ClaimsSound, NEW w \in Threads, EndColumn(w)
  PROVE  ClaimsSound'
<1>1. /\ job[w] = "eval" /\ cmask'[w] = {} /\ at'[w] = at[w] + 1
      /\ \/ /\ at[w] < lim[w] /\ job' = job
            /\ todo'[w] = ToEval(cand[at[w] + 1]) /\ ColOf(w)' = cand[at[w] + 1]
         \/ at[w] = lim[w] /\ job'[w] = "claim" /\ todo' = todo
      /\ \A v \in Threads : v # w =>
           /\ job'[v] = job[v] /\ at'[v] = at[v] /\ todo'[v] = todo[v]
           /\ cmask'[v] = cmask[v] /\ ColOf(v)' = ColOf(v)
      /\ UNCHANGED <<cand, cursor, lim, layout, iter, mask>>
  BY EndColumnIs
<1>2. /\ at \in [Threads -> Nat] /\ lim \in [Threads -> Nat] /\ cursor \in Nat
  BY DEF TypeOK
<1>3. ASSUME NEW v \in Threads
      PROVE  /\ job'[v] = "eval" => job[v] = "eval"
             /\ job'[v] = "wait" => job[v] = "wait"
             /\ job'[v] # "eval" => cmask'[v] = {}
             /\ at'[v] \in Nat /\ at[v] <= at'[v] /\ at[v] \in Nat
  <2>1. CASE v = w
    BY <1>1, <1>2, <2>1
  <2>2. CASE v # w
    BY <1>1, <1>2, <2>2 DEF ClaimsSound
  <2>3. QED
    BY <2>1, <2>2
<1>4. ASSUME NEW v \in Threads, job'[v] = "eval"
      PROVE  at'[v] \in 1 .. lim'[v] /\ todo'[v] \subseteq ToEval(ColOf(v))'
  <2>1. job[v] = "eval" /\ at[v] \in 1 .. lim[v] /\ todo[v] \subseteq ToEval(ColOf(v))
    BY <1>3, <1>4 DEF ClaimsSound
  <2>2. CASE v = w
    <3>1. /\ at[w] < lim[w] /\ todo'[w] = ToEval(cand[at[w] + 1])
          /\ ColOf(w)' = cand[at[w] + 1] /\ at'[w] = at[w] + 1 /\ lim' = lim
      BY <1>1, <1>4, <2>2
    <3>2. at'[w] \in 1 .. lim'[w]
      BY <1>2, <2>1, <2>2, <3>1
    <3>3. todo'[w] \subseteq ToEval(ColOf(w))'
      BY <1>1, <3>1 DEF ToEval, Gather
    <3>4. QED
      BY <2>2, <3>2, <3>3
  <2>3. CASE v # w
    <3>1. at'[v] = at[v] /\ todo'[v] = todo[v] /\ ColOf(v)' = ColOf(v) /\ lim' = lim
      BY <1>1, <2>3
    <3>2. todo'[v] \subseteq ToEval(ColOf(v))'
      BY <1>1, <2>1, <3>1 DEF ToEval, Gather
    <3>3. QED
      BY <2>1, <3>1, <3>2
  <2>4. QED
    BY <2>2, <2>3
<1>5. ASSUME NEW v \in Threads, NEW u \in Threads \ {v}, job'[v] = "eval", job'[u] = "eval"
      PROVE  lim'[u] < at'[v] \/ lim'[v] < at'[u]
  <2>1. lim[u] < at[v] \/ lim[v] < at[u]
    BY <1>3, <1>5 DEF ClaimsSound
  <2>2. /\ at[v] <= at'[v] /\ at[u] <= at'[u] /\ lim'[u] = lim[u] /\ lim'[v] = lim[v]
        /\ at[v] \in Nat /\ at'[v] \in Nat /\ at[u] \in Nat /\ at'[u] \in Nat
        /\ lim[u] \in Nat /\ lim[v] \in Nat
    BY <1>1, <1>2, <1>3
  <2>3. QED
    BY <2>1, <2>2
<1>6. ASSUME NEW v \in Threads
      PROVE  /\ job'[v] = "wait" => cursor' >= Len(cand')
             /\ job'[v] = "eval" => lim'[v] <= cursor' /\ lim'[v] <= Len(cand')
  BY <1>1, <1>3 DEF ClaimsSound
<1>7. \A i, j \in 1 .. Len(cand') : cand'[i] = cand'[j] => i = j
  BY <1>1 DEF ClaimsSound
<1>8. QED
  BY <1>3, <1>4, <1>5, <1>6, <1>7 DEF ClaimsSound

LEMMA EndColumnAnnounced ==
  ASSUME TypeOK, ClaimsSound, NEW w \in Threads, EndColumn(w), NEW d, Announced(d)
  PROVE  Announced(d)'
<1>1. /\ \A v \in Threads : v # w =>
           /\ job'[v] = job[v] /\ cmask'[v] = cmask[v] /\ ColOf(v)' = ColOf(v)
           /\ changed'[v] = changed[v]
      /\ changed'[w] = IF cmask[w] = {} THEN changed[w]
                       ELSE changed[w] \union {<<ColOf(w), cmask[w]>>}
  BY EndColumnIs
<1>2. CASE \E e \in Told : e[1] = d[1] /\ d[2] \in e[2]
  <2>1. \A v \in Threads : changed[v] \subseteq changed'[v]
    BY <1>1
  <2>2. QED
    BY <1>2, <2>1 DEF Announced, Told
<1>3. CASE \E v \in Threads : job[v] = "eval" /\ d[1] = ColOf(v) /\ d[2] \in cmask[v]
  <2>1. PICK v \in Threads : job[v] = "eval" /\ d[1] = ColOf(v) /\ d[2] \in cmask[v]
    BY <1>3
  <2>2. CASE v = w
    <3>1. <<ColOf(w), cmask[w]>> \in changed'[w]
      BY <1>1, <2>1, <2>2
    <3>2. <<ColOf(w), cmask[w]>> \in Told'
      BY <3>1 DEF Told
    <3>3. QED
      BY <2>1, <2>2, <3>2 DEF Announced
  <2>3. CASE v # w
    <3>1. job'[v] = "eval" /\ d[1] = ColOf(v)' /\ d[2] \in cmask'[v]
      BY <1>1, <2>1, <2>3
    <3>2. QED
      BY <3>1 DEF Announced
  <2>4. QED
    BY <2>2, <2>3
<1>4. QED
  BY <1>2, <1>3 DEF Announced

LEMMA EndColumnComing ==
  ASSUME TypeOK, ClaimsSound, NEW w \in Threads, EndColumn(w), NEW s \in GridStates
  PROVE  Coming(s)' <=> Coming(s)
<1> DEFINE T == s[2] \in ToEval(s[1])
           Rest == s[1] \in {cand[i] : i \in cursor + 1 .. Len(cand)}
           Has(v) == job[v] = "eval" /\
             \/ s[1] = ColOf(v) /\ s[2] \in todo[v]
             \/ s[2] \in ToEval(s[1]) /\ s[1] \in {cand[i] : i \in at[v] + 1 .. lim[v]}
<1>1. /\ job[w] = "eval" /\ todo[w] = {} /\ at'[w] = at[w] + 1
      /\ \/ /\ at[w] < lim[w] /\ job' = job
            /\ todo'[w] = ToEval(cand[at[w] + 1]) /\ ColOf(w)' = cand[at[w] + 1]
         \/ at[w] = lim[w] /\ job'[w] = "claim" /\ todo' = todo
      /\ \A v \in Threads : v # w =>
           /\ job'[v] = job[v] /\ at'[v] = at[v] /\ todo'[v] = todo[v] /\ ColOf(v)' = ColOf(v)
      /\ UNCHANGED <<cand, cursor, lim, layout, iter, mask>>
  BY EndColumnIs
<1>2. /\ at[w] \in Nat /\ lim[w] \in Nat /\ at[w] <= lim[w]
  BY <1>1, ColFacts DEF TypeOK
<1>3. T' <=> T
  BY <1>1 DEF ToEval, Gather
<1>4. Rest' <=> Rest
  BY <1>1
<1>5. \A v \in Threads : v # w => (Has(v)' <=> Has(v))
  BY <1>1, <1>3
<1>6. Has(w)' <=> Has(w)
  <2>1. Has(w) <=> T /\ s[1] \in {cand[i] : i \in at[w] + 1 .. lim[w]}
    BY <1>1
  <2>2. CASE at[w] < lim[w] /\ job' = job
    <3>1. todo'[w] = ToEval(cand[at[w] + 1]) /\ ColOf(w)' = cand[at[w] + 1]
      BY <1>1, <1>2, <2>2
    <3>2. at'[w] + 1 = at[w] + 2
      BY <1>1, <1>2
    <3>3. Has(w)' <=> \/ s[1] = cand[at[w] + 1] /\ s[2] \in ToEval(cand[at[w] + 1])
                      \/ T' /\ s[1] \in {cand[i] : i \in at[w] + 2 .. lim[w]}
      BY <1>1, <2>2, <3>1, <3>2
    <3>4. \A i \in at[w] + 1 .. lim[w] : i = at[w] + 1 \/ i \in at[w] + 2 .. lim[w]
      BY <1>2
    <3>5. at[w] + 1 \in at[w] + 1 .. lim[w] /\ \A i \in at[w] + 2 .. lim[w] : i \in at[w] + 1 .. lim[w]
      BY <1>2, <2>2
    <3>6. s[1] \in {cand[i] : i \in at[w] + 1 .. lim[w]}
            <=> s[1] = cand[at[w] + 1] \/ s[1] \in {cand[i] : i \in at[w] + 2 .. lim[w]}
      BY <3>4, <3>5
    <3> HIDE DEF Has
    <3>7. QED
      BY <1>3, <2>1, <3>3, <3>6
  <2>3. CASE at[w] = lim[w] /\ job'[w] = "claim"
    <3>1. at[w] + 1 .. lim[w] = {}
      BY <1>2, <2>3
    <3>2. QED
      BY <2>1, <2>3, <3>1
  <2>4. QED
    BY <1>1, <2>2, <2>3
<1>7. Coming(s) <=> (T /\ Rest) \/ \E v \in Threads : Has(v)
  BY DEF Coming
<1>8. Coming(s)' <=> (T' /\ Rest') \/ \E v \in Threads : Has(v)'
  BY DEF Coming
<1> HIDE DEF T, Rest, Has
<1>9. QED
  BY <1>3, <1>4, <1>5, <1>6, <1>7, <1>8

LEMMA EndColumnKeeps ==
  ASSUME IInv, NEW w \in Threads, EndColumn(w)
  PROVE  IInv'
<1>1. /\ TypeOK /\ LoadsSound /\ ClaimsSound /\ StaleAnnounced
      /\ Phases /\ ValuesAbove /\ NoHiddenChange /\ PolicyFits
  BY DEF IInv
<1>2. /\ UNCHANGED <<cp, held, total, action, iter, phase, converged>> /\ job[w] = "eval"
  BY <1>1, EndColumnIs
<1>3. phase = "sweep"
  BY <1>1, <1>2 DEF Phases
<1>4. /\ \A s \in GridStates : Coming(s)' <=> Coming(s)
      /\ \A d : Announced(d) => Announced(d)'
  BY <1>1, EndColumnComing, EndColumnAnnounced
<1>5. TypeOK' /\ ClaimsSound'
  BY <1>1, EndColumnType, EndColumnClaims
<1>6. (LoadsSound /\ StaleAnnounced /\ Phases /\ ValuesAbove /\ NoHiddenChange /\ PolicyFits)'
  <2>1. UNCHANGED <<cp, held, total, action, iter, phase, converged>>
    BY <1>2
  <2>2. QED
    BY <1>1, <1>3, <1>4, <2>1, WordsStay
<1>7. QED
  BY <1>5, <1>6 DEF IInv

\* RelaxLayer on the state s, which loads f and backs up cost.
RelaxStep(w, s, f, cost) ==
  /\ job[w] = "eval" /\ s[1] = ColOf(w) /\ s[2] \in todo[w]
  /\ s \in GridEval /\ s \in GridStates
  /\ GoodLoads(s, f) /\ cost = Lowest(s, f) /\ cost \in 0 .. TopCost
  /\ \A k \in Outcomes(s) : GridNbr(s, k) \in GridStates => f[k] \in held[GridNbr(s, k)]
  /\ \/ /\ cost < Unfused(s, cp[s])
        /\ cp' = [cp EXCEPT ![s] = cost + Penalty[s]]
        /\ held' = [held EXCEPT ![s] = held[s] \union {cost + Penalty[s]}]
        /\ cmask' = [cmask EXCEPT ![w] = cmask[w] \union {s[2]}]
     \/ ~(cost < Unfused(s, cp[s])) /\ UNCHANGED <<cp, held, cmask>>
  /\ todo' = [todo EXCEPT ![w] = todo[w] \ {s[2]}]
  /\ UNCHANGED <<layout, total, action, cand, cursor, job, at, lim, changed, mask, prev, iter,
                 phase, converged, calls>>

LEMMA LoadFacts ==
  ASSUME TypeOK, LoadsSound, NEW s \in GridStates, NEW f \in Loads(s)
  PROVE  /\ GoodLoads(s, f)
         /\ \A k \in Outcomes(s) : GridNbr(s, k) \in GridStates => f[k] \in held[GridNbr(s, k)]
         /\ Lowest(s, f) \in 0 .. TopCost
         /\ GridBackup(s, GridView(s, ValueOf)) <= Lowest(s, f)
<1>1. f = [k \in Outcomes(s) |-> f[k]] /\ \A k \in Outcomes(s) : f[k] \in MayLoad(GridNbr(s, k))
  BY DEF Loads
<1>2. ASSUME NEW k \in Outcomes(s), GridNbr(s, k) \in GridStates
      PROVE  /\ f[k] \in held[GridNbr(s, k)] /\ f[k] \in WordsOf(GridNbr(s, k))
             /\ f[k] \in Words \union {Unreached}
             /\ Unfused(GridNbr(s, k), cp[GridNbr(s, k)]) <= Unfused(GridNbr(s, k), f[k])
  <2>1. f[k] \in held[GridNbr(s, k)]
    BY <1>1, <1>2 DEF MayLoad
  <2>2. f[k] \in WordsOf(GridNbr(s, k))
    BY <1>2, <2>1 DEF LoadsSound
  <2>3. QED
    BY <1>2, <2>1, <2>2, WordFacts DEF LoadsSound
<1>3. ASSUME NEW k \in Outcomes(s), GridNbr(s, k) \notin GridStates
      PROVE  f[k] = Unreached
  BY <1>1, <1>3 DEF MayLoad
<1>4. f \in [Outcomes(s) -> Words \union {Unreached}]
  BY <1>1, <1>2, <1>3
<1>5. GoodLoads(s, f)
  BY <1>2, <1>3, <1>4 DEF GoodLoads
<1>6. /\ Lowest(s, f) \in 0 .. TopCost
      /\ GridBackup(s, GridView(s, ValOf(cp))) <= Lowest(s, f)
  BY <1>2, <1>5, CpFacts, LoadsAbove
<1>7. QED
  BY <1>2, <1>5, <1>6, CpFacts

LEMMA RelaxIs ==
  ASSUME IInv, NEW w \in Threads, RelaxLayer(w)
  PROVE  \E s \in GridStates : Coming(s) /\ held[s] = {cp[s]} /\
           \E f, cost :
             /\ RelaxStep(w, s, f, cost)
             /\ GridBackup(s, GridView(s, ValueOf)) <= cost
<1>1. TypeOK /\ LoadsSound /\ ClaimsSound /\ StaleAnnounced /\ Phases
  BY DEF IInv
<1>2. job[w] = "eval" /\ todo[w] # {}
  BY DEF RelaxLayer
<1> DEFINE i == Min(todo[w])
           s == <<ColOf(w), i>>
<1>3. i \in todo[w]
  <2>1. todo[w] \in SUBSET Nat
    BY <1>1 DEF TypeOK, Layers
  <2>2. QED
    BY <1>2, <2>1, MinFacts
<1>4. s \in GridEval /\ s \in GridStates
  BY <1>1, <1>2, <1>3, ToEvalFacts DEF ClaimsSound
<1> HIDE DEF i
<1>5. s[1] = ColOf(w) /\ s[2] = i
  OBVIOUS
<1>6. Coming(s)
  BY <1>2, <1>3, <1>5 DEF Coming
<1>7. held[s] = {cp[s]}
  BY <1>1, <1>2, <1>4, <1>6 DEF StaleAnnounced, Phases
<1>8. PICK own \in held[s], f \in Loads(s) : \E cost \in {Lowest(s, f)} :
        \/ /\ Falls(cost, Unfused(s, own))
           /\ cp' = [cp EXCEPT ![s] = cost + Penalty[s]]
           /\ held' = [held EXCEPT ![s] = @ \union {cost + Penalty[s]}]
           /\ cmask' = [cmask EXCEPT ![w] = @ \union {i}]
        \/ ~Falls(cost, Unfused(s, own)) /\ UNCHANGED <<words, cmask>>
  BY DEF RelaxLayer, i
<1> DEFINE cost == Lowest(s, f)
<1>9. /\ GoodLoads(s, f) /\ cost \in 0 .. TopCost
      /\ \A k \in Outcomes(s) : GridNbr(s, k) \in GridStates => f[k] \in held[GridNbr(s, k)]
      /\ GridBackup(s, GridView(s, ValueOf)) <= cost
  BY <1>1, <1>4, LoadFacts
<1>10. own = cp[s]
  BY <1>7
<1>11. \/ /\ cost < Unfused(s, cp[s])
          /\ cp' = [cp EXCEPT ![s] = cost + Penalty[s]]
          /\ held' = [held EXCEPT ![s] = held[s] \union {cost + Penalty[s]}]
          /\ cmask' = [cmask EXCEPT ![w] = cmask[w] \union {i}]
       \/ ~(cost < Unfused(s, cp[s])) /\ UNCHANGED <<cp, held, cmask>>
  BY <1>8, <1>10 DEF Falls, words
<1>12. todo' = [todo EXCEPT ![w] = todo[w] \ {i}]
  BY DEF RelaxLayer, i
<1>13. UNCHANGED <<layout, total, action, cand, cursor, job, at, lim, changed, mask, prev, iter,
                  phase, converged, calls>>
  BY DEF RelaxLayer, table, lists, round, status
<1> HIDE DEF s, cost
<1>14. RelaxStep(w, s, f, cost)
  BY <1>2, <1>3, <1>4, <1>5, <1>9, <1>11, <1>12, <1>13 DEF RelaxStep, cost
<1>15. QED
  BY <1>4, <1>6, <1>7, <1>9, <1>14

LEMMA RelaxType ==
  ASSUME TypeOK, LoadsSound, NEW w \in Threads, NEW s, NEW f, NEW cost, RelaxStep(w, s, f, cost)
  PROVE  TypeOK' /\ GoodWords(cp')
<1>1. /\ s \in GridStates /\ Free(s) /\ s[2] \in Layers /\ cost \in 0 .. TopCost
  BY EvalFacts, StateFacts, LayerFacts DEF RelaxStep
<1>2. /\ cp \in [GridStates -> Words \union {Unreached}]
      /\ held \in [GridStates -> SUBSET (Words \union {Unreached})]
      /\ todo \in [Threads -> SUBSET Layers] /\ cmask \in [Threads -> SUBSET Layers]
  BY DEF TypeOK
<1>3. GoodWords(cp)
  BY CpFacts
<1>4. CASE cost < Unfused(s, cp[s])
  <2>1. Unfused(s, cp[s]) \in 0 .. TopCost
    BY <1>1, <1>3, WordFacts DEF GoodWords
  <2>2. cost \in 0 .. TopCost - 1
    BY <1>1, <1>4, <2>1, MdpAssumption
  <2>3. cost + Penalty[s] \in WordsOf(s) /\ cost + Penalty[s] \in Words \union {Unreached}
    BY <1>1, <2>2, WordFacts
  <2>4. /\ cp' = [cp EXCEPT ![s] = cost + Penalty[s]]
        /\ held' = [held EXCEPT ![s] = held[s] \union {cost + Penalty[s]}]
        /\ cmask' = [cmask EXCEPT ![w] = cmask[w] \union {s[2]}]
        /\ todo' = [todo EXCEPT ![w] = todo[w] \ {s[2]}]
    BY <1>4 DEF RelaxStep
  <2>5. cp' \in [GridStates -> Words \union {Unreached}]
    BY <1>2, <2>3, <2>4
  <2>6. held' \in [GridStates -> SUBSET (Words \union {Unreached})]
    BY <1>2, <2>3, <2>4
  <2>7. todo' \in [Threads -> SUBSET Layers]
    BY <1>2, <2>4
  <2>8. cmask' \in [Threads -> SUBSET Layers]
    BY <1>1, <1>2, <2>4
  <2>9. TypeOK'
    BY <2>5, <2>6, <2>7, <2>8 DEF TypeOK, RelaxStep
  <2>10. GoodWords(cp')
    BY <1>2, <1>3, <2>3, <2>4, <2>5 DEF GoodWords
  <2>11. QED
    BY <2>9, <2>10
<1>5. CASE ~(cost < Unfused(s, cp[s]))
  <2>1. UNCHANGED <<cp, held, cmask>> /\ todo' = [todo EXCEPT ![w] = todo[w] \ {s[2]}]
    BY <1>5 DEF RelaxStep
  <2>2. todo' \in [Threads -> SUBSET Layers]
    BY <1>2, <2>1
  <2>3. TypeOK'
    BY <2>1, <2>2 DEF TypeOK, RelaxStep
  <2>4. QED
    BY <1>3, <2>1, <2>3
<1>6. QED
  BY <1>4, <1>5

\* What the step leaves to be done, and what it adds to the columns' masks.
LEMMA RelaxWork ==
  ASSUME TypeOK, NEW w \in Threads, NEW s, NEW f, NEW cost, RelaxStep(w, s, f, cost)
  PROVE  /\ \A v \in Threads : /\ todo'[v] \subseteq todo[v] /\ cmask[v] \subseteq cmask'[v]
                               /\ v # w => todo'[v] = todo[v] /\ cmask'[v] = cmask[v]
         /\ todo'[w] = todo[w] \ {s[2]}
         /\ cost < Unfused(s, cp[s]) => s[2] \in cmask'[w]
<1>1. todo \in [Threads -> SUBSET Layers] /\ cmask \in [Threads -> SUBSET Layers]
  BY DEF TypeOK
<1>2. todo' = [todo EXCEPT ![w] = todo[w] \ {s[2]}]
  BY DEF RelaxStep
<1>3. /\ \A v \in Threads : /\ todo'[v] \subseteq todo[v]
                            /\ v # w => todo'[v] = todo[v]
      /\ todo'[w] = todo[w] \ {s[2]}
  BY <1>1, <1>2
<1>4. \/ ~(cost < Unfused(s, cp[s])) /\ cmask' = cmask
      \/ cmask' = [cmask EXCEPT ![w] = cmask[w] \union {s[2]}]
  BY DEF RelaxStep
<1>5. /\ \A v \in Threads : cmask[v] \subseteq cmask'[v] /\ (v # w => cmask'[v] = cmask[v])
      /\ cost < Unfused(s, cp[s]) => s[2] \in cmask'[w]
  BY <1>1, <1>4
<1>6. QED
  BY <1>3, <1>5

LEMMA RelaxClaims ==
  ASSUME TypeOK, ClaimsSound, NEW w \in Threads, NEW s, NEW f, NEW cost, RelaxStep(w, s, f, cost)
  PROVE  ClaimsSound'
<1>1. /\ \A v \in Threads : todo'[v] \subseteq todo[v] /\ (v # w => cmask'[v] = cmask[v])
      /\ UNCHANGED <<cand, cursor, job, at, lim, layout, iter, mask>> /\ job[w] = "eval"
  BY RelaxWork DEF RelaxStep
<1>2. ASSUME NEW v \in Threads, job'[v] = "eval"
      PROVE  todo'[v] \subseteq ToEval(ColOf(v))'
  <2>1. todo[v] \subseteq ToEval(ColOf(v))
    BY <1>1, <1>2 DEF ClaimsSound
  <2>2. ColOf(v)' = ColOf(v)
    BY <1>1 DEF ColOf
  <2>3. QED
    BY <1>1, <2>1, <2>2 DEF ToEval, Gather
<1>3. \A v \in Threads : job'[v] # "eval" => cmask'[v] = {}
  <2>1. ASSUME NEW v \in Threads, job'[v] # "eval" PROVE cmask'[v] = {}
    BY <1>1, <2>1 DEF ClaimsSound
  <2>2. QED
    BY <2>1
<1>4. \A i, j \in 1 .. Len(cand') : cand'[i] = cand'[j] => i = j
  BY <1>1 DEF ClaimsSound
<1>5. \A v \in Threads :
        /\ job'[v] = "wait" => cursor' >= Len(cand')
        /\ job'[v] = "eval" =>
             /\ at'[v] \in 1 .. lim'[v] /\ lim'[v] <= cursor' /\ lim'[v] <= Len(cand')
             /\ \A u \in Threads \ {v} :
                  job'[u] = "eval" => lim'[u] < at'[v] \/ lim'[v] < at'[u]
  BY <1>1 DEF ClaimsSound
<1>6. QED
  BY <1>2, <1>3, <1>4, <1>5 DEF ClaimsSound

LEMMA RelaxAnnounced ==
  ASSUME TypeOK, NEW w \in Threads, NEW s, NEW f, NEW cost, RelaxStep(w, s, f, cost)
  PROVE  /\ \A d : Announced(d) => Announced(d)'
         /\ cost < Unfused(s, cp[s]) => Announced(s)'
<1>1. /\ \A v \in Threads : cmask[v] \subseteq cmask'[v]
      /\ cost < Unfused(s, cp[s]) => s[2] \in cmask'[w]
      /\ UNCHANGED <<cand, job, at, changed>> /\ job[w] = "eval" /\ s[1] = ColOf(w)
  BY RelaxWork DEF RelaxStep
<1>2. Told' = Told /\ \A v : ColOf(v)' = ColOf(v)
  BY <1>1 DEF Told, ColOf
<1>3. ASSUME NEW d, Announced(d) PROVE Announced(d)'
  BY <1>1, <1>2, <1>3 DEF Announced
<1>4. ASSUME cost < Unfused(s, cp[s]) PROVE Announced(s)'
  <2>1. job'[w] = "eval" /\ s[1] = ColOf(w)' /\ s[2] \in cmask'[w]
    BY <1>1, <1>2, <1>4
  <2>2. QED
    BY <2>1 DEF Announced
<1>5. QED
  BY <1>3, <1>4

\* The state is done with, and only it is: no other position of the list
\* holds its column.
LEMMA RelaxComing ==
  ASSUME TypeOK, ClaimsSound, NEW w \in Threads, NEW s, NEW f, NEW cost,
         RelaxStep(w, s, f, cost)
  PROVE  /\ \A x \in GridStates : x # s => (Coming(x)' <=> Coming(x))
         /\ ~Coming(s)'
<1>1. /\ UNCHANGED <<cand, cursor, job, at, lim, layout, iter, mask>>
      /\ job[w] = "eval" /\ s[1] = ColOf(w) /\ s \in GridStates
      /\ \A v \in Threads : v # w => todo'[v] = todo[v]
      /\ todo'[w] = todo[w] \ {s[2]}
  BY RelaxWork DEF RelaxStep
<1>2. /\ \A c : ToEval(c)' = ToEval(c)
      /\ \A v : ColOf(v)' = ColOf(v)
  BY <1>1, ToEvalSame DEF ColOf
<1>3. ASSUME NEW x \in GridStates, x # s
      PROVE  Coming(x)' <=> Coming(x)
  <2>1. x[1] # s[1] \/ x[2] # s[2]
    BY <1>1, <1>3, StateFacts
  <2>2. \A v \in Threads : x[1] = ColOf(v) => (x[2] \in todo'[v] <=> x[2] \in todo[v])
    BY <1>1, <2>1
  <2> DEFINE T == x[2] \in ToEval(x[1])
             Rest == x[1] \in {cand[i] : i \in cursor + 1 .. Len(cand)}
             Has(v) == job[v] = "eval" /\
               \/ x[1] = ColOf(v) /\ x[2] \in todo[v]
               \/ x[2] \in ToEval(x[1]) /\ x[1] \in {cand[i] : i \in at[v] + 1 .. lim[v]}
  <2>3. (T' <=> T) /\ (Rest' <=> Rest)
    BY <1>1 DEF ToEval, Gather
  <2>4. \A v \in Threads : Has(v)' <=> Has(v)
    BY <1>1, <1>2, <2>2, <2>3
  <2>5. Coming(x) <=> (T /\ Rest) \/ \E v \in Threads : Has(v)
    BY DEF Coming
  <2>6. Coming(x)' <=> (T' /\ Rest') \/ \E v \in Threads : Has(v)'
    BY DEF Coming
  <2> HIDE DEF T, Rest, Has
  <2>7. QED
    BY <2>3, <2>4, <2>5, <2>6
<1>4. ~Coming(s)'
  <2>1. /\ at[w] \in 1 .. Len(cand) /\ at[w] <= lim[w] /\ lim[w] <= cursor
        /\ cursor \in Nat /\ Len(cand) \in Nat /\ lim[w] \in 1 .. Len(cand) /\ s[1] = cand[at[w]]
    BY <1>1, ColFacts
  <2>2. \A j \in 1 .. Len(cand) : cand[j] = s[1] => j = at[w]
    BY <2>1 DEF ClaimsSound
  <2>3. s[1] \notin {cand[j] : j \in cursor + 1 .. Len(cand)}
    <3>1. \A j \in cursor + 1 .. Len(cand) : j \in 1 .. Len(cand) /\ j # at[w]
      BY <2>1
    <3>2. QED
      BY <2>2, <3>1
  <2>4. ASSUME NEW v \in Threads, job[v] = "eval"
        PROVE  /\ ~(s[1] = ColOf(v) /\ s[2] \in todo'[v])
               /\ s[1] \notin {cand[j] : j \in at[v] + 1 .. lim[v]}
    <3>1. /\ at[v] \in 1 .. Len(cand) /\ at[v] <= lim[v] /\ lim[v] \in 1 .. Len(cand)
          /\ ColOf(v) = cand[at[v]]
      BY <2>4, ColFacts
    <3>2. v # w => lim[v] < at[w] \/ lim[w] < at[v]
      BY <1>1, <2>4 DEF ClaimsSound
    <3>3. \A j \in at[v] + 1 .. lim[v] : j \in 1 .. Len(cand) /\ j # at[w]
      <4>1. CASE v = w
        BY <2>1, <3>1, <4>1
      <4>2. CASE v # w
        BY <2>1, <3>1, <3>2, <4>2
      <4>3. QED
        BY <4>1, <4>2
    <3>4. s[1] \notin {cand[j] : j \in at[v] + 1 .. lim[v]}
      BY <2>2, <3>3
    <3>5. ~(s[1] = ColOf(v) /\ s[2] \in todo'[v])
      <4>1. CASE v = w
        BY <1>1, <4>1
      <4>2. CASE v # w
        <5>1. at[v] # at[w]
          BY <2>1, <3>1, <3>2, <4>2
        <5>2. QED
          BY <2>2, <3>1, <5>1
      <4>3. QED
        BY <4>1, <4>2
    <3>6. QED
      BY <3>4, <3>5
  <2>5. s[1] \notin {cand'[j] : j \in cursor' + 1 .. Len(cand')}
    BY <1>1, <2>3
  <2>6. ASSUME NEW v \in Threads, job'[v] = "eval"
        PROVE  /\ ~(s[1] = ColOf(v)' /\ s[2] \in todo'[v])
               /\ s[1] \notin {cand'[j] : j \in at'[v] + 1 .. lim'[v]}
    BY <1>1, <1>2, <2>4, <2>6
  <2>7. QED
    BY <2>5, <2>6 DEF Coming
<1>5. QED
  BY <1>3, <1>4

LEMMA RelaxLoads ==
  ASSUME TypeOK, LoadsSound, NEW w \in Threads, NEW s, NEW f, NEW cost,
         RelaxStep(w, s, f, cost), held[s] = {cp[s]}
  PROVE  /\ LoadsSound'
         /\ \A x \in GridStates : x # s => cp'[x] = cp[x] /\ held'[x] = held[x]
         /\ Unfused(s, cp'[s]) = IF cost < Unfused(s, cp[s]) THEN cost ELSE Unfused(s, cp[s])
         /\ cost < Unfused(s, cp[s]) \/ held'[s] = {cp'[s]}
<1>1. /\ s \in GridStates /\ Free(s) /\ cost \in 0 .. TopCost
      /\ cp \in [GridStates -> Words \union {Unreached}]
      /\ held \in [GridStates -> SUBSET (Words \union {Unreached})]
      /\ GoodWords(cp)
  BY EvalFacts, CpFacts DEF RelaxStep, TypeOK
<1>2. CASE cost < Unfused(s, cp[s])
  <2>1. Unfused(s, cp[s]) \in 0 .. TopCost
    BY <1>1, WordFacts DEF GoodWords
  <2>2. cost \in 0 .. TopCost - 1
    BY <1>1, <1>2, <2>1, MdpAssumption
  <2>3. cost + Penalty[s] \in WordsOf(s) /\ Unfused(s, cost + Penalty[s]) = cost
    BY <1>1, <2>2, WordFacts
  <2>4. /\ cp' = [cp EXCEPT ![s] = cost + Penalty[s]]
        /\ held' = [held EXCEPT ![s] = held[s] \union {cost + Penalty[s]}]
    BY <1>2 DEF RelaxStep
  <2>5. /\ cp'[s] = cost + Penalty[s] /\ held'[s] = {cp[s], cost + Penalty[s]}
        /\ \A x \in GridStates : x # s => cp'[x] = cp[x] /\ held'[x] = held[x]
    BY <1>1, <2>4
  <2>6. ASSUME NEW x \in GridStates
        PROVE  /\ cp'[x] \in held'[x] /\ held'[x] \subseteq WordsOf(x)
               /\ \A u \in held'[x] : Unfused(x, cp'[x]) <= Unfused(x, u)
    <3>1. CASE x # s
      BY <2>5, <3>1 DEF LoadsSound
    <3>2. CASE x = s
      <4>1. cp[s] \in WordsOf(s)
        BY <1>1 DEF GoodWords
      <4>2. cost <= Unfused(s, cp[s]) /\ cost <= cost
        BY <1>1, <1>2, <2>1, MdpAssumption
      <4>3. QED
        BY <2>3, <2>5, <3>2, <4>1, <4>2
    <3>3. QED
      BY <3>1, <3>2
  <2>7. QED
    BY <1>2, <2>3, <2>5, <2>6 DEF LoadsSound
<1>3. CASE ~(cost < Unfused(s, cp[s]))
  <2>1. cp' = cp /\ held' = held
    BY <1>3 DEF RelaxStep
  <2>2. LoadsSound'
    BY <2>1 DEF LoadsSound
  <2>3. QED
    BY <1>3, <2>1, <2>2
<1>4. QED
  BY <1>2, <1>3

\* The values after the step: at most one is lower, and it is at least the
\* backup of the values before.
LEMMA RelaxValues ==
  ASSUME TypeOK, LoadsSound, NEW w \in Threads, NEW s, NEW f, NEW cost,
         RelaxStep(w, s, f, cost), held[s] = {cp[s]}
  PROVE  /\ ValueOf \in GridTables /\ ValueOf' \in GridTables
         /\ ValueOf' = [ValueOf EXCEPT ![s] = IF cost < ValueOf[s] THEN cost ELSE ValueOf[s]]
         /\ \A x \in GridStates : ValueOf'[x] = IF x = s /\ cost < ValueOf[s] THEN cost
                                                ELSE ValueOf[x]
         /\ \A x \in GridStates : ValueOf'[x] <= ValueOf[x]
<1>1. /\ LoadsSound' /\ TypeOK' /\ s \in GridStates
      /\ \A x \in GridStates : x # s => cp'[x] = cp[x]
      /\ Unfused(s, cp'[s]) = IF cost < Unfused(s, cp[s]) THEN cost ELSE Unfused(s, cp[s])
  BY RelaxLoads, RelaxType DEF RelaxStep
<1>2. /\ ValueOf \in GridTables /\ \A x \in GridStates : ValueOf[x] = Unfused(x, cp[x])
  BY CpFacts
<1>3. GoodWords(cp')
  BY RelaxType
<1>4. ValueOf' = ValOf(cp')
  BY DEF ValueOf, ValOf
<1>5. /\ ValueOf' \in GridTables /\ \A x \in GridStates : ValueOf'[x] = Unfused(x, cp'[x])
  BY <1>3, <1>4, ValFacts
<1>6. \A x \in GridStates : ValueOf'[x] = IF x = s /\ cost < ValueOf[s] THEN cost ELSE ValueOf[x]
  BY <1>1, <1>2, <1>5
<1>7. ASSUME NEW x \in GridStates PROVE ValueOf'[x] <= ValueOf[x]
  <2>1. ValueOf[x] \in 0 .. TopCost /\ cost \in 0 .. TopCost
    BY <1>2 DEF GridTables, RelaxStep
  <2>2. QED
    BY <1>6, <2>1, MdpAssumption
<1>8. ValueOf' = [ValueOf EXCEPT ![s] = IF cost < ValueOf[s] THEN cost ELSE ValueOf[s]]
  BY <1>1, <1>2, <1>5, <1>6 DEF GridTables
<1>9. QED
  BY <1>2, <1>5, <1>6, <1>7, <1>8

LEMMA RelaxAbove ==
  ASSUME TypeOK, LoadsSound, ValuesAbove, NEW w \in Threads, NEW s, NEW f, NEW cost,
         RelaxStep(w, s, f, cost), held[s] = {cp[s]},
         GridBackup(s, GridView(s, ValueOf)) <= cost
  PROVE  ValuesAbove'
<1> DEFINE v == ValueOf
           u == ValueOf'
<1>1. /\ v \in GridTables /\ u \in GridTables /\ s \in GridEval /\ cost \in 0 .. TopCost
      /\ \A x \in GridStates : u[x] = IF x = s /\ cost < v[s] THEN cost ELSE v[x]
      /\ \A x \in GridStates : u[x] <= v[x]
  <2>1. s \in GridEval /\ cost \in 0 .. TopCost
    BY DEF RelaxStep
  <2>2. QED
    BY <2>1, RelaxValues
<1>2. AboveReference(v)
  BY AboveIs
<1>3. GridBackup(s, GridView(s, v)) <= cost
  OBVIOUS
<1> HIDE DEF v, u
<1>4. AboveReference(u)
  <2>1. ASSUME NEW x \in GridStates, x \in GridEval
        PROVE  Reference[x] <= u[x] /\ GridBackup(x, GridView(x, u)) <= u[x]
    <3>1. /\ GridBackup(x, GridView(x, u)) <= GridBackup(x, GridView(x, v))
          /\ GridBackup(x, GridView(x, u)) \in 0 .. TopCost
          /\ GridBackup(x, GridView(x, v)) \in 0 .. TopCost
      <4>1. /\ GridBackup(x, GridView(x, u)) <= GridBackup(x, GridView(x, v))
            /\ GridBackup(x, GridView(x, u)) \in 0 .. TopCost
        BY <1>1, BackupOrder
      <4>2. \A d \in GridStates : v[d] <= v[d]
        <5>1. \A d \in GridStates : v[d] \in 0 .. TopCost
          BY <1>1 DEF GridTables
        <5>2. QED
          BY <5>1, MdpAssumption
      <4>3. GridBackup(x, GridView(x, v)) \in 0 .. TopCost
        BY <1>1, <4>2, BackupOrder
      <4>4. QED
        BY <4>1, <4>3
    <3>2. /\ Reference[x] <= GridBackup(x, GridView(x, v))
          /\ Reference[x] <= v[x] /\ GridBackup(x, GridView(x, v)) <= v[x]
      <4>1. \A d \in GridStates : Reference[d] <= v[d]
        BY <1>1, <1>2, AboveFacts
      <4>2. QED
        BY <1>1, <1>2, <2>1, <4>1, AboveFacts, BackupAboveReference
    <3>3. Reference[x] \in 0 .. TopCost /\ v[x] \in 0 .. TopCost /\ TopCost \in Nat
      BY <1>1, ReferenceFacts, MdpAssumption DEF GridTables
    <3>4. CASE x = s /\ cost < v[s]
      <4>1. u[x] = cost /\ GridBackup(x, GridView(x, v)) <= cost
        BY <1>1, <1>3, <3>4
      <4>2. QED
        BY <1>1, <3>1, <3>2, <3>3, <4>1
    <3>5. CASE ~(x = s /\ cost < v[s])
      <4>1. u[x] = v[x]
        BY <1>1, <3>5
      <4>2. QED
        BY <3>1, <3>2, <3>3, <4>1
    <3>6. QED
      BY <3>4, <3>5
  <2>2. ASSUME NEW x \in GridStates, x \notin GridEval
        PROVE  u[x] = GridValue0[x]
    BY <1>1, <1>2, <2>2 DEF AboveReference
  <2>3. QED
    BY <2>1, <2>2 DEF AboveReference
<1>5. ValuesAbove' <=> AboveReference(u)
  BY DEF ValuesAbove, AboveReference, u
<1>6. QED
  BY <1>4, <1>5

\* A state whose neighbours have not fallen in this step has the backup it had.
LEMMA NowSame ==
  ASSUME NEW x, NEW s, \A d \in GridStates : d # s => cp'[d] = cp[d],
         ~\E k \in Outcomes(x) : GridNbr(x, k) = s
  PROVE  Now(x)' = Now(x)
<1>1. \A k \in Outcomes(x) :
        (IF GridNbr(x, k) \in GridStates THEN cp'[GridNbr(x, k)] ELSE Unreached) =
        (IF GridNbr(x, k) \in GridStates THEN cp[GridNbr(x, k)] ELSE Unreached)
  OBVIOUS
<1>2. QED
  BY <1>1 DEF Now

\* Loads that differ from the table come from states that are announced.
LEMMA LoadsNow ==
  ASSUME TypeOK, StaleAnnounced, phase = "sweep", NEW s \in GridStates, NEW f, GoodLoads(s, f),
         \A k \in Outcomes(s) : GridNbr(s, k) \in GridStates => f[k] \in held[GridNbr(s, k)],
         ~\E k \in Outcomes(s) : Announced(GridNbr(s, k))
  PROVE  f = Now(s)
<1>1. ASSUME NEW k \in Outcomes(s)
      PROVE  f[k] = IF GridNbr(s, k) \in GridStates THEN cp[GridNbr(s, k)] ELSE Unreached
  <2>1. CASE GridNbr(s, k) \in GridStates
    <3>1. held[GridNbr(s, k)] = {cp[GridNbr(s, k)]}
      BY <2>1 DEF StaleAnnounced
    <3>2. QED
      BY <2>1, <3>1
  <2>2. CASE GridNbr(s, k) \notin GridStates
    BY <2>2 DEF GoodLoads
  <2>3. QED
    BY <2>1, <2>2
<1>2. f = [k \in Outcomes(s) |-> f[k]]
  BY DEF GoodLoads
<1>3. QED
  BY <1>1, <1>2 DEF Now

LEMMA RelaxHides ==
  ASSUME TypeOK, LoadsSound, ClaimsSound, StaleAnnounced, NoHiddenChange, phase = "sweep",
         NEW w \in Threads, NEW s, NEW f, NEW cost,
         RelaxStep(w, s, f, cost), held[s] = {cp[s]}
  PROVE  NoHiddenChange' /\ StaleAnnounced'
<1>1. /\ \A x \in GridStates : x # s => cp'[x] = cp[x] /\ held'[x] = held[x]
      /\ Unfused(s, cp'[s]) = IF cost < Unfused(s, cp[s]) THEN cost ELSE Unfused(s, cp[s])
      /\ cost < Unfused(s, cp[s]) \/ held'[s] = {cp'[s]}
      /\ cost < Unfused(s, cp[s]) \/ cp' = cp
  BY RelaxLoads DEF RelaxStep
<1>2. /\ \A d : Announced(d) => Announced(d)'
      /\ cost < Unfused(s, cp[s]) => Announced(s)'
  BY RelaxAnnounced
<1>3. /\ \A x \in GridStates : x # s => (Coming(x)' <=> Coming(x))
      /\ ~Coming(s)'
  BY RelaxComing
<1>4. /\ s \in GridEval /\ s \in GridStates /\ GoodLoads(s, f) /\ cost = Lowest(s, f)
      /\ cost \in 0 .. TopCost
      /\ \A k \in Outcomes(s) : GridNbr(s, k) \in GridStates => f[k] \in held[GridNbr(s, k)]
  BY DEF RelaxStep
<1>5. StaleAnnounced'
  <2> SUFFICES ASSUME NEW x \in GridStates
               PROVE  /\ held'[x] # {cp'[x]} => Announced(x)'
                      /\ Coming(x)' => held'[x] = {cp'[x]}
    BY DEF StaleAnnounced
  <2>1. CASE x = s
    BY <1>1, <1>2, <1>3, <2>1
  <2>2. CASE x # s
    <3>1. /\ held[x] # {cp[x]} => Announced(x)
          /\ Coming(x) => held[x] = {cp[x]}
      BY DEF StaleAnnounced
    <3>2. QED
      BY <1>1, <1>2, <1>3, <2>2, <3>1
  <2>3. QED
    BY <2>1, <2>2
<1>6. NoHiddenChange'
  <2> SUFFICES ASSUME NEW x \in GridEval
               PROVE  \/ Unfused(x, cp'[x]) <= Lowest(x, Now(x)')
                      \/ Coming(x)'
                      \/ \E k \in Outcomes(x) : Announced(GridNbr(x, k))'
    BY DEF NoHiddenChange
  <2>1. x \in GridStates
    BY EvalFacts
  <2>2. CASE \E k \in Outcomes(x) : Announced(GridNbr(x, k))
    BY <1>2, <2>2
  <2>3. CASE cost < Unfused(s, cp[s]) /\ \E k \in Outcomes(x) : GridNbr(x, k) = s
    BY <1>2, <2>3
  <2>4. CASE /\ ~\E k \in Outcomes(x) : Announced(GridNbr(x, k))
             /\ ~(cost < Unfused(s, cp[s]) /\ \E k \in Outcomes(x) : GridNbr(x, k) = s)
    <3>1. Now(x)' = Now(x)
      <4>1. CASE cost < Unfused(s, cp[s])
        BY <1>1, <2>4, <4>1, NowSame
      <4>2. CASE ~(cost < Unfused(s, cp[s]))
        BY <1>1, <4>2 DEF Now
      <4>3. QED
        BY <4>1, <4>2
    <3>2. CASE x = s
      <4>1. f = Now(s)
        BY <1>4, <2>4, <3>2, LoadsNow
      <4>2. Unfused(s, cp[s]) \in 0 .. TopCost
        BY <1>4, CpFacts, WordFacts DEF GoodWords
      <4>3. Unfused(s, cp'[s]) <= cost
        BY <1>1, <1>4, <4>2, MdpAssumption
      <4>4. QED
        BY <1>4, <3>1, <3>2, <4>1, <4>3
    <3>3. CASE x # s
      <4>1. Unfused(x, cp[x]) <= Lowest(x, Now(x)) \/ Coming(x)
        BY <2>4 DEF NoHiddenChange
      <4>2. QED
        BY <1>1, <1>3, <2>1, <3>1, <3>3, <4>1
    <3>4. QED
      BY <3>2, <3>3
  <2>5. QED
    BY <2>2, <2>3, <2>4
<1>7. QED
  BY <1>5, <1>6

LEMMA RelaxKeeps ==
  ASSUME IInv, NEW w \in Threads, RelaxLayer(w)
  PROVE  IInv'
<1>1. /\ TypeOK /\ LoadsSound /\ ClaimsSound /\ StaleAnnounced
      /\ Phases /\ ValuesAbove /\ NoHiddenChange /\ PolicyFits
  BY DEF IInv
<1>2. PICK s \in GridStates : Coming(s) /\ held[s] = {cp[s]} /\
        \E f, cost :
          /\ RelaxStep(w, s, f, cost)
          /\ GridBackup(s, GridView(s, ValueOf)) <= cost
  BY RelaxIs
<1>3. PICK f, cost :
        /\ RelaxStep(w, s, f, cost)
        /\ GridBackup(s, GridView(s, ValueOf)) <= cost
  BY <1>2
<1>4. /\ UNCHANGED <<phase, iter, converged, job, total, action>> /\ job[w] = "eval"
  BY <1>3 DEF RelaxStep
<1>5. phase = "sweep"
  BY <1>1, <1>4 DEF Phases
<1>6. TypeOK' /\ ClaimsSound'
  BY <1>1, <1>3, RelaxType, RelaxClaims
<1>7. LoadsSound' /\ ValuesAbove'
  BY <1>1, <1>2, <1>3, RelaxLoads, RelaxAbove
<1>8. NoHiddenChange' /\ StaleAnnounced'
  BY <1>1, <1>2, <1>3, <1>5, RelaxHides
<1>9. Phases'
  BY <1>1, <1>4, <1>5 DEF Phases
<1>10. PolicyFits'
  BY <1>4, <1>5 DEF PolicyFits
<1>11. QED
  BY <1>6, <1>7, <1>8, <1>9, <1>10 DEF IInv

\* When all workers wait, nothing is to come and only the leader's lists hold
\* changes.
LEMMA AllWait ==
  ASSUME TypeOK, ClaimsSound, Threads # {}, \A w \in Threads : job[w] = "wait"
  PROVE  /\ \A s : ~Coming(s)
         /\ \A d : Announced(d) <=> \E e \in Told : e[1] = d[1] /\ d[2] \in e[2]
         /\ \A w \in Threads : cmask[w] = {}
<1>1. PICK w \in Threads : cursor >= Len(cand)
  BY DEF ClaimsSound
<1>2. cursor \in Nat /\ Len(cand) \in Nat
  BY DEF TypeOK
<1>3. cursor + 1 .. Len(cand) = {}
  BY <1>1, <1>2
<1>4. \A v \in Threads : job[v] # "eval"
  OBVIOUS
<1>5. QED
  BY <1>3, <1>4 DEF Coming, Announced, ClaimsSound

LEMMA ToldFacts ==
  ASSUME TypeOK
  PROVE  /\ \A e \in Told : e[1] \in GridCols /\ e[2] \subseteq Layers
         /\ {e[1] : e \in Told} \in SUBSET GridCols
<1>1. ASSUME NEW e \in Told PROVE e[1] \in GridCols /\ e[2] \subseteq Layers
  <2>1. PICK w \in Threads : e \in changed[w]
    BY DEF Told
  <2>2. e \in GridCols \X SUBSET Layers
    BY <2>1 DEF TypeOK
  <2>3. QED
    BY <2>2
<1>2. QED
  BY <1>1

LEMMA MaskFacts ==
  ASSUME TypeOK
  PROVE  /\ MaskNext \in [GridCols -> SUBSET Layers]
         /\ \A e \in Told : e[2] \subseteq MaskNext[e[1]]
<1> DEFINE M(c) == UNION {e[2] : e \in {d \in Told : d[1] = c}}
<1>1. \A c : M(c) \subseteq Layers
  BY ToldFacts
<1>2. ASSUME NEW c \in GridCols
      PROVE  /\ MaskNext[c] = IF \E e \in Told : e[1] = c THEN M(c)
                              ELSE IF c \in prev THEN {} ELSE mask[c]
             /\ MaskNext[c] \subseteq Layers
  <2>1. MaskNext[c] = IF \E e \in Told : e[1] = c THEN M(c)
                      ELSE IF c \in prev THEN {} ELSE mask[c]
    BY DEF MaskNext
  <2>2. mask[c] \subseteq Layers
    BY DEF TypeOK
  <2> HIDE DEF M
  <2>3. QED
    BY <1>1, <2>1, <2>2
<1>3. MaskNext = [c \in GridCols |-> MaskNext[c]]
  BY DEF MaskNext
<1>4. ASSUME NEW e \in Told PROVE e[2] \subseteq MaskNext[e[1]]
  <2>1. e[1] \in GridCols /\ e[2] \subseteq M(e[1])
    BY ToldFacts
  <2>2. MaskNext[e[1]] = M(e[1])
    BY <1>2, <2>1
  <2>3. QED
    BY <2>1, <2>2
<1>5. QED
  BY <1>2, <1>3, <1>4

\* In the round that follows, every state that reads a reported layer is
\* evaluated: its column is on the list, its layer in the gathered mask.
LEMMA LeadCovers ==
  ASSUME TypeOK, NEW e \in Told, NEW s \in GridEval, NEW k \in Outcomes(s),
         e[1] = GridNbr(s, k)[1], GridNbr(s, k)[2] \in e[2],
         NEW it \in Nat \ {0}, NEW m,
         m = IF layout = "masked" THEN MaskNext ELSE mask,
         iter' = it, mask' = m, UNCHANGED layout
  PROVE  /\ s[1] \in GridDilate({x[1] : x \in Told})
         /\ (s[2] \in ToEval(s[1]))'
<1> DEFINE d == GridNbr(s, k)
<1>1. s \in GridStates /\ s = <<s[1], s[2]>> /\ s[1] \in GridCols /\ s[2] \in Layers
  BY EvalFacts, StateFacts, LayerFacts
<1>2. d \in GridStates
  <2>1. e[1] \in GridCols /\ e[2] \subseteq Layers
    BY ToldFacts
  <2>2. d = <<d[1], d[2]>>
    BY DEF GridNbr, Target
  <2>3. d[1] \in GridCols /\ d[2] \in Layers
    BY <2>1
  <2>4. QED
    BY <2>2, <2>3 DEF GridStates, Layers
<1>3. <<d[1], s[1]>> \in GridNear /\ CircDist(s[2], d[2]) <= DispT
  BY <1>1, <1>2, OutcomeNear
<1>4. s[1] \in GridDilate({x[1] : x \in Told})
  <2>1. d[1] \in {x[1] : x \in Told}
    OBVIOUS
  <2>2. QED
    BY <1>1, <1>3, <2>1 DEF GridDilate
<1>5. (s[2] \in Gather(s[1]))'
  <2>1. CASE layout = "plain"
    BY <1>1, <2>1 DEF Gather
  <2>2. CASE layout # "plain"
    <3>1. layout = "masked"
      BY <2>2, FusedAssumption DEF TypeOK
    <3>2. mask' = MaskNext /\ d[2] \in MaskNext[d[1]]
      BY <3>1, MaskFacts
    <3>3. d[1] \in {c \in GridCols : <<c, s[1]>> \in GridNear}
      BY <1>2, <1>3, StateFacts
    <3>4. d[2] \in UNION {mask'[c] : c \in {b \in GridCols : <<b, s[1]>> \in GridNear}}
      BY <3>2, <3>3
    <3>5. s[2] \in RotDilate(UNION {mask'[c] : c \in {b \in GridCols : <<b, s[1]>> \in GridNear}})
      BY <1>1, <1>3, <3>4 DEF RotDilate
    <3>6. Gather(s[1])' = RotDilate(UNION {mask'[c] : c \in {b \in GridCols : <<b, s[1]>> \in GridNear}})
      BY <2>2 DEF Gather
    <3>7. QED
      BY <3>5, <3>6
  <2>3. QED
    BY <2>1, <2>2
<1>6. QED
  BY <1>1, <1>4, <1>5 DEF ToEval

LEMMA LeadType ==
  ASSUME TypeOK, Phases, Lead
  PROVE  TypeOK'
<1>1. UNCHANGED <<layout, total, action, cp, at, lim, todo, cmask, calls>>
  BY DEF Lead, table
<1>2. held' \in [GridStates -> SUBSET (Words \union {Unreached})]
  BY DEF Lead, TypeOK
<1>3. mask' \in [GridCols -> SUBSET Layers]
  <2>1. mask' = MaskNext \/ mask' = mask
    BY DEF Lead
  <2>2. QED
    BY <2>1, MaskFacts DEF TypeOK
<1>4. prev' \subseteq GridCols
  BY ToldFacts DEF Lead, TypeOK
<1>5. iter' \in 0 .. MaxIter
  BY FusedAssumption DEF Lead, Phases, TypeOK
<1>6. /\ cand' \in Seq(GridCols) /\ cursor' \in Nat
      /\ job' \in [Threads -> {"claim", "eval", "wait"}]
      /\ changed' \in [Threads -> SUBSET (GridCols \X SUBSET Layers)]
      /\ phase' \in {"sweep", "done", "returned"} /\ converged' \in BOOLEAN
  <2>1. CASE Told # {} /\ iter + 1 < MaxIter
    <3>1. /\ cand' = GridScan(GridDilate({e[1] : e \in Told}), (iter + 1) % 2 = 1)
          /\ cursor' = 0 /\ job' = Each("claim") /\ changed' = Each({})
          /\ phase' = phase /\ converged' = converged
      BY <2>1 DEF Lead
    <3>2. GridDilate({e[1] : e \in Told}) \in SUBSET GridCols /\ ((iter + 1) % 2 = 1) \in BOOLEAN
      BY DEF GridDilate
    <3>3. cand' \in Seq(GridCols)
      BY <3>1, <3>2, ScanLists
    <3>4. QED
      BY <3>1, <3>3 DEF Each, TypeOK
  <2>2. CASE ~(Told # {} /\ iter + 1 < MaxIter)
    <3>1. /\ UNCHANGED <<cand, cursor, job, changed>>
          /\ phase' = "done" /\ converged' \in BOOLEAN
      BY <2>2 DEF Lead, lists
    <3>2. QED
      BY <3>1 DEF TypeOK
  <2>3. QED
    BY <2>1, <2>2
<1>7. QED
  BY <1>1, <1>2, <1>3, <1>4, <1>5, <1>6 DEF TypeOK

LEMMA LeadKeeps ==
  ASSUME IInv, Lead
  PROVE  IInv'
<1>1. /\ TypeOK /\ LoadsSound /\ ClaimsSound /\ StaleAnnounced
      /\ Phases /\ ValuesAbove /\ NoHiddenChange /\ PolicyFits
  BY DEF IInv
<1>2. /\ phase = "sweep" /\ \A w \in Threads : job[w] = "wait"
      /\ held' = [s \in GridStates |-> {cp[s]}] /\ iter' = iter + 1
      /\ mask' = (IF layout = "masked" THEN MaskNext ELSE mask)
      /\ UNCHANGED <<layout, total, action, cp, at, lim, todo, cmask, calls>>
  BY DEF Lead, table
<1>3. /\ \A s : ~Coming(s)
      /\ \A d : Announced(d) <=> \E e \in Told : e[1] = d[1] /\ d[2] \in e[2]
      /\ \A w \in Threads : cmask[w] = {}
  BY <1>1, <1>2, AllWait, FusedAssumption
<1>4. TypeOK'
  BY <1>1, LeadType
<1>5. /\ GoodWords(cp') /\ \A s \in GridStates : held'[s] = {cp'[s]}
      /\ LoadsSound'
  <2>1. GoodWords(cp')
    BY <1>1, <1>2, CpFacts
  <2>2. held' = [s \in GridStates |-> {cp'[s]}]
    BY <1>2
  <2>3. QED
    BY <2>1, <2>2, FreshHeld DEF LoadsSound
<1>6. StaleAnnounced'
  BY <1>5 DEF StaleAnnounced
<1>7. ValuesAbove'
  BY <1>1, <1>2 DEF ValuesAbove, ValueOf
<1>8. PolicyFits'
  <2>1. phase' # "returned"
    BY <1>2 DEF Lead
  <2>2. QED
    BY <2>1 DEF PolicyFits
<1>9. \A s : Now(s)' = Now(s)
  BY <1>2 DEF Now
<1>10. CASE Told # {} /\ iter + 1 < MaxIter
  <2> DEFINE S == GridDilate({e[1] : e \in Told})
             rev == (iter + 1) % 2 = 1
  <2>1. /\ cand' = GridScan(S, rev)
        /\ cursor' = 0 /\ job' = Each("claim") /\ changed' = Each({})
        /\ phase' = phase /\ converged' = converged
    BY <1>10 DEF Lead
  <2>2. S \in SUBSET GridCols /\ rev \in BOOLEAN
    BY DEF GridDilate
  <2> HIDE DEF S, rev
  <2>3. /\ \A i, j \in 1 .. Len(cand') : cand'[i] = cand'[j] => i = j
        /\ \A c \in S : \E i \in 1 .. Len(cand') : cand'[i] = c
    <3> DEFINE q == GridScan(S, rev)
    <3>1. /\ \A i, j \in 1 .. Len(q) : q[i] = q[j] => i = j
          /\ \A c \in S : \E i \in 1 .. Len(q) : q[i] = c
      BY <2>2, ScanLists
    <3>2. cand' = q
      BY <2>1
    <3> HIDE DEF q
    <3>3. QED
      BY <3>1, <3>2
  <2>4. \A w \in Threads : job'[w] = "claim" /\ cmask'[w] = {}
    BY <1>2, <1>3, <2>1 DEF Each
  <2>5. ClaimsSound'
    BY <2>3, <2>4 DEF ClaimsSound
  <2>6. Phases'
    <3>1. iter' < MaxIter
      BY <1>2, <1>10
    <3>2. phase' = "sweep" /\ ~converged'
      BY <1>1, <1>2, <2>1 DEF Phases
    <3>3. QED
      BY <3>1, <3>2 DEF Phases
  <2>7. NoHiddenChange'
    <3> SUFFICES ASSUME NEW s \in GridEval
                 PROVE  Unfused(s, cp'[s]) <= Lowest(s, Now(s)') \/ Coming(s)'
      BY DEF NoHiddenChange
    <3>1. \/ Unfused(s, cp[s]) <= Lowest(s, Now(s))
          \/ \E k \in Outcomes(s) : Announced(GridNbr(s, k))
      BY <1>1, <1>2, <1>3 DEF NoHiddenChange
    <3>2. CASE Unfused(s, cp[s]) <= Lowest(s, Now(s))
      BY <1>2, <1>9, <3>2
    <3>3. CASE \E k \in Outcomes(s) : Announced(GridNbr(s, k))
      <4>1. PICK k \in Outcomes(s), e \in Told : e[1] = GridNbr(s, k)[1] /\ GridNbr(s, k)[2] \in e[2]
        BY <1>3, <3>3
      <4>2. iter + 1 \in Nat \ {0}
        BY <1>1 DEF TypeOK
      <4>3. s[1] \in S /\ (s[2] \in ToEval(s[1]))'
        BY <1>1, <1>2, <4>1, <4>2, LeadCovers DEF S
      <4>4. PICK i \in 1 .. Len(cand') : cand'[i] = s[1]
        BY <2>3, <4>3
      <4>5. s[1] \in {cand'[j] : j \in cursor' + 1 .. Len(cand')}
        <5>1. cursor' + 1 = 1
          BY <2>1
        <5>2. QED
          BY <4>4, <5>1
      <4>6. QED
        BY <4>3, <4>5 DEF Coming
    <3>4. QED
      BY <3>1, <3>2, <3>3
  <2>8. QED
    BY <1>4, <1>5, <1>6, <1>7, <1>8, <2>5, <2>6, <2>7 DEF IInv
<1>11. CASE ~(Told # {} /\ iter + 1 < MaxIter)
  <2>1. /\ UNCHANGED <<cand, cursor, job, changed>>
        /\ phase' = "done" /\ converged' = (Told = {})
    BY <1>11 DEF Lead, lists
  <2>2. ClaimsSound'
    <3>1. \A w \in Threads : job'[w] = "wait" /\ cmask'[w] = {}
      BY <1>2, <1>3, <2>1
    <3>2. UNCHANGED <<cand, cursor>>
      BY <2>1
    <3>3. QED
      BY <1>1, <1>2, <3>1, <3>2 DEF ClaimsSound
  <2>3. ASSUME converged' PROVE Quiet'
    <3>1. Told = {}
      BY <2>1, <2>3
    <3>2. \A s \in GridEval : Unfused(s, cp[s]) <= Lowest(s, Now(s))
      BY <1>1, <1>2, <1>3, <3>1 DEF NoHiddenChange
    <3>3. QED
      BY <1>2, <1>9, <3>2 DEF Quiet
  <2>4. Phases'
    BY <1>2, <2>1, <2>3 DEF Phases
  <2>5. NoHiddenChange'
    BY <2>1 DEF NoHiddenChange
  <2>6. QED
    BY <1>4, <1>5, <1>6, <1>7, <1>8, <2>2, <2>4, <2>5 DEF IInv
<1>12. QED
  BY <1>10, <1>11

\* A state whose backup is MAX_COST has no best action.
LEMMA NoBest ==
  ASSUME NEW s \in GridStates, NEW f, GridBackup(s, f) = TopCost
  PROVE  GridBest(s, f) = {}
<1>1. ASSUME NEW a \in GridBest(s, f) PROVE FALSE
  <2>1. PadCost(a, s, f) = TopCost /\ PadCost(a, s, f) < TopCost
    BY DEF GridBest
  <2>2. QED
    BY <2>1, MdpAssumption
<1>2. QED
  BY <1>1

LEMMA WriteBackKeeps ==
  ASSUME IInv, WriteBack
  PROVE  IInv'
<1>1. /\ TypeOK /\ LoadsSound /\ ClaimsSound /\ StaleAnnounced
      /\ Phases /\ ValuesAbove /\ NoHiddenChange /\ PolicyFits
  BY DEF IInv
<1>2. /\ phase = "done" /\ action' = Policy /\ total' = ValueOf /\ phase' = "returned"
      /\ UNCHANGED <<layout, cp, held, cand, cursor, job, at, lim, todo, cmask, changed,
                     mask, prev, iter, converged, calls>>
  BY DEF WriteBack, words, lists, scan, round
<1>3. /\ GoodWords(cp) /\ ValueOf \in GridTables /\ ValueOf = ValOf(cp)
      /\ \A s \in GridStates : ValueOf[s] = Unfused(s, cp[s])
      /\ \A s : Now(s) = NowOf(cp, s)
      /\ \A s \in GridStates : Lowest(s, Now(s)) = GridBackup(s, GridView(s, ValueOf))
  BY <1>1, CpFacts
<1>4. ASSUME NEW s \in GridStates
      PROVE  Policy[s] = IF s \in GridEval THEN GridBest(s, GridView(s, ValueOf)) ELSE {}
  <2>1. Policy[s] = IF PassOver(s) THEN {} ELSE BestActions(s, Now(s))
    BY DEF Policy
  <2>2. CASE s \notin GridEval
    BY <2>1, <2>2 DEF PassOver
  <2>3. CASE s \in GridEval /\ ~(converged /\ cp[s] = Unreached)
    <3>1. Policy[s] = BestActions(s, Now(s))
      BY <2>1, <2>3 DEF PassOver
    <3>2. BestActions(s, Now(s)) = GridBest(s, GridView(s, ValueOf))
      BY <1>3, NowFacts
    <3>3. QED
      BY <2>3, <3>1, <3>2
  <2>4. CASE s \in GridEval /\ converged /\ cp[s] = Unreached
    <3>1. Unfused(s, cp[s]) = TopCost
      BY <2>4 DEF Unfused
    <3>2. TopCost <= GridBackup(s, GridView(s, ValueOf))
      BY <1>1, <1>2, <1>3, <2>4, <3>1 DEF Phases, Quiet
    <3>3. GridBackup(s, GridView(s, ValueOf)) \in 0 .. TopCost
      <4>1. \A d \in GridStates : ValueOf[d] <= ValueOf[d]
        <5>1. \A d \in GridStates : ValueOf[d] \in 0 .. TopCost
          BY <1>3 DEF GridTables
        <5>2. QED
          BY <5>1, MdpAssumption
      <4>2. QED
        BY <1>3, <4>1, BackupOrder
    <3>4. GridBackup(s, GridView(s, ValueOf)) = TopCost
      BY <3>2, <3>3, MdpAssumption
    <3>5. GridBest(s, GridView(s, ValueOf)) = {}
      BY <3>4, NoBest
    <3>6. Policy[s] = {}
      BY <2>1, <2>4 DEF PassOver
    <3>7. QED
      BY <2>4, <3>5, <3>6
  <2>5. QED
    BY <2>2, <2>3, <2>4
<1>5. TypeOK'
  <2>1. total' \in [GridStates -> 0 .. TopCost]
    BY <1>2, <1>3 DEF GridTables
  <2>2. action' \in [GridStates -> SUBSET Actions]
    <3>1. \A s \in GridStates : Policy[s] \in SUBSET Actions
      BY <1>4 DEF GridBest
    <3>2. Policy = [s \in GridStates |-> Policy[s]]
      BY DEF Policy
    <3>3. QED
      BY <1>2, <3>1, <3>2
  <2>3. QED
    BY <1>1, <1>2, <2>1, <2>2 DEF TypeOK
<1>6. LoadsSound' /\ ValuesAbove'
  BY <1>1, <1>2 DEF LoadsSound, ValuesAbove, ValueOf
<1>7. ClaimsSound'
  <2>1. \A w \in Threads : job'[w] = "wait"
    BY <1>1, <1>2 DEF Phases
  <2>2. QED
    BY <1>1, <1>2, <2>1 DEF ClaimsSound
<1>8. StaleAnnounced' /\ NoHiddenChange'
  BY <1>2 DEF StaleAnnounced, NoHiddenChange
<1>9. Phases'
  <2>1. Quiet' <=> Quiet
    BY <1>2 DEF Quiet, Now
  <2>2. ValueOf' = ValueOf
    BY <1>2 DEF ValueOf
  <2>3. QED
    BY <1>1, <1>2, <2>1, <2>2 DEF Phases
<1>10. PolicyFits'
  BY <1>2, <1>4 DEF PolicyFits
<1>11. QED
  BY <1>5, <1>6, <1>7, <1>8, <1>9, <1>10 DEF IInv

\* A further call finds in vi.states the words that the last one left.
LEMMA CallAgainKeeps ==
  ASSUME IInv, CallAgain
  PROVE  IInv' /\ cp' = cp
<1>1. /\ TypeOK /\ LoadsSound /\ ClaimsSound /\ StaleAnnounced
      /\ Phases /\ ValuesAbove /\ NoHiddenChange /\ PolicyFits
  BY DEF IInv
<1>2. /\ phase = "returned" /\ ~converged /\ calls < MaxCalls
      /\ cp' = Build(total) /\ held' = [s \in GridStates |-> {cp'[s]}]
      /\ cand' = Candidates(total) /\ cursor' = 0
      /\ job' = Each("claim") /\ changed' = Each({})
      /\ mask' = NoMask /\ prev' = {} /\ iter' = 0
      /\ phase' = "sweep" /\ calls' = calls + 1
      /\ UNCHANGED <<layout, total, action, at, lim, todo, cmask, converged>>
  BY DEF CallAgain, table
<1>3. /\ GoodWords(cp) /\ ValueOf \in GridTables /\ ValueOf = ValOf(cp)
      /\ \A s \in GridStates : ValueOf[s] = Unfused(s, cp[s])
      /\ \A s \in GridStates : Lowest(s, Now(s)) = GridBackup(s, GridView(s, ValueOf))
  BY <1>1, CpFacts
<1>4. total = ValueOf
  BY <1>1, <1>2 DEF Phases
<1>5. cp' = cp
  BY <1>2, <1>3, <1>4, BuildAgain
<1>6. /\ LoadsSound' /\ \A s \in GridStates : held'[s] = {cp'[s]}
      /\ held' \in [GridStates -> SUBSET (Words \union {Unreached})]
  <2>1. GoodWords(cp')
    BY <1>3, <1>5
  <2>2. held' = [s \in GridStates |-> {cp'[s]}]
    BY <1>2
  <2>3. QED
    BY <2>1, <2>2, FreshHeld DEF LoadsSound
<1>7. TypeOK'
  <2>1. /\ job' \in [Threads -> {"claim", "eval", "wait"}]
        /\ changed' \in [Threads -> SUBSET (GridCols \X SUBSET Layers)]
    BY <1>2 DEF Each
  <2>2. mask' \in [GridCols -> SUBSET Layers] /\ prev' \subseteq GridCols
    BY <1>2 DEF NoMask
  <2>3. iter' \in 0 .. MaxIter /\ calls' \in 1 .. MaxCalls
    BY <1>1, <1>2, FusedAssumption DEF TypeOK
  <2>4. cand' \in Seq(GridCols) /\ cursor' \in Nat
    BY <1>2, CandidatesFacts
  <2>5. QED
    BY <1>1, <1>2, <1>5, <1>6, <2>1, <2>2, <2>3, <2>4 DEF TypeOK
<1>8. ClaimsSound'
  <2>1. \A w \in Threads : job'[w] = "claim" /\ cmask'[w] = {}
    <3>1. \A w \in Threads : job[w] = "wait"
      BY <1>1, <1>2 DEF Phases
    <3>2. \A w \in Threads : cmask[w] = {}
      BY <1>1, <3>1 DEF ClaimsSound
    <3>3. QED
      BY <1>2, <3>2 DEF Each
  <2>2. \A i, j \in 1 .. Len(cand') : cand'[i] = cand'[j] => i = j
    BY <1>2, CandidatesFacts
  <2>3. QED
    BY <2>1, <2>2 DEF ClaimsSound
<1>9. StaleAnnounced'
  BY <1>6 DEF StaleAnnounced
<1>10. Phases'
  BY <1>2, FusedAssumption DEF Phases
<1>11. ValuesAbove'
  BY <1>1, <1>5 DEF ValuesAbove, ValueOf
<1>12. NoHiddenChange'
  <2> SUFFICES ASSUME NEW s \in GridEval
               PROVE  Unfused(s, cp'[s]) <= Lowest(s, Now(s)') \/ Coming(s)'
    BY DEF NoHiddenChange
  <2>1. s \in GridStates /\ (s[2] \in ToEval(s[1]))'
    <3>1. s \in GridStates /\ s = <<s[1], s[2]>> /\ s[2] \in Layers
      BY EvalFacts, StateFacts, LayerFacts
    <3>2. Gather(s[1])' = Layers
      BY <1>2 DEF Gather
    <3>3. QED
      BY <3>1, <3>2 DEF ToEval
  <2>2. CASE ValueOf[s] <= GridBackup(s, GridView(s, ValueOf))
    <3>1. Now(s)' = Now(s)
      BY <1>5 DEF Now
    <3>2. Unfused(s, cp[s]) <= Lowest(s, Now(s))
      BY <1>3, <2>1, <2>2
    <3>3. QED
      BY <1>5, <3>1, <3>2
  <2>3. CASE \E i \in 1 .. Len(Candidates(ValueOf)) : Candidates(ValueOf)[i] = s[1]
    <3>1. cursor' + 1 = 1 /\ cand' = Candidates(ValueOf)
      BY <1>2, <1>4
    <3>2. s[1] \in {cand'[j] : j \in cursor' + 1 .. Len(cand')}
      BY <2>3, <3>1
    <3>3. QED
      BY <2>1, <3>2 DEF Coming
  <2>4. QED
    BY <1>3, <2>2, <2>3, StartCovers
<1>13. PolicyFits'
  BY <1>2 DEF PolicyFits
<1>14. QED
  BY <1>5, <1>6, <1>7, <1>8, <1>9, <1>10, <1>11, <1>12, <1>13 DEF IInv

LEMMA StutterKeeps ==
  ASSUME IInv, UNCHANGED vars
  PROVE  IInv'
<1>1. UNCHANGED <<layout, total, action, cp, held, cand, cursor, job, at, lim, todo, cmask, changed,
                  mask, prev, iter, phase, converged, calls>>
  BY DEF vars, table, words, lists, scan, round, status
<1>2. /\ TypeOK /\ LoadsSound /\ ClaimsSound /\ StaleAnnounced
      /\ Phases /\ ValuesAbove /\ NoHiddenChange /\ PolicyFits
  BY DEF IInv
<1>3. TypeOK' /\ LoadsSound'
  BY <1>1, <1>2 DEF TypeOK, LoadsSound
<1>4. \A c : ToEval(c)' = ToEval(c) /\ \A v : ColOf(v)' = ColOf(v)
  BY <1>1, ToEvalSame DEF ColOf
<1>5. ClaimsSound'
  <2>1. \A v : (todo[v] \subseteq ToEval(ColOf(v)))' <=> todo[v] \subseteq ToEval(ColOf(v))
    BY <1>1 DEF ToEval, Gather, ColOf
  <2>2. QED
    BY <1>1, <1>2, <2>1 DEF ClaimsSound
<1>6. /\ \A s : Coming(s)' <=> Coming(s)
      /\ \A d : Announced(d)' <=> Announced(d)
  BY <1>1 DEF Coming, Announced, ToEval, Gather, ColOf, Told
<1>7. StaleAnnounced'
  BY <1>1, <1>2, <1>6 DEF StaleAnnounced
<1>8. \A s : Now(s)' = Now(s)
  BY <1>1 DEF Now
<1>9. NoHiddenChange'
  BY <1>1, <1>2, <1>6, <1>8 DEF NoHiddenChange
<1>10. ValueOf' = ValueOf
  BY <1>1 DEF ValueOf
<1>11. Phases' /\ ValuesAbove' /\ PolicyFits'
  BY <1>1, <1>2, <1>8, <1>10 DEF Phases, Quiet, ValuesAbove, PolicyFits
<1>12. QED
  BY <1>3, <1>5, <1>7, <1>9, <1>11 DEF IInv

\* The invariant of the fused solvers holds in every state of the program:
\* build_direct establishes it, and the workers, the leader, the write-back
\* and a further call keep it.
THEOREM SparseInvariant == Spec => []IInv
<1>1. Init => IInv
  BY InitIInv
<1>2. IInv /\ [Next]_vars => IInv'
  <2> SUFFICES ASSUME IInv, [Next]_vars PROVE IInv'
    OBVIOUS
  <2>1. ASSUME NEW w \in Threads, Claim(w) PROVE IInv'
    BY <2>1, ClaimKeeps
  <2>2. ASSUME NEW w \in Threads, RelaxLayer(w) PROVE IInv'
    BY <2>2, RelaxKeeps
  <2>3. ASSUME NEW w \in Threads, EndColumn(w) PROVE IInv'
    BY <2>3, EndColumnKeeps
  <2>4. CASE Lead
    BY <2>4, LeadKeeps
  <2>5. CASE WriteBack
    BY <2>5, WriteBackKeeps
  <2>6. CASE CallAgain
    BY <2>6, CallAgainKeeps
  <2>7. CASE UNCHANGED vars
    BY <2>7, StutterKeeps
  <2>8. QED
    BY <2>1, <2>2, <2>3, <2>4, <2>5, <2>6, <2>7 DEF Next, Worker
<1>3. QED
  BY <1>1, <1>2, PTL DEF Spec

\* The masks of changed thetas and the candidate lists never hide a change
\* from a layer that depends on it.
THEOREM NoChangeHidden == Spec => []NoHiddenChange
<1>1. IInv => NoHiddenChange
  BY DEF IInv
<1>2. QED
  BY <1>1, SparseInvariant, PTL

\* What final_policy_fused leaves in vi.states is the argmin on the values
\* that write_back_fused leaves there, also after a solve that was cut short.
THEOREM PolicyFitsValues == Spec => []PolicyFits
<1>1. IInv => PolicyFits
  BY DEF IInv
<1>2. QED
  BY <1>1, SparseInvariant, PTL
-----------------------------------------------------------------------------
(* The refinement of AsyncVi. *)

\* Values that no backup lowers any more are those of the deterministic solver.
LEMMA QuietExact ==
  ASSUME TypeOK, LoadsSound, ValuesAbove, Quiet
  PROVE  ValueOf = Reference
<1> DEFINE v == ValueOf
<1>1. /\ v \in GridTables /\ \A s \in GridStates : v[s] = Unfused(s, cp[s])
      /\ \A s \in GridStates : Lowest(s, Now(s)) = GridBackup(s, GridView(s, v))
  BY CpFacts
<1>2. AboveReference(v)
  BY AboveIs
<1>3. \A s \in GridEval : v[s] <= GridBackup(s, GridView(s, v))
  BY <1>1, EvalFacts DEF Quiet
<1> HIDE DEF v
<1>4. \A s \in GridStates : v[s] \in 0 .. TopCost /\ Reference[s] \in 0 .. TopCost
  BY <1>1, ReferenceFacts DEF GridTables
<1>5. ASSUME NEW s \in GridEval PROVE v[s] = GridBackup(s, GridView(s, v))
  <2>1. s \in GridStates /\ v[s] <= GridBackup(s, GridView(s, v)) /\ GridBackup(s, GridView(s, v)) <= v[s]
    BY <1>1, <1>2, <1>3, EvalFacts, AboveFacts
  <2>2. GridBackup(s, GridView(s, v)) \in 0 .. TopCost
    <3>1. \A d \in GridStates : v[d] <= v[d]
      BY <1>4, MdpAssumption
    <3>2. QED
      BY <1>1, <2>1, <3>1, BackupOrder
  <2>3. QED
    BY <1>4, <2>1, <2>2, MdpAssumption
<1>6. GridSolves(v)
  BY <1>1, <1>2, <1>5 DEF GridSolves, AboveReference
<1>7. \A s \in GridStates : v[s] <= Reference[s] /\ Reference[s] <= v[s]
  BY <1>1, <1>2, <1>6, ReferenceFacts, AboveFacts
<1>8. \A s \in GridStates : v[s] = Reference[s]
  BY <1>4, <1>7, MdpAssumption
<1>9. v = Reference
  BY <1>1, <1>8, ReferenceFacts DEF GridTables
<1>10. QED
  BY <1>9 DEF v

\* The fused solver is an asynchronous value iteration, through cuts and
\* calls: a lowered word lowers one value to at least its backup, a solve that
\* converges has the table of the deterministic solver, one that is cut stops,
\* and a further call takes it up where it stopped.
THEOREM SparseImplements == Spec => ImplementsAsyncVi
<1>1. Init => Vi!Init
  <2> SUFFICES ASSUME Init PROVE Vi!Init
    OBVIOUS
  <2>1. cp = Build(GridValue0) /\ phase = "sweep"
    BY DEF Init
  <2>2. \A s \in GridStates : ~Free(s) => GridValue0[s] = TopCost
    BY MdpAssumption DEF GridValue0
  <2>3. ValOf(cp) = GridValue0
    BY <2>1, <2>2, BuildValues, Value0Facts
  <2>4. ValueOf = GridValue0 /\ Result = "running"
    BY <2>1, <2>3 DEF ValueOf, ValOf, Result
  <2>5. QED
    BY <2>4 DEF Vi!Init
<1>2. IInv /\ [Next]_vars => [Vi!Next]_(Vi!vars)
  <2> SUFFICES ASSUME IInv, [Next]_vars PROVE Vi!Next \/ UNCHANGED <<ValueOf, Result>>
    BY DEF Vi!vars
  <2>0. TypeOK /\ LoadsSound /\ ClaimsSound /\ StaleAnnounced /\ Phases /\ ValuesAbove /\ NoHiddenChange
    BY DEF IInv
  <2>1. UNCHANGED <<cp, phase, converged>> => UNCHANGED <<ValueOf, Result>>
    BY DEF ValueOf, Result
  <2>2. ASSUME NEW w \in Threads, Claim(w) PROVE UNCHANGED <<ValueOf, Result>>
    BY <2>1, <2>2 DEF Claim, words, status
  <2>3. ASSUME NEW w \in Threads, EndColumn(w) PROVE UNCHANGED <<ValueOf, Result>>
    BY <2>0, <2>1, <2>3, EndColumnIs
  <2>4. ASSUME NEW w \in Threads, RelaxLayer(w) PROVE Vi!Next \/ UNCHANGED <<ValueOf, Result>>
    <3>1. PICK s \in GridStates : Coming(s) /\ held[s] = {cp[s]} /\
            \E f, cost :
              /\ RelaxStep(w, s, f, cost)
              /\ GridBackup(s, GridView(s, ValueOf)) <= cost
      BY <2>4, RelaxIs
    <3>2. PICK f, cost :
            /\ RelaxStep(w, s, f, cost)
            /\ GridBackup(s, GridView(s, ValueOf)) <= cost
      BY <3>1
    <3>3. /\ s \in GridEval /\ cost \in 0 .. TopCost /\ job[w] = "eval"
          /\ UNCHANGED <<phase, converged>>
      BY <3>2 DEF RelaxStep
    <3>4. Result = "running" /\ Result' = Result
      BY <2>0, <3>3 DEF Phases, Result
    <3>5. /\ ValueOf \in GridTables
          /\ ValueOf' = [ValueOf EXCEPT ![s] = IF cost < ValueOf[s] THEN cost ELSE ValueOf[s]]
      BY <2>0, <3>1, <3>2, RelaxValues
    <3>6. CASE cost < ValueOf[s]
      <4>1. ValueOf' = [ValueOf EXCEPT ![s] = cost]
        BY <3>5, <3>6
      <4>2. GridBackup(s, Vi!View(s, ValueOf)) <= cost
        BY <3>2 DEF Vi!View, GridView
      <4>3. Vi!Lower(s)
        BY <3>3, <3>4, <3>6, <4>1, <4>2 DEF Vi!Lower, Vi!Values
      <4>4. QED
        BY <3>3, <4>3 DEF Vi!Next
    <3>7. CASE ~(cost < ValueOf[s])
      <4>1. ValueOf' = ValueOf
        BY <3>5, <3>7 DEF GridTables
      <4>2. QED
        BY <3>4, <4>1
    <3>8. QED
      BY <3>6, <3>7
  <2>5. CASE Lead
    <3>1. phase = "sweep" /\ ValueOf' = ValueOf /\ Result = "running"
      BY <2>5 DEF Lead, ValueOf, Result
    <3>2. CASE Told # {} /\ iter + 1 < MaxIter
      <4>1. UNCHANGED <<phase, converged>>
        BY <2>5, <3>2 DEF Lead
      <4>2. QED
        BY <3>1, <4>1 DEF Result
    <3>3. CASE ~(Told # {} /\ iter + 1 < MaxIter)
      <4>1. phase' = "done" /\ (converged' <=> Told = {})
        BY <2>5, <3>3 DEF Lead
      <4>2. CASE Told = {}
        <5>1. Quiet' /\ TypeOK' /\ LoadsSound' /\ ValuesAbove'
          BY <2>5, <4>1, <4>2, LeadKeeps DEF IInv, Phases
        <5>2. Quiet
          BY <2>5, <5>1 DEF Lead, Quiet, Now
        <5>3. ValueOf = Reference
          BY <2>0, <5>2, QuietExact
        <5>4. Result' = "converged"
          BY <4>1, <4>2 DEF Result
        <5>5. QED
          BY <3>1, <5>3, <5>4 DEF Vi!Next, Vi!Converge
      <4>3. CASE Told # {}
        <5>1. Result' = "stopped"
          BY <4>1, <4>3 DEF Result
        <5>2. QED
          BY <3>1, <5>1 DEF Vi!Next, Vi!Stop
      <4>4. QED
        BY <4>2, <4>3
    <3>4. QED
      BY <3>2, <3>3
  <2>6. CASE WriteBack
    <3>1. phase = "done" /\ phase' = "returned" /\ UNCHANGED <<cp, converged>>
      BY <2>6 DEF WriteBack, words
    <3>2. QED
      BY <3>1 DEF ValueOf, Result
  <2>7. CASE CallAgain
    <3>1. cp' = cp /\ phase = "returned" /\ ~converged /\ phase' = "sweep"
      BY <2>7, CallAgainKeeps DEF CallAgain
    <3>2. ValueOf' = ValueOf /\ Result = "stopped" /\ Result' = "running"
      BY <3>1 DEF ValueOf, Result
    <3>3. QED
      BY <3>2 DEF Vi!Next, Vi!Resume
  <2>8. CASE UNCHANGED vars
    BY <2>1, <2>8 DEF vars, words, status
  <2>9. QED
    BY <2>2, <2>3, <2>4, <2>5, <2>6, <2>7, <2>8 DEF Next, Worker
<1>3. QED
  BY <1>1, <1>2, SparseInvariant, PTL DEF Spec, ImplementsAsyncVi, Vi!Spec

\* What AsyncVi, and the proofs about the parallel engine that start from it,
\* assume of a planning problem holds of every map, action list and goal that
\* the GridMdp definitions can be given.
THEOREM GridIsViProblem ==
  /\ NTheta \in Nat \ {0} /\ TopCost \in Nat /\ GridEval \subseteq Vi!States
  /\ \A s \in GridEval : \A k \in GridSlots(s) : GridNbr(s, k) \in Vi!States
  /\ \A s \in GridEval :
       /\ \A f \in [GridSlots(s) -> Vi!Values] : GridBackup(s, f) \in Vi!Values
       /\ \A f, g \in [GridSlots(s) -> Vi!Values] :
            (\A k \in GridSlots(s) : f[k] <= g[k]) => GridBackup(s, f) <= GridBackup(s, g)
       /\ GridBackup(s, [k \in GridSlots(s) |-> TopCost]) = TopCost
  /\ GridValue0 \in [Vi!States -> Vi!Values]
  /\ \A s \in GridEval : GridBackup(s, Vi!View(s, GridValue0)) <= GridValue0[s]
  /\ \E g \in [GridEval -> Vi!Values] : Reference = Vi!Completed(g)
  /\ Vi!Solves(Reference)
  /\ \A g \in [GridEval -> Vi!Values] :
       Vi!Solves(Vi!Completed(g)) => \A s \in GridEval : g[s] <= Reference[s]
<1>1. Vi!States = GridStates /\ Vi!Values = 0 .. TopCost
  BY DEF Vi!States, Vi!Thetas, Vi!Values, GridStates
<1>2. \A s, v : Vi!View(s, v) = GridView(s, v)
  BY DEF Vi!View, GridView
<1>3. NTheta \in Nat \ {0} /\ TopCost \in Nat \ {0} /\ GridEval \subseteq GridStates
  BY GeomAssumption, MdpAssumption, EvalFacts
<1>4. \A s \in GridEval : \A k \in GridSlots(s) : GridNbr(s, k) \in GridStates
  BY <1>3, SlotOutcome
<1>5. ASSUME NEW s \in GridEval
      PROVE  /\ \A f \in [GridSlots(s) -> 0 .. TopCost] : GridBackup(s, f) \in 0 .. TopCost
             /\ \A f, g \in [GridSlots(s) -> 0 .. TopCost] :
                  (\A k \in GridSlots(s) : f[k] <= g[k]) => GridBackup(s, f) <= GridBackup(s, g)
             /\ GridBackup(s, [k \in GridSlots(s) |-> TopCost]) = TopCost
  <2>1. s \in GridStates
    BY <1>3
  <2> DEFINE u == [k \in GridSlots(s) |-> TopCost]
  <2>2. u \in [GridSlots(s) -> 0 .. TopCost] /\ \A k \in GridSlots(s) : u[k] = TopCost
    BY <1>3
  <2> HIDE DEF u
  <2>3. GridBackup(s, u) = TopCost
    BY <2>1, <2>2, BackupMonotone
  <2>4. QED
    BY <2>1, <2>3, BackupMonotone DEF u
<1>6. ASSUME NEW s \in GridEval
      PROVE  GridBackup(s, GridView(s, GridValue0)) <= GridValue0[s]
  BY <1>3, StartAbove, Value0Facts, AboveFacts
<1> DEFINE g0 == [s \in GridEval |-> Reference[s]]
<1>7. g0 \in [GridEval -> 0 .. TopCost] /\ Reference = Vi!Completed(g0)
  <2>1. \A s \in GridStates : Reference[s] \in 0 .. TopCost
    BY ReferenceFacts DEF GridTables
  <2>2. \A s \in GridStates : Reference[s] = IF s \in GridEval THEN g0[s] ELSE GridValue0[s]
    BY ReferenceFacts DEF GridSolves
  <2>3. Reference = [s \in GridStates |-> Reference[s]]
    BY ReferenceFacts DEF GridTables
  <2>4. Reference = [s \in GridStates |-> IF s \in GridEval THEN g0[s] ELSE GridValue0[s]]
    BY <2>2, <2>3
  <2>5. g0 \in [GridEval -> 0 .. TopCost]
    BY <1>3, <2>1
  <2> HIDE DEF g0
  <2>6. QED
    BY <1>1, <2>4, <2>5 DEF Vi!Completed
<1>8. Vi!Solves(Reference)
  <2> SUFFICES ASSUME NEW s \in GridEval
               PROVE  /\ Reference[s] <= GridValue0[s]
                      /\ Reference[s] = GridBackup(s, GridView(s, Reference))
    BY <1>2 DEF Vi!Solves
  <2>1. Reference[s] <= GridValue0[s]
    BY <1>3, StartAbove, Value0Facts, AboveFacts
  <2>2. Reference[s] = GridBackup(s, GridView(s, Reference))
    BY <1>3, ReferenceFacts DEF GridSolves
  <2>3. QED
    BY <2>1, <2>2
<1>9. ASSUME NEW g \in [GridEval -> 0 .. TopCost], Vi!Solves(Vi!Completed(g)), NEW s \in GridEval
      PROVE  g[s] <= Reference[s]
  <2> DEFINE v == [x \in GridStates |-> IF x \in GridEval THEN g[x] ELSE GridValue0[x]]
  <2>1. Vi!Completed(g) = v
    BY <1>1 DEF Vi!Completed
  <2>2. v \in GridTables
    <3>1. \A x \in GridStates : (IF x \in GridEval THEN g[x] ELSE GridValue0[x]) \in 0 .. TopCost
      BY Value0Facts DEF GridTables
    <3>2. QED
      BY <3>1 DEF GridTables
  <2>3. \A x \in GridStates : v[x] = IF x \in GridEval THEN g[x] ELSE GridValue0[x]
    OBVIOUS
  <2> HIDE DEF v
  <2>4. \A x \in GridEval : v[x] = GridBackup(x, GridView(x, v))
    BY <1>2, <1>9, <2>1 DEF Vi!Solves
  <2>5. GridSolves(v)
    BY <2>2, <2>3, <2>4 DEF GridSolves
  <2>6. s \in GridStates
    BY <1>3
  <2>7. v[s] <= Reference[s] /\ v[s] = g[s]
    BY <2>3, <2>5, <2>6, ReferenceFacts
  <2>8. QED
    BY <2>7
<1>10. \E g \in [GridEval -> 0 .. TopCost] : Reference = Vi!Completed(g)
  BY <1>7
<1>11. \A s \in GridEval : GridBackup(s, Vi!View(s, GridValue0)) <= GridValue0[s]
  BY <1>2, <1>6
<1> HIDE DEF g0
<1>12. GridValue0 \in [GridStates -> 0 .. TopCost]
  BY Value0Facts DEF GridTables
<1>13. QED
  BY <1>1, <1>3, <1>4, <1>5, <1>8, <1>9, <1>10, <1>11, <1>12
=============================================================================
