--------------------------- MODULE CompactViProofs ---------------------------
(***************************************************************************)
(* Proofs about CompactVi for every map, displacement, block size and      *)
(* number of threads: the state is well typed, the change masks are clean  *)
(* at the start of every wave, and evicting a block is safe: its counter   *)
(* is exact, its states are final and no later step reads it.              *)
(***************************************************************************)
EXTENDS CompactVi, FiniteSetTheorems, TLAPS
-----------------------------------------------------------------------------
(* Natural numbers: extremes of a set, and division. *)

\* A set of naturals that is not empty has a least element: of the initial
\* segments below its elements, one contains no other.
LEMMA LeastOf ==
  ASSUME NEW S \in SUBSET Nat, S # {}
  PROVE  \E m \in S : \A k \in S : m <= k
<1> DEFINE R == StrictSubsetOrdering(Nat)
           T == {0 .. m - 1 : m \in S}
<1>1. IsWellFoundedOn(R, FiniteSubsetsOf(Nat))
  BY FS_StrictSubsetOrderingWellFounded
<1>2. T \subseteq FiniteSubsetsOf(Nat) /\ T # {}
  <2>1. ASSUME NEW m \in S PROVE 0 .. m - 1 \in FiniteSubsetsOf(Nat)
    BY FS_Interval DEF FiniteSubsetsOf
  <2>2. QED
    BY <2>1
<1> HIDE DEF R, T
<1>3. \E x \in T : \A y \in T : ~(<<y, x>> \in R)
  BY <1>1, <1>2, WFMin, Zenon
<1>4. PICK m \in S : \A y \in T : ~(<<y, 0 .. m - 1>> \in R)
  BY <1>3 DEF T
<1>5. ASSUME NEW k \in S, k < m PROVE FALSE
  <2>1. 0 .. k - 1 \in T /\ 0 .. m - 1 \in SUBSET Nat /\ 0 .. k - 1 \in SUBSET Nat
    BY DEF T
  <2>2. 0 .. k - 1 \subseteq 0 .. m - 1 /\ k \in 0 .. m - 1 /\ k \notin 0 .. k - 1
    BY <1>5
  <2>3. <<0 .. k - 1, 0 .. m - 1>> \in R
    BY <2>1, <2>2 DEF R, StrictSubsetOrdering
  <2>4. QED
    BY <1>4, <2>1, <2>3
<1>6. QED
  BY <1>5

\* A set of naturals that is not empty and bounded has a greatest element.
LEMMA GreatestOf ==
  ASSUME NEW n \in Nat, NEW S \in SUBSET (0 .. n), S # {}
  PROVE  \E m \in S : \A k \in S : k <= m
<1> DEFINE T == {n - k : k \in S}
<1>1. T \in SUBSET Nat /\ T # {}
  <2>1. ASSUME NEW k \in S PROVE n - k \in Nat
    <3>1. k \in 0 .. n
      OBVIOUS
    <3>2. QED
      BY <3>1
  <2>2. QED
    BY <2>1
<1> HIDE DEF T
<1>2. PICK d \in T : \A e \in T : d <= e
  BY <1>1, LeastOf
<1>3. PICK m \in S : d = n - m
  BY DEF T
<1>4. ASSUME NEW k \in S PROVE k <= m
  <2>1. n - k \in T
    BY DEF T
  <2>2. QED
    BY <1>2, <1>3, <2>1
<1>5. QED
  BY <1>4

\* Quotient and remainder.
LEMMA DivMod ==
  ASSUME NEW a \in Nat, NEW k \in Nat \ {0}
  PROVE  a \div k \in Nat /\ a % k \in 0 .. k - 1 /\ a = k * (a \div k) + (a % k)
OBVIOUS

\* A number that lies in the q-th interval of length k has quotient q.
LEMMA DivIs ==
  ASSUME NEW a \in Nat, NEW k \in Nat \ {0}, NEW q \in Nat, k * q <= a, a < k * q + k
  PROVE  a \div k = q
<1> DEFINE d == a \div k
<1>1. d \in Nat /\ k * d <= a /\ a < k * d + k
  BY DivMod
<1> HIDE DEF d
<1>2. ~(d < q)
  <2>1. SUFFICES ASSUME d < q PROVE FALSE
    OBVIOUS
  <2>2. k * (d + 1) <= k * q
    BY <1>1, <2>1, SMTT(30)
  <2>3. k * (d + 1) = k * d + k
    BY <1>1
  <2>4. QED
    BY <1>1, <2>2, <2>3
<1>3. ~(q < d)
  <2>1. SUFFICES ASSUME q < d PROVE FALSE
    OBVIOUS
  <2>2. k * (q + 1) <= k * d
    BY <1>1, <2>1, SMTT(30)
  <2>3. k * (q + 1) = k * q + k
    OBVIOUS
  <2>4. QED
    BY <1>1, <2>2, <2>3
<1>4. d = q
  BY <1>1, <1>2, <1>3
<1>5. QED
  BY <1>4 DEF d

\* Division is monotone, and a multiple of the divisor passes through it.
LEMMA DivMonotone ==
  ASSUME NEW a \in Nat, NEW b \in Nat, NEW k \in Nat \ {0}, a <= b
  PROVE  a \div k <= b \div k
<1> DEFINE d == a \div k
           e == b \div k
<1>1. d \in Nat /\ e \in Nat /\ k * d <= a /\ b < k * e + k
  BY DivMod
<1> HIDE DEF d, e
<1>2. ~(e < d)
  <2>1. SUFFICES ASSUME e < d PROVE FALSE
    OBVIOUS
  <2>2. k * (e + 1) <= k * d
    BY <1>1, <2>1, SMTT(30)
  <2>3. k * (e + 1) = k * e + k
    BY <1>1
  <2>4. QED
    BY <1>1, <2>2, <2>3
<1>3. d <= e
  BY <1>1, <1>2
<1>4. QED
  BY <1>3 DEF d, e

LEMMA DivShift ==
  ASSUME NEW a \in Nat, NEW n \in Nat, NEW k \in Nat \ {0}
  PROVE  (a + k * n) \div k = (a \div k) + n
<1> DEFINE d == a \div k
<1>1. d \in Nat /\ k * d <= a /\ a < k * d + k
  BY DivMod
<1> HIDE DEF d
<1>2. k * (d + n) = k * d + k * n /\ k * n \in Nat
  BY <1>1
<1>3. a + k * n \in Nat /\ d + n \in Nat
  BY <1>1, <1>2
<1>4. (a + k * n) \div k = d + n
  BY <1>1, <1>2, <1>3, DivIs
<1>5. QED
  BY <1>4 DEF d
-----------------------------------------------------------------------------
(* Geometry: rows, blocks and halos.                                        *)

\* The halo is at least as wide as the window: its blocks span My rows.
LEMMA HaloWide ==
  /\ HaloBlocks \in Nat /\ BlockRows * HaloBlocks >= My
  /\ LastBlock \in Nat
  /\ \A r \in 0 .. NumRows - 1 + 2 * My : r \div BlockRows \in Blocks
<1>1. My \in Nat \ {0} /\ BlockRows \in Nat \ {0} /\ NumRows \in Nat \ {0}
  BY SizeAssumption
<1>2. HaloBlocks \in Nat /\ BlockRows * HaloBlocks >= My
  <2> DEFINE a == My + BlockRows - 1
  <2>1. a \in Nat
    BY <1>1
  <2>2. /\ a \div BlockRows \in Nat
        /\ a = BlockRows * (a \div BlockRows) + (a % BlockRows)
        /\ a % BlockRows \in 0 .. BlockRows - 1
    BY <1>1, <2>1, DivMod
  <2>3. HaloBlocks = a \div BlockRows
    BY DEF HaloBlocks, CeilDiv
  <2>4. BlockRows * HaloBlocks \in Nat /\ a - BlockRows * HaloBlocks <= BlockRows - 1
    BY <1>1, <2>1, <2>2, <2>3
  <2>5. QED
    BY <1>1, <2>2, <2>3, <2>4
<1>3. /\ LastBlock \in Nat
      /\ LastBlock = (NumRows - 1 + 2 * My) \div BlockRows
  <2> DEFINE a == NumRows - 1 + 2 * My
  <2>1. a \in Nat
    BY <1>1
  <2>2. (a + BlockRows * 1) \div BlockRows = (a \div BlockRows) + 1 /\ a \div BlockRows \in Nat
    BY <1>1, <2>1, DivShift, DivMod
  <2>3. a + BlockRows * 1 = NumRows + 2 * My + BlockRows - 1
    BY <1>1
  <2>4. LastBlock = ((NumRows + 2 * My + BlockRows - 1) \div BlockRows) - 1
    BY DEF LastBlock, CeilDiv
  <2>5. QED
    BY <2>2, <2>3, <2>4
<1>4. ASSUME NEW r \in 0 .. NumRows - 1 + 2 * My
      PROVE  r \div BlockRows \in Blocks
  <2>1. r \in Nat /\ NumRows - 1 + 2 * My \in Nat /\ r <= NumRows - 1 + 2 * My
    BY <1>1
  <2>2. /\ r \div BlockRows <= (NumRows - 1 + 2 * My) \div BlockRows
        /\ r \div BlockRows \in Nat
    BY <1>1, <2>1, DivMonotone, DivMod
  <2>3. QED
    BY <1>3, <2>2 DEF Blocks
<1>5. QED
  BY <1>2, <1>3, <1>4

\* Rows at most My apart lie in blocks at most HaloBlocks apart.
LEMMA CloseRows ==
  ASSUME NEW r \in Nat, NEW q \in Nat, r <= q + My
  PROVE  r \div BlockRows <= (q \div BlockRows) + HaloBlocks
<1>1. My \in Nat /\ BlockRows \in Nat \ {0} /\ HaloBlocks \in Nat
      /\ BlockRows * HaloBlocks >= My /\ BlockRows * HaloBlocks \in Nat
  BY SizeAssumption, HaloWide
<1>2. r <= q + BlockRows * HaloBlocks /\ q + BlockRows * HaloBlocks \in Nat
  BY <1>1
<1>3. r \div BlockRows <= (q + BlockRows * HaloBlocks) \div BlockRows
  BY <1>1, <1>2, DivMonotone
<1>4. (q + BlockRows * HaloBlocks) \div BlockRows = (q \div BlockRows) + HaloBlocks
  BY <1>1, DivShift
<1>5. QED
  BY <1>3, <1>4

LEMMA BlockType ==
  ASSUME NEW c \in Cols
  PROVE  /\ c[2] \in 0 .. NumRows - 1 /\ c[2] \in Nat /\ c[2] + My \in Nat
         /\ Block(c) \in Blocks /\ Block(c) \in Nat
<1>1. c[2] \in 0 .. NumRows - 1 /\ My \in Nat /\ NumRows \in Nat
  BY MapAssumption, SizeAssumption
<1>2. c[2] + My \in 0 .. NumRows - 1 + 2 * My
  BY <1>1
<1>3. Block(c) \in Blocks
  BY <1>2, HaloWide DEF Block
<1>4. QED
  BY <1>1, <1>3, HaloWide DEF Blocks

\* A column is in the halo of every block its relaxation reads, and these
\* blocks are among those that ensure_window builds.
LEMMA ReadsNear ==
  ASSUME NEW c \in Cols, NEW b \in Reads(c)
  PROVE  b \in Blocks /\ Block(c) \in Around(b) /\ b \in Window(c)
<1>1. /\ c[2] \in 0 .. NumRows - 1 /\ c[2] \in Nat /\ c[2] + My \in Nat
      /\ Block(c) \in Blocks /\ Block(c) \in Nat
      /\ My \in Nat /\ NumRows \in Nat /\ BlockRows \in Nat \ {0}
      /\ HaloBlocks \in Nat /\ LastBlock \in Nat
  BY BlockType, SizeAssumption, HaloWide
<1>2. PICK r \in c[2] .. c[2] + 2 * My : b = r \div BlockRows
  <2>1. CASE Updated(c)
    BY <2>1 DEF Reads
  <2>2. CASE ~Updated(c)
    <3>1. b = (c[2] + My) \div BlockRows
      BY <2>2 DEF Reads, Block
    <3>2. c[2] + My \in c[2] .. c[2] + 2 * My
      BY <1>1
    <3>3. QED
      BY <3>1, <3>2
  <2>3. QED
    BY <2>1, <2>2
<1>3. /\ r \in Nat /\ r \in 0 .. NumRows - 1 + 2 * My
      /\ c[2] <= r /\ r <= c[2] + 2 * My
      /\ c[2] + My <= r + My /\ r <= (c[2] + My) + My
      /\ c[2] + 2 * My \in Nat
  BY <1>1
<1>4. b \in Blocks /\ b \in Nat
  BY <1>2, <1>3, HaloWide DEF Blocks
<1>5. (c[2] + My) \div BlockRows <= (r \div BlockRows) + HaloBlocks
  BY <1>1, <1>3, CloseRows
<1>6. r \div BlockRows <= ((c[2] + My) \div BlockRows) + HaloBlocks
  BY <1>1, <1>3, CloseRows
<1>7. Block(c) <= b + HaloBlocks /\ b <= Block(c) + HaloBlocks
  BY <1>2, <1>5, <1>6 DEF Block
<1>8. Block(c) \in Around(b)
  BY <1>1, <1>4, <1>7 DEF Around
<1>9. c[2] \div BlockRows <= b /\ b <= (c[2] + 2 * My) \div BlockRows
  BY <1>1, <1>2, <1>3, DivMonotone
<1>10. c[2] \div BlockRows \in Nat /\ (c[2] + 2 * My) \div BlockRows \in Nat
  BY <1>1, <1>3, DivMod
<1>11. b \in Window(c)
  BY <1>1, <1>4, <1>9, <1>10 DEF Window, LowerOf, Blocks
<1>12. QED
  BY <1>4, <1>8, <1>11

LEMMA WindowBlocks ==
  ASSUME NEW c \in Cols
  PROVE  Window(c) \subseteq Blocks
<1>1. /\ c[2] \in Nat /\ BlockRows \in Nat \ {0} /\ My \in Nat /\ LastBlock \in Nat
      /\ c[2] + 2 * My \in Nat
  <2>1. c[2] \in Nat /\ BlockRows \in Nat \ {0} /\ My \in Nat /\ LastBlock \in Nat
    BY BlockType, SizeAssumption, HaloWide
  <2>2. QED
    BY <2>1
<1>2. c[2] \div BlockRows \in Nat /\ (c[2] + 2 * My) \div BlockRows \in Nat
  BY <1>1, DivMod
<1>3. QED
  BY <1>1, <1>2 DEF Window, LowerOf, Blocks

\* Columns in each other's window lie in each other's halo.
LEMMA NearHalo ==
  ASSUME NEW d \in Cols, NEW c \in Cols, <<d, c>> \in Near
  PROVE  Block(d) \in Around(Block(c))
<1>1. d[2] <= c[2] + My /\ c[2] <= d[2] + My
  <2> DEFINE p == <<d, c>>
  <2>1. p[1][2] <= p[2][2] + My /\ p[2][2] <= p[1][2] + My
    BY MapAssumption
  <2>2. QED
    BY <2>1
<1>2. /\ c[2] \in Nat /\ d[2] \in Nat /\ c[2] + My \in Nat /\ d[2] + My \in Nat
      /\ Block(d) \in Blocks /\ Block(c) \in Nat /\ Block(d) \in Nat
      /\ HaloBlocks \in Nat /\ My \in Nat
  BY BlockType, HaloWide, SizeAssumption
<1>3. (d[2] + My) \div BlockRows <= ((c[2] + My) \div BlockRows) + HaloBlocks
  BY <1>1, <1>2, CloseRows
<1>4. (c[2] + My) \div BlockRows <= ((d[2] + My) \div BlockRows) + HaloBlocks
  BY <1>1, <1>2, CloseRows
<1>5. QED
  BY <1>2, <1>3, <1>4 DEF Around, Block

LEMMA SelfHalo ==
  ASSUME NEW b \in Blocks
  PROVE  b \in Around(b)
<1>1. b \in Nat /\ HaloBlocks \in Nat
  BY HaloWide DEF Blocks
<1>2. QED
  BY <1>1 DEF Around
-----------------------------------------------------------------------------
(* States, goals and the counters.                                          *)

LEMMA StateFacts ==
  /\ NT \in Nat \ {0} /\ MaxCost \in Nat \ {0}
  /\ States = Cols \X Thetas /\ EvalStates \subseteq States
  /\ \A s \in EvalStates : s[1] \in Open /\ s[1] \in Cols /\ s[2] \in Thetas
  /\ Value0 \in [States -> Values] /\ 0 \in Values /\ MaxCost \in Values
  /\ Seeds \subseteq States /\ Seeds = {s \in States : Value0[s] = 0}
  /\ SeedCols \subseteq Cols
<1>1. NT \in Nat \ {0} /\ MaxCost \in Nat \ {0} /\ Open \subseteq Cols
  BY SizeAssumption, GoalAssumption, MapAssumption
<1>2. EvalStates \subseteq Open \X Thetas
  BY GoalAssumption
<1>3. 0 \in Values /\ MaxCost \in Values
  BY <1>1 DEF Values
<1>4. Value0 \in [States -> Values]
  BY <1>1, <1>3, GoalAssumption
<1>5. Seeds = {s \in States : Value0[s] = 0}
  BY <1>1, GoalAssumption DEF Seeds
<1>6. SeedCols \subseteq Cols
  BY <1>5 DEF SeedCols, States
<1>7. QED
  BY <1>1, <1>2, <1>3, <1>4, <1>5, <1>6 DEF States

\* A state that no solver updates keeps 0 if it is a goal; the column of a
\* goal holds one.
LEMMA FixedFacts ==
  ASSUME NEW c \in Cols, ~Updated(c), NEW v,
         \A s \in States \ EvalStates : v[s] = Value0[s]
  PROVE  /\ Reached(v, c) \subseteq {0}
         /\ Reached(v, c) # {} <=> c \in SeedCols
<1>1. ASSUME NEW i \in Thetas
      PROVE  v[<<c, i>>] \in {0, MaxCost} /\ v[<<c, i>>] = Value0[<<c, i>>]
  <2>1. <<c, i>> \in States /\ <<c, i>> \notin EvalStates
    BY DEF States, Updated
  <2>2. QED
    BY <2>1, GoalAssumption
<1>2. Reached(v, c) \subseteq {0}
  BY <1>1 DEF Reached
<1>3. MaxCost # 0
  BY StateFacts
<1>4. ASSUME NEW x \in Reached(v, c) PROVE c \in SeedCols
  <2>1. PICK i \in Thetas : x = v[<<c, i>>] /\ x # MaxCost
    BY DEF Reached
  <2>2. <<c, i>> \in Seeds
    BY <1>1, <2>1, StateFacts DEF States
  <2>3. QED
    BY <2>2 DEF SeedCols
<1>5. ASSUME c \in SeedCols PROVE Reached(v, c) # {}
  <2>1. PICK s \in Seeds : s[1] = c
    BY <1>5 DEF SeedCols
  <2>2. s \in States /\ Value0[s] = 0
    BY StateFacts
  <2>3. s = <<c, s[2]>> /\ s[2] \in Thetas
    BY <2>1, <2>2 DEF States
  <2>4. v[<<c, s[2]>>] = 0
    BY <1>1, <2>2, <2>3
  <2>5. QED
    BY <1>3, <2>3, <2>4 DEF Reached
<1>6. QED
  BY <1>2, <1>4, <1>5

\* The range of a column is a pair of values; that of a column without updated
\* states is 0, or empty.
LEMMA RangeFacts ==
  ASSUME NEW c \in Cols, NEW v \in [States -> Values]
  PROVE  /\ MinOf(v, c) \in Values /\ MaxOf(v, c) \in Values
         /\ MinOf(v, c) # MaxCost => Reached(v, c) # {}
         /\ Reached(v, c) = {0} => MaxOf(v, c) = 0
<1> DEFINE S == Reached(v, c)
<1>1. S \subseteq 0 .. MaxCost /\ MaxCost \in Nat /\ MaxCost \in Values
  <2>1. \A i \in Thetas : v[<<c, i>>] \in Values
    BY DEF States
  <2>2. QED
    BY <2>1, StateFacts DEF Reached, Values
<1> HIDE DEF S
<1>2. CASE S = {}
  <2>1. MinOf(v, c) = MaxCost /\ MaxOf(v, c) = MaxCost /\ S # {0}
    BY <1>2 DEF MinOf, MaxOf, S
  <2>2. QED
    BY <1>1, <2>1 DEF S
<1>3. CASE S # {}
  <2>1. S \in SUBSET Nat
    BY <1>1
  <2>2. /\ \E m \in S : \A n \in S : m <= n
        /\ \E m \in S : \A n \in S : n <= m
    BY <1>1, <1>3, <2>1, LeastOf, GreatestOf
  <2>3. /\ MinOf(v, c) = CHOOSE m \in S : \A n \in S : m <= n
        /\ MaxOf(v, c) = CHOOSE m \in S : \A n \in S : n <= m
    BY <1>3 DEF MinOf, MaxOf, S
  <2>4. MinOf(v, c) \in S /\ MaxOf(v, c) \in S
    BY <2>2, <2>3
  <2>5. QED
    BY <1>1, <1>3, <2>4 DEF Values, S
<1>4. QED
  BY <1>2, <1>3

InBlock(b) == {s \in EvalStates : Block(s[1]) = b}

\* n_eval is the number of updated states of the block: its free columns times
\* the headings, less the goal states.
LEMMA CountOf ==
  ASSUME NEW b \in Blocks
  PROVE  /\ IsFiniteSet(InBlock(b)) /\ NEval(b) = Cardinality(InBlock(b))
         /\ NEval(b) \in Nat
<1> DEFINE C == {c \in Open : Block(c) = b}
           S == {s \in Seeds : Block(s[1]) = b}
           A == C \X Thetas
<1>1. IsFiniteSet(C) /\ IsFiniteSet(Thetas) /\ Cardinality(Thetas) = NT
  <2>1. IsFiniteSet(C)
    <3>1. C \subseteq Cols /\ IsFiniteSet(Cols)
      BY MapAssumption
    <3>2. QED
      BY <3>1, FS_Subset
  <2>2. IsFiniteSet(Thetas) /\ Cardinality(Thetas) = NT
    <3>1. NT \in Nat \ {0} /\ 0 \in Int /\ NT - 1 \in Int
      BY StateFacts
    <3>2. QED
      BY <3>1, FS_Interval DEF Thetas
  <2>3. QED
    BY <2>1, <2>2
<1>2. S \subseteq A /\ InBlock(b) = A \ S
  <2>1. Seeds \subseteq Open \X Thetas
    BY GoalAssumption, StateFacts
  <2>2. S \subseteq A
    BY <2>1
  <2>3. ASSUME NEW s PROVE s \in InBlock(b) <=> s \in A \ S
    <3>1. s \in EvalStates <=> s \in Open \X Thetas /\ Value0[s] = MaxCost
      BY GoalAssumption
    <3>2. s \in Open \X Thetas => s \in States /\ (Value0[s] = MaxCost <=> s \notin Seeds)
      BY StateFacts, GoalAssumption, MapAssumption DEF States
    <3>3. QED
      BY <3>1, <3>2 DEF InBlock
  <2>4. QED
    BY <2>2, <2>3
<1> HIDE DEF C, S
<1>3. /\ IsFiniteSet(A) /\ Cardinality(A) = Cardinality(C) * NT
      /\ Cardinality(C) \in Nat
  BY <1>1, FS_Product, FS_CardinalityType
<1> HIDE DEF A
<1>4. IsFiniteSet(S) /\ Cardinality(S) \in Nat /\ A \cap S = S
  BY <1>2, <1>3, FS_Subset, FS_CardinalityType
<1>5. /\ IsFiniteSet(A \ S)
      /\ Cardinality(A \ S) = Cardinality(A) - Cardinality(A \cap S)
      /\ Cardinality(A \ S) \in Nat
  BY <1>3, FS_Difference, FS_CardinalityType
<1>6. NEval(b) = NT * Cardinality(C) - Cardinality(S)
  BY DEF NEval, C, S
<1>7. NT * Cardinality(C) = Cardinality(C) * NT
  BY <1>3, StateFacts
<1>8. QED
  BY <1>2, <1>3, <1>4, <1>5, <1>6, <1>7

LEMMA SubCount ==
  ASSUME NEW b \in Blocks, NEW T, T \subseteq InBlock(b)
  PROVE  /\ IsFiniteSet(T) /\ Cardinality(T) \in 0 .. NEval(b)
         /\ Cardinality(T) = NEval(b) => T = InBlock(b)
<1>1. IsFiniteSet(InBlock(b)) /\ NEval(b) = Cardinality(InBlock(b)) /\ NEval(b) \in Nat
  BY CountOf
<1>2. /\ IsFiniteSet(T)
      /\ Cardinality(T) <= Cardinality(InBlock(b))
      /\ Cardinality(T) = Cardinality(InBlock(b)) => T = InBlock(b)
  BY <1>1, FS_Subset
<1>3. Cardinality(T) \in Nat
  BY <1>2, FS_CardinalityType
<1>4. QED
  BY <1>1, <1>2, <1>3
-----------------------------------------------------------------------------
(* Small facts about the operators of the steps.                            *)

LEMMA ScanFacts ==
  ASSUME NEW S, S \subseteq Cols
  PROVE  /\ Scan(S, FALSE) \in Seq(Cols)
         /\ Entries(Scan(S, FALSE)) = S
<1>1. S \in SUBSET Cols
  OBVIOUS
<1>2. /\ Scan(S, FALSE) \in Seq(S)
      /\ {Scan(S, FALSE)[i] : i \in DOMAIN Scan(S, FALSE)} = S
  BY <1>1, ScanAssumption
<1>3. Seq(S) \subseteq Seq(Cols)
  OBVIOUS
<1>4. QED
  BY <1>2, <1>3 DEF Entries

LEMMA UnfinishedFacts ==
  ASSUME NEW S, NEW fin
  PROVE  /\ Unfinished(S, fin) \in Seq(Cols)
         /\ \A c \in Entries(Unfinished(S, fin)) :
              c \in Cols /\ ~fin[c] /\ \E d \in S : <<d, c>> \in Near
<1> DEFINE T == {c \in DilateCols(S) : ~fin[c]}
<1>1. T \subseteq Cols /\ \A c \in T : ~fin[c] /\ \E d \in S : <<d, c>> \in Near
  BY DEF DilateCols
<1>2. Unfinished(S, fin) = Scan(T, FALSE)
  BY DEF Unfinished
<1> HIDE DEF T
<1>3. QED
  BY <1>1, <1>2, ScanFacts

LEMMA EntriesIn ==
  ASSUME NEW q \in Seq(Cols)
  PROVE  Entries(q) \subseteq Cols
BY DEF Entries

LEMMA WorkerFacts ==
  /\ MaxThreads \in Nat \ {0} /\ Workers \subseteq Nat /\ 0 \in Workers
  /\ Band \in Nat
<1>1. MaxThreads \in Nat \ {0}
  <2>1. MaxThreads \in ThreadNumbers
    BY SizeAssumption DEF MaxThreads
  <2>2. QED
    BY <2>1, SizeAssumption
<1>2. Band \in Nat
  <2>1. UpperOf(Mx, My) \in Nat /\ UpperOf(MaxPen, 1) \in Nat /\ CoupleSafety \in Nat
    BY SizeAssumption DEF UpperOf
  <2>2. QED
    BY <2>1 DEF Band
<1>3. QED
  BY <1>1, <1>2 DEF Workers

LEMMA ShareType ==
  ASSUME NEW n \in ThreadNumbers, nthreads = n, frontier \in Seq(Cols)
  PROVE  Share \in Nat
<1>1. n \in Nat \ {0} /\ MinCols \in Nat \ {0} /\ Len(frontier) \in Nat
  BY SizeAssumption
<1> DEFINE u == UpperOf(Len(frontier) \div MinCols, 1)
           e == LowerOf(nthreads, u)
<1>2. Len(frontier) \div MinCols \in Nat
  BY <1>1, DivMod
<1>3. e \in Nat \ {0}
  BY <1>1, <1>2 DEF UpperOf, LowerOf
<1> HIDE DEF e
<1>4. Len(frontier) + e - 1 \in Nat
  BY <1>1, <1>3
<1>5. CeilDiv(Len(frontier), e) \in Nat
  BY <1>3, <1>4, DivMod DEF CeilDiv
<1>6. Share = UpperOf(CeilDiv(Len(frontier), e), 1)
  BY DEF Share, e
<1>7. QED
  BY <1>5, <1>6 DEF UpperOf

\* Building blocks frees none and unbuilds none.
LEMMA EnsureFacts ==
  ASSUME NEW st \in [Blocks -> {"none", "built", "freed"}], NEW S
  PROVE  /\ Ensure(st, S) \in [Blocks -> {"none", "built", "freed"}]
         /\ \A b \in Blocks : Ensure(st, S)[b] = "freed" <=> st[b] = "freed"
         /\ \A b \in Blocks : st[b] # "none" => Ensure(st, S)[b] # "none"
         /\ \A c \in S : \A b \in Blocks : b \in Window(c) => Ensure(st, S)[b] # "none"
BY DEF Ensure

\* A column that holds a reached value has updated states or is a goal's.
LEMMA ReachedCols ==
  ASSUME StepsLeft, value \in [States -> Values], NEW c \in Cols,
         MinOf(value, c) # MaxCost
  PROVE  Updated(c) \/ c \in SeedCols
BY RangeFacts, FixedFacts DEF StepsLeft

LEMMA GoalRange ==
  ASSUME StepsLeft, value \in [States -> Values], NEW c \in SeedCols, ~Updated(c)
  PROVE  MaxOf(value, c) = 0
<1>1. c \in Cols
  BY StateFacts
<1>2. Reached(value, c) = {0}
  BY <1>1, FixedFacts DEF StepsLeft
<1>3. QED
  BY <1>1, <1>2, RangeFacts

\* What every step but Finalize and Advance does to the counters and the freed
\* blocks: nothing, for it leaves the values of final columns alone.
LEMMA SettledKept ==
  ASSUME CountersExact, FreedSettled,
         \A s \in EvalStates : final[s[1]] => value'[s] = value[s],
         final' = final, nfinal' = nfinal,
         \A b \in Blocks : store'[b] = "freed" <=> store[b] = "freed"
  PROVE  CountersExact' /\ FreedSettled' /\ (NoneFreed' <=> NoneFreed)
<1>1. ASSUME NEW b \in Blocks PROVE Counted(b)' = Counted(b)
  BY DEF Counted
<1>2. CountersExact'
  BY <1>1 DEF CountersExact
<1>3. FreedSettled'
  BY DEF FreedSettled
<1>4. NoneFreed' <=> NoneFreed
  BY DEF NoneFreed
<1>5. QED
  BY <1>2, <1>3, <1>4
-----------------------------------------------------------------------------
(* The inductive invariant.                                                 *)

LEMMA InitInv ==
  ASSUME Init
  PROVE  IInv
<1>1. /\ \A b \in Blocks : Counted(b) = {}
      /\ Cardinality({}) = 0 /\ \A b \in Blocks : 0 \in 0 .. NEval(b)
  BY FS_EmptySet, CountOf, StateFacts DEF Init, Counted, States
<1>2. DilateCols(SeedCols) \subseteq Cols
  BY DEF DilateCols
<1>3. frontier \in Seq(Cols)
  BY <1>2, ScanFacts DEF Init
<1>4. TypeOK
  <2>1. MaxIter \in Nat \ {0}
    BY SizeAssumption
  <2>2. NT \in Nat
    BY StateFacts
  <2>3. mask \in [Cols -> SUBSET Thetas] /\ cmask \in [Cols -> SUBSET Thetas]
    BY DEF Init, NoMask
  <2>4. value \in [States -> Values] /\ held \in [States -> SUBSET Values]
    BY StateFacts DEF Init
  <2>5. colMin \in [Cols -> Values] /\ colMax \in [Cols -> Values] /\ live \subseteq Cols
    BY StateFacts DEF Init
  <2>6. t \in Nat /\ iters \in 0 .. MaxIter
    BY <2>1, WorkerFacts DEF Init
  <2>7. at \in [Workers -> Nat \ {0}] /\ theta \in [Workers -> 0 .. NT]
    BY <2>2 DEF Init
  <2>8. \A b \in Blocks : nfinal[b] \in 0 .. NEval(b)
    BY <1>1 DEF Init
  <2>9. /\ nthreads \in ThreadNumbers /\ store \in [Blocks -> {"none", "built", "freed"}]
        /\ next \subseteq Cols /\ final \in [Cols -> BOOLEAN]
        /\ prev \subseteq Cols /\ first \in BOOLEAN /\ any \in BOOLEAN
        /\ pc \in {"round", "relax", "serial", "wave", "evict", "end"}
        /\ DOMAIN sink = States /\ outcome \in {"running", "converged", "cut"}
    BY DEF Init
  <2>10. QED
    BY <1>3, <2>3, <2>4, <2>5, <2>6, <2>7, <2>8, <2>9 DEF TypeOK
<1>5. NoneFreed
  BY DEF Init, NoneFreed
<1>6. CountersExact /\ FreedSettled
  BY <1>1, <1>5 DEF Init, CountersExact, FreedSettled, NoneFreed
<1>7. LiveSound /\ GoalsFirst
  BY <1>5, StateFacts DEF Init, LiveSound, GoalsFirst
<1>8. QueueNear /\ NextOpen
  BY <1>5 DEF Init, QueueNear, NextOpen
<1>9. WindowsBuilt
  BY DEF Init, WindowsBuilt, Reading, Scanning
<1>10. StepsLeft
  BY WorkerFacts, SizeAssumption DEF Init, StepsLeft
<1>11. QED
  BY <1>4, <1>6, <1>7, <1>8, <1>9, <1>10 DEF IInv

LEMMA StartRoundInv ==
  ASSUME IInv, StartRound
  PROVE  IInv'
<1> USE DEF data, cols, wave, out
<1>1. /\ store \in [Blocks -> {"none", "built", "freed"}]
      /\ frontier \in Seq(Cols) /\ nthreads \in ThreadNumbers
  BY DEF IInv, TypeOK
<1>2. /\ store' \in [Blocks -> {"none", "built", "freed"}]
      /\ \A b \in Blocks : store'[b] = "freed" <=> store[b] = "freed"
      /\ \A c \in Entries(frontier) : \A b \in Blocks :
           b \in Window(c) => store'[b] # "none"
  <2>1. store' = Ensure(store, Entries(frontier))
    BY DEF StartRound
  <2>2. QED
    BY <1>1, <2>1, EnsureFacts
<1>3. CountersExact' /\ FreedSettled' /\ (NoneFreed' <=> NoneFreed)
  BY <1>2, SettledKept DEF IInv, StartRound
<1>4. TypeOK'
  <2>1. \A w \in Workers : w * Share + 1 \in Nat \ {0}
    BY <1>1, ShareType, WorkerFacts
  <2>2. at' \in [Workers -> Nat \ {0}] /\ theta' \in [Workers -> 0 .. NT]
    BY <2>1, StateFacts DEF StartRound
  <2>3. cmask' \in [Cols -> SUBSET Thetas]
    BY DEF StartRound, NoMask
  <2>4. QED
    BY <1>2, <2>2, <2>3 DEF IInv, TypeOK, StartRound
<1>5. Queue' = Queue /\ Reading' = Queue /\ Queue = Entries(frontier)
  BY DEF StartRound, Queue, Reading, Entries
<1>6. LiveSound' /\ GoalsFirst'
  BY <1>3 DEF IInv, LiveSound, GoalsFirst, StartRound
<1>7. QueueNear' /\ NextOpen'
  BY <1>3, <1>5 DEF IInv, QueueNear, NextOpen, StartRound
<1>8. WindowsBuilt'
  <2>1. ASSUME NEW c \in Queue PROVE \A b \in Window(c) : store'[b] # "none"
    BY <1>1, <1>2, <1>5, <2>1, EntriesIn, WindowBlocks
  <2>2. QED
    BY <1>5, <2>1 DEF WindowsBuilt
<1>9. StepsLeft'
  BY DEF IInv, StepsLeft, StartRound
<1>10. QED
  BY <1>3, <1>4, <1>6, <1>7, <1>8, <1>9 DEF IInv

\* A busy worker has a column, not settled if it evaluates one of its states.
LEMMA EvalType ==
  ASSUME TypeOK, NEW w \in Workers, at[w] \in 1 .. Len(frontier)
  PROVE  ColOf(w) \in Cols /\ ColOf(w) \in Entries(frontier)
BY DEF TypeOK, ColOf, Entries

LEMMA BusyAt ==
  ASSUME TypeOK, NEW w \in Workers, at[w] <= LastOf(w)
  PROVE  at[w] \in 1 .. Len(frontier)
<1>1. /\ at[w] \in Nat \ {0} /\ Len(frontier) \in Nat /\ Share \in Nat /\ w \in Nat
  BY ShareType, WorkerFacts DEF TypeOK
<1>2. LastOf(w) <= Len(frontier) /\ LastOf(w) \in Nat
  BY <1>1 DEF LastOf, LowerOf
<1>3. QED
  BY <1>1, <1>2

LEMMA RelaxLayerInv ==
  ASSUME IInv, NEW w \in Workers, RelaxLayer(w)
  PROVE  IInv'
<1> USE DEF cols, wave, out
<1> DEFINE c == ColOf(w)
           s == <<c, theta[w]>>
<1>1. TypeOK
  BY DEF IInv
<1>2. /\ pc = "relax" /\ pc' = "relax" /\ c \in Cols /\ theta[w] \in Thetas
      /\ s \in States
  <2>1. at[w] <= LastOf(w) /\ pc = "relax" /\ theta[w] < NT /\ pc' = pc
    BY DEF RelaxLayer, Busy
  <2>2. c \in Cols
    BY <1>1, <2>1, BusyAt, EvalType
  <2>3. theta[w] \in Thetas
    BY <1>1, <2>1, StateFacts DEF TypeOK, Thetas
  <2>4. QED
    BY <2>1, <2>2, <2>3 DEF States
<1>3. \/ UNCHANGED <<value, held, cmask>>
      \/ /\ s \in EvalStates /\ ~final[c]
         /\ \E x \in Values :
              /\ value' = [value EXCEPT ![s] = x] /\ x < value[s]
              /\ held' = [held EXCEPT ![s] = @ \union {x}]
              /\ cmask' = [cmask EXCEPT ![c] = @ \union {theta[w]}]
  <2>1. CASE ~ToEval(w)
    BY <2>1 DEF RelaxLayer, data
  <2>2. CASE ToEval(w)
    <3>1. s \in EvalStates /\ ~final[c]
      BY <2>2 DEF ToEval
    <3>2. PICK f \in Loads(s) :
            IF Improves(s, f)
            THEN /\ value' = [value EXCEPT ![s] = Backup(s, f)]
                 /\ held' = [held EXCEPT ![s] = @ \union {Backup(s, f)}]
                 /\ cmask' = [cmask EXCEPT ![ColOf(w)] = @ \union {theta[w]}]
            ELSE UNCHANGED <<data, cmask>>
      BY <2>2 DEF RelaxLayer
    <3>3. f \in [Slots(s) -> Values]
      <4>1. \A k \in Slots(s) : f[k] \in held[Nbr(s, k)] /\ Nbr(s, k) \in States
        BY <3>1, MapAssumption DEF Loads
      <4>2. \A k \in Slots(s) : f[k] \in Values
        BY <1>1, <4>1 DEF TypeOK
      <4>3. f = [k \in Slots(s) |-> f[k]]
        BY DEF Loads
      <4>4. QED
        BY <4>2, <4>3
    <3>4. Backup(s, f) \in Values
      BY <3>1, <3>3, BackupAssumption
    <3>5. QED
      BY <3>1, <3>2, <3>4 DEF Improves, data
  <2>3. QED
    BY <2>1, <2>2
<1>4. /\ value' \in [States -> Values] /\ held' \in [States -> SUBSET Values]
      /\ cmask' \in [Cols -> SUBSET Thetas]
  <2>1. /\ value \in [States -> Values] /\ held \in [States -> SUBSET Values]
        /\ cmask \in [Cols -> SUBSET Thetas]
    BY <1>1 DEF TypeOK
  <2>2. CASE UNCHANGED <<value, held, cmask>>
    BY <2>1, <2>2
  <2>3. ASSUME NEW x \in Values,
               value' = [value EXCEPT ![s] = x],
               held' = [held EXCEPT ![s] = @ \union {x}],
               cmask' = [cmask EXCEPT ![c] = @ \union {theta[w]}]
        PROVE  /\ value' \in [States -> Values] /\ held' \in [States -> SUBSET Values]
               /\ cmask' \in [Cols -> SUBSET Thetas]
    BY <1>2, <2>1, <2>3
  <2>4. QED
    BY <1>3, <2>2, <2>3
<1>5. TypeOK'
  <2>1. theta' \in [Workers -> 0 .. NT]
    BY <1>1, <1>2, StateFacts DEF TypeOK, RelaxLayer, Thetas
  <2>2. QED
    BY <1>1, <1>4, <2>1 DEF TypeOK, RelaxLayer
<1>6. /\ \A q \in EvalStates : final[q[1]] => value'[q] = value[q]
      /\ \A q \in States \ EvalStates : value'[q] = value[q]
  <2>1. value \in [States -> Values] /\ EvalStates \subseteq States /\ s[1] = c
    BY <1>1, StateFacts DEF TypeOK
  <2>2. QED
    BY <1>3, <2>1
<1>7. CountersExact' /\ FreedSettled' /\ (NoneFreed' <=> NoneFreed)
  BY <1>6, SettledKept DEF IInv, RelaxLayer
<1>8. Queue' = Queue /\ Reading' = Reading
  BY <1>2 DEF RelaxLayer, Queue, Reading, Entries
<1>9. LiveSound' /\ GoalsFirst'
  BY <1>2, <1>7 DEF IInv, LiveSound, GoalsFirst, RelaxLayer
<1>10. QueueNear' /\ NextOpen'
  BY <1>2, <1>7, <1>8 DEF IInv, QueueNear, NextOpen, RelaxLayer
<1>11. WindowsBuilt'
  BY <1>8 DEF IInv, WindowsBuilt, RelaxLayer
<1>12. StepsLeft'
  BY <1>2, <1>6 DEF IInv, StepsLeft, RelaxLayer
<1>13. QED
  BY <1>5, <1>7, <1>9, <1>10, <1>11, <1>12 DEF IInv

LEMMA NextColumnInv ==
  ASSUME IInv, NEW w \in Workers, NextColumn(w)
  PROVE  IInv'
<1> USE DEF data, cols, wave, out
<1>1. TypeOK'
  BY StateFacts DEF IInv, TypeOK, NextColumn
<1>2. CountersExact' /\ FreedSettled' /\ (NoneFreed' <=> NoneFreed)
  BY SettledKept DEF IInv, NextColumn
<1>3. pc = "relax" /\ pc' = "relax" /\ Queue' = Queue /\ Reading' = Reading
  BY DEF NextColumn, Busy, Queue, Reading, Entries
<1>4. LiveSound' /\ GoalsFirst'
  BY <1>2, <1>3 DEF IInv, LiveSound, GoalsFirst, NextColumn
<1>5. QueueNear' /\ NextOpen'
  BY <1>2, <1>3 DEF IInv, QueueNear, NextOpen, NextColumn
<1>6. WindowsBuilt'
  BY <1>3 DEF IInv, WindowsBuilt, NextColumn
<1>7. StepsLeft'
  BY <1>3 DEF IInv, StepsLeft, NextColumn
<1>8. QED
  BY <1>1, <1>2, <1>4, <1>5, <1>6, <1>7 DEF IInv

\* The columns around those a wave passes on, as its next frontier: each is
\* near a column with updated states, unless nothing has been freed yet.
LEMMA FrontierNear ==
  ASSUME NEW S, S \subseteq Cols, \A d \in S : ~final[d] /\ (Updated(d) \/ NoneFreed),
         NEW c \in Entries(Unfinished(S, final))
  PROVE  Updated(c) \/ NoneFreed \/ \E d \in Cols : ~final[d] /\ Updated(d) /\ <<d, c>> \in Near
BY UnfinishedFacts

\* A reached column that is not final has updated states, or nothing is freed.
LEMMA OpenReached ==
  ASSUME IInv, NEW c \in Cols, ~final[c], MinOf(value, c) # MaxCost
  PROVE  Updated(c) \/ NoneFreed
BY ReachedCols DEF IInv, TypeOK, GoalsFirst

LEMMA ApplyInv ==
  ASSUME IInv, Apply
  PROVE  IInv'
<1> USE DEF scan
<1> DEFINE seen == {c \in Entries(frontier) : ~final[c] /\ Gather(c) # {}}
           moved == {c \in seen : InBand(c)}
           ends == iters + 1 >= MaxIter \/ moved = {}
<1>1. TypeOK /\ StepsLeft
  BY DEF IInv
<1>2. /\ colMin' = [c \in Cols |-> IF c \in seen THEN MinOf(value, c) ELSE colMin[c]]
      /\ colMax' = [c \in Cols |-> IF c \in seen THEN MaxOf(value, c) ELSE colMax[c]]
      /\ live' = live \union {c \in seen : MinOf(value, c) # MaxCost}
      /\ mask' = IF ends THEN [c \in Cols |-> IF c \in moved THEN {} ELSE MaskAfter(moved)[c]]
                 ELSE MaskAfter(moved)
      /\ prev' = IF ends THEN {} ELSE moved
      /\ frontier' = IF ends THEN frontier ELSE Unfinished(moved, final)
      /\ pc' = IF iters + 1 >= MaxIter THEN "end" ELSE IF ends THEN "wave" ELSE "round"
      /\ outcome' = IF iters + 1 >= MaxIter THEN "cut" ELSE outcome
  BY DEF Apply
<1>3. /\ iters' = iters + 1 /\ first' = FALSE /\ held' = [q \in States |-> {value[q]}]
      /\ pc = "relax"
      /\ UNCHANGED <<nthreads, value, store, final, t, sink, nfinal, scan>>
  BY DEF Apply
<1>4. /\ seen \subseteq Cols /\ \A c \in seen : ~final[c]
      /\ moved \subseteq Cols /\ \A d \in moved : ~final[d] /\ MinOf(value, d) # MaxCost
  BY <1>1, EntriesIn DEF TypeOK, InBand
<1> HIDE DEF seen, moved, ends
<1>5. CountersExact' /\ FreedSettled' /\ (NoneFreed' <=> NoneFreed)
  BY <1>3, SettledKept DEF IInv
<1>6. TypeOK'
  <2>1. value \in [States -> Values]
    BY <1>1 DEF TypeOK
  <2>2. \A c \in Cols : MinOf(value, c) \in Values /\ MaxOf(value, c) \in Values
    BY <2>1, RangeFacts
  <2>3. colMin' \in [Cols -> Values] /\ colMax' \in [Cols -> Values]
    BY <1>1, <1>2, <2>2 DEF TypeOK
  <2>4. MaskAfter(moved) \in [Cols -> SUBSET Thetas]
    BY <1>1 DEF TypeOK, MaskAfter
  <2>5. mask' \in [Cols -> SUBSET Thetas] /\ prev' \subseteq Cols
    BY <1>2, <1>4, <2>4
  <2>6. live' \subseteq Cols
    BY <1>1, <1>2, <1>4 DEF TypeOK
  <2>7. iters' \in 0 .. MaxIter
    BY <1>1, <1>3, SizeAssumption DEF StepsLeft, TypeOK
  <2>8. frontier' \in Seq(Cols)
    BY <1>1, <1>2, UnfinishedFacts DEF TypeOK
  <2>9. held' \in [States -> SUBSET Values]
    BY <1>3, <2>1
  <2>10. /\ pc' \in {"round", "relax", "serial", "wave", "evict", "end"}
         /\ outcome' \in {"running", "converged", "cut"}
    BY <1>1, <1>2 DEF TypeOK
  <2>11. QED
    BY <1>1, <1>3, <2>3, <2>5, <2>6, <2>7, <2>8, <2>9, <2>10 DEF TypeOK
<1>7. /\ pc' \in {"end", "wave", "round"} /\ Reading' = {}
      /\ pc' = "round" => ~ends /\ iters' < MaxIter
  <2>1. pc' \in {"end", "wave", "round"} /\ (pc' = "round" => ~ends)
    BY <1>2
  <2>2. Reading' = {}
    BY <2>1 DEF Reading, Scanning
  <2>3. pc' # "end" => iters' < MaxIter
    BY <1>1, <1>2, <1>3, SizeAssumption DEF TypeOK
  <2>4. QED
    BY <2>1, <2>2, <2>3
<1>8. LiveSound'
  <2>1. ASSUME NEW c \in live PROVE ~final[c] /\ (Updated(c) \/ c \in SeedCols)
    <3>1. LiveSound /\ pc # "evict"
      BY <1>3 DEF IInv
    <3>2. QED
      BY <3>1, Zenon DEF LiveSound
  <2>2. ASSUME NEW c \in seen, MinOf(value, c) # MaxCost
        PROVE  ~final[c] /\ (Updated(c) \/ c \in SeedCols)
    <3>1. c \in Cols /\ ~final[c] /\ value \in [States -> Values]
      BY <1>1, <1>4 DEF TypeOK
    <3>2. QED
      BY <1>1, <2>2, <3>1, ReachedCols
  <2>3. QED
    BY <1>2, <1>3, <2>1, <2>2 DEF LiveSound
<1>9. GoalsFirst'
  <2>1. SUFFICES ASSUME NEW c \in SeedCols, ~Updated(c), ~final[c]
                 PROVE  c \in live' /\ colMax'[c] = 0 /\ NoneFreed /\ pc' # "evict"
    BY <1>3, <1>5 DEF GoalsFirst
  <2>2. c \in live /\ colMax[c] = 0 /\ NoneFreed
    BY <2>1 DEF IInv, GoalsFirst
  <2>3. MaxOf(value, c) = 0 /\ c \in Cols
    BY <1>1, <2>1, GoalRange, StateFacts DEF TypeOK
  <2>4. QED
    BY <1>2, <1>7, <2>2, <2>3
<1>10. QueueNear'
  <2>1. SUFFICES ASSUME NEW c \in Queue'
                 PROVE  Updated(c) \/ NoneFreed \/ \E d \in Cols : ~final[d] /\ Updated(d) /\ <<d, c>> \in Near
    BY <1>3, <1>5 DEF QueueNear
  <2>2. c \in Entries(Unfinished(moved, final))
    <3>1. pc' = "round"
      BY <1>7, <2>1 DEF Queue
    <3>2. Queue' = Entries(frontier')
      BY <3>1 DEF Queue, Entries
    <3>3. QED
      BY <1>2, <1>7, <2>1, <3>1, <3>2
  <2>3. \A d \in moved : ~final[d] /\ (Updated(d) \/ NoneFreed)
    BY <1>4, OpenReached
  <2>4. QED
    BY <1>4, <2>2, <2>3, FrontierNear
<1>11. NextOpen' /\ WindowsBuilt'
  BY <1>7 DEF NextOpen, WindowsBuilt
<1>12. StepsLeft'
  BY <1>1, <1>2, <1>3, SizeAssumption DEF StepsLeft, TypeOK
<1>13. QED
  BY <1>5, <1>6, <1>8, <1>9, <1>10, <1>11, <1>12 DEF IInv

LEMMA StartSerialInv ==
  ASSUME IInv, StartSerial
  PROVE  IInv'
<1> USE DEF data, cols, wave, out
<1>1. TypeOK'
  <2>1. at' \in [Workers -> Nat \ {0}] /\ theta' \in [Workers -> 0 .. NT]
    BY StateFacts DEF StartSerial
  <2>2. QED
    BY <2>1 DEF IInv, TypeOK, StartSerial
<1>2. CountersExact' /\ FreedSettled' /\ (NoneFreed' <=> NoneFreed)
  BY SettledKept DEF IInv, StartSerial
<1>3. pc = "round" /\ pc' = "serial" /\ Queue' = Queue /\ Reading' = {} /\ next' = {}
  BY WorkerFacts DEF StartSerial, Queue, Reading, Entries
<1>4. LiveSound' /\ GoalsFirst'
  BY <1>2, <1>3 DEF IInv, LiveSound, GoalsFirst, StartSerial
<1>5. QueueNear' /\ NextOpen' /\ WindowsBuilt'
  BY <1>2, <1>3 DEF IInv, QueueNear, NextOpen, WindowsBuilt, StartSerial
<1>6. StepsLeft'
  BY <1>3 DEF IInv, StepsLeft, StartSerial
<1>7. QED
  BY <1>1, <1>2, <1>4, <1>5, <1>6 DEF IInv

\* The serial wave relaxes a column of the frontier.
LEMMA ScanningType ==
  ASSUME TypeOK, Scanning
  PROVE  ColOf(0) \in Cols /\ ColOf(0) \in Entries(frontier)
<1>1. 0 \in Workers /\ at[0] \in Nat \ {0} /\ at[0] <= Len(frontier)
  BY WorkerFacts DEF TypeOK, Scanning
<1>2. at[0] \in 1 .. Len(frontier)
  BY <1>1 DEF TypeOK
<1>3. QED
  BY <1>1, <1>2, EvalType

LEMMA SerialLayerInv ==
  ASSUME IInv, SerialLayer
  PROVE  IInv'
<1> USE DEF cols, wave, out
<1> DEFINE c == ColOf(0)
           s == <<c, theta[0]>>
<1>1. TypeOK
  BY DEF IInv
<1>2. /\ pc = "serial" /\ pc' = "serial" /\ c \in Cols /\ theta[0] \in Thetas
      /\ s \in States /\ 0 \in Workers
  <2>1. Scanning /\ theta[0] < NT /\ pc' = pc /\ pc = "serial"
    BY DEF SerialLayer, Scanning
  <2>2. c \in Cols /\ 0 \in Workers
    BY <1>1, <2>1, ScanningType, WorkerFacts
  <2>3. theta[0] \in Thetas
    BY <1>1, <2>1, <2>2, StateFacts DEF TypeOK, Thetas
  <2>4. QED
    BY <2>1, <2>2, <2>3 DEF States
<1>3. \/ UNCHANGED <<value, held>> /\ any' = any
      \/ /\ s \in EvalStates /\ ~final[c] /\ any' = TRUE
         /\ \E x \in Values : /\ value' = [value EXCEPT ![s] = x]
                              /\ held' = [held EXCEPT ![s] = {x}]
  <2> DEFINE f == View(s, value)
  <2>1. IF ~final[c] /\ s \in EvalStates /\ Improves(s, f)
        THEN /\ value' = [value EXCEPT ![s] = Backup(s, f)]
             /\ held' = [held EXCEPT ![s] = {Backup(s, f)}]
             /\ any' = TRUE
        ELSE UNCHANGED <<data, any>>
    BY DEF SerialLayer
  <2>2. ASSUME s \in EvalStates PROVE Backup(s, f) \in Values
    <3>1. \A k \in Slots(s) : Nbr(s, k) \in States
      BY <2>2, MapAssumption
    <3>2. f \in [Slots(s) -> Values]
      BY <1>1, <3>1 DEF TypeOK, View
    <3>3. QED
      BY <2>2, <3>2, BackupAssumption
  <2> HIDE DEF f
  <2>3. QED
    BY <2>1, <2>2 DEF data
<1>4. /\ value' \in [States -> Values] /\ held' \in [States -> SUBSET Values]
      /\ any' \in BOOLEAN
  <2>1. /\ value \in [States -> Values] /\ held \in [States -> SUBSET Values]
        /\ any \in BOOLEAN
    BY <1>1 DEF TypeOK
  <2>2. CASE UNCHANGED <<value, held>> /\ any' = any
    BY <2>1, <2>2
  <2>3. ASSUME NEW x \in Values, any' = TRUE,
               value' = [value EXCEPT ![s] = x], held' = [held EXCEPT ![s] = {x}]
        PROVE  /\ value' \in [States -> Values] /\ held' \in [States -> SUBSET Values]
               /\ any' \in BOOLEAN
    BY <1>2, <2>1, <2>3
  <2>4. QED
    BY <1>3, <2>2, <2>3
<1>5. /\ store' \in [Blocks -> {"none", "built", "freed"}]
      /\ \A b \in Blocks : store'[b] = "freed" <=> store[b] = "freed"
      /\ ~final[c] => \A b \in Blocks : b \in Window(c) => store'[b] # "none"
  <2>1. store' = IF final[c] THEN store ELSE Ensure(store, {c})
    BY DEF SerialLayer
  <2>2. store \in [Blocks -> {"none", "built", "freed"}]
    BY <1>1 DEF TypeOK
  <2>3. QED
    BY <2>1, <2>2, EnsureFacts
<1>6. TypeOK'
  <2>1. theta' \in [Workers -> 0 .. NT]
    BY <1>1, <1>2, StateFacts DEF TypeOK, SerialLayer, Thetas
  <2>2. QED
    BY <1>1, <1>4, <1>5, <2>1 DEF TypeOK, SerialLayer
<1>7. /\ \A q \in EvalStates : final[q[1]] => value'[q] = value[q]
      /\ \A q \in States \ EvalStates : value'[q] = value[q]
  <2>1. value \in [States -> Values] /\ EvalStates \subseteq States /\ s[1] = c
    BY <1>1, StateFacts DEF TypeOK
  <2>2. QED
    BY <1>3, <2>1
<1>8. CountersExact' /\ FreedSettled' /\ (NoneFreed' <=> NoneFreed)
  BY <1>5, <1>7, SettledKept DEF IInv, SerialLayer
<1>9. Queue' = Queue /\ Reading' \subseteq {c}
  BY <1>2 DEF SerialLayer, Queue, Reading, Entries, ColOf
<1>10. LiveSound' /\ GoalsFirst'
  BY <1>2, <1>8 DEF IInv, LiveSound, GoalsFirst, SerialLayer
<1>11. QueueNear' /\ NextOpen'
  BY <1>2, <1>8, <1>9 DEF IInv, QueueNear, NextOpen, SerialLayer
<1>12. WindowsBuilt'
  <2>1. Window(c) \subseteq Blocks /\ final' = final
    BY <1>2, WindowBlocks DEF SerialLayer
  <2>2. QED
    BY <1>5, <1>9, <2>1 DEF WindowsBuilt
<1>13. StepsLeft'
  BY <1>2, <1>7 DEF IInv, StepsLeft, SerialLayer
<1>14. QED
  BY <1>6, <1>8, <1>10, <1>11, <1>12, <1>13 DEF IInv

LEMMA SerialColumnInv ==
  ASSUME IInv, SerialColumn
  PROVE  IInv'
<1> USE DEF data, wave, out
<1> DEFINE c == ColOf(0)
<1>1. TypeOK /\ StepsLeft
  BY DEF IInv
<1>2. /\ pc = "serial" /\ pc' = "serial" /\ c \in Cols /\ 0 \in Workers
      /\ at' = [at EXCEPT ![0] = @ + 1] /\ theta' = [theta EXCEPT ![0] = 0]
      /\ UNCHANGED <<nthreads, data, store, final, wave, out, cmask, any, pc>>
  BY <1>1, ScanningType, WorkerFacts DEF SerialColumn, Scanning
<1>3. \/ final[c] /\ UNCHANGED <<colMin, colMax, live, next>>
      \/ /\ ~final[c]
         /\ colMin' = [colMin EXCEPT ![c] = MinOf(value, c)]
         /\ colMax' = [colMax EXCEPT ![c] = MaxOf(value, c)]
         /\ live' = IF MinOf(value, c) # MaxCost THEN live \union {c} ELSE live
         /\ next' = IF PassOn(c) THEN next \union {c} ELSE next
  BY DEF SerialColumn
<1>4. /\ live \subseteq live'
      /\ \A d \in live' : d \in live \/ (d = c /\ ~final[c] /\ MinOf(value, c) # MaxCost)
      /\ \A d \in next' : d \in next \/ (d = c /\ ~final[c] /\ MinOf(value, c) # MaxCost)
  BY <1>3 DEF PassOn
<1>5. value \in [States -> Values] /\ MinOf(value, c) \in Values /\ MaxOf(value, c) \in Values
  BY <1>1, <1>2, RangeFacts DEF TypeOK
<1>6. CountersExact' /\ FreedSettled' /\ (NoneFreed' <=> NoneFreed)
  BY <1>2, SettledKept DEF IInv
<1> HIDE DEF c
<1>7. TypeOK'
  <2>1. colMin' \in [Cols -> Values] /\ colMax' \in [Cols -> Values]
    BY <1>1, <1>2, <1>3, <1>5 DEF TypeOK
  <2>2. live' \subseteq Cols /\ next' \subseteq Cols
    BY <1>1, <1>2, <1>4 DEF TypeOK
  <2>3. at' \in [Workers -> Nat \ {0}] /\ theta' \in [Workers -> 0 .. NT]
    BY <1>1, <1>2, StateFacts DEF TypeOK
  <2>4. QED
    BY <1>1, <1>2, <2>1, <2>2, <2>3 DEF TypeOK
<1>8. Queue' = Queue /\ Reading' = {}
  <2>1. theta'[0] = 0
    BY <1>1, <1>2 DEF TypeOK
  <2>2. Reading' = {}
    BY <1>2, <2>1 DEF Reading
  <2>3. QED
    BY <1>2, <2>2 DEF Queue, Entries
<1>9. LiveSound'
  <2>1. LiveSound /\ pc # "evict"
    BY <1>2 DEF IInv
  <2>2. ASSUME NEW d \in live' PROVE ~final[d] /\ (Updated(d) \/ d \in SeedCols)
    <3>1. d \in live => ~final[d] /\ (Updated(d) \/ d \in SeedCols)
      BY <2>1, Zenon DEF LiveSound
    <3>2. QED
      BY <1>1, <1>2, <1>4, <1>5, <3>1, ReachedCols
  <2>3. QED
    BY <1>2, <2>2 DEF LiveSound
<1>10. GoalsFirst'
  <2>1. SUFFICES ASSUME NEW d \in SeedCols, ~Updated(d), ~final[d]
                 PROVE  d \in live' /\ colMax'[d] = 0 /\ NoneFreed /\ pc' # "evict"
    BY <1>2, <1>6 DEF GoalsFirst
  <2>2. d \in live /\ colMax[d] = 0 /\ NoneFreed
    BY <2>1 DEF IInv, GoalsFirst
  <2>3. MaxOf(value, d) = 0 /\ d \in Cols /\ colMax \in [Cols -> Values]
    BY <1>1, <2>1, GoalRange, StateFacts DEF TypeOK
  <2>4. colMax'[d] = 0
    BY <1>3, <2>2, <2>3
  <2>5. QED
    BY <1>2, <1>4, <2>2, <2>4
<1>11. QueueNear'
  BY <1>2, <1>6, <1>8 DEF IInv, QueueNear
<1>12. NextOpen'
  <2>1. \A d \in next : ~final[d] /\ (Updated(d) \/ NoneFreed)
    BY <1>2 DEF IInv, NextOpen
  <2>2. ASSUME NEW d \in next' PROVE ~final[d] /\ (Updated(d) \/ NoneFreed)
    BY <1>2, <1>4, <2>1, OpenReached
  <2>3. QED
    BY <1>2, <1>6, <2>2 DEF NextOpen
<1>13. WindowsBuilt'
  BY <1>8 DEF WindowsBuilt
<1>14. StepsLeft'
  BY <1>1, <1>2 DEF StepsLeft
<1>15. QED
  BY <1>6, <1>7, <1>9, <1>10, <1>11, <1>12, <1>13, <1>14 DEF IInv

LEMMA EndSerialInv ==
  ASSUME IInv, EndSerial
  PROVE  IInv'
<1> USE DEF data, cols, scan
<1>1. TypeOK /\ StepsLeft
  BY DEF IInv
<1>2. /\ pc = "serial" /\ iters' = iters + 1
      /\ UNCHANGED <<nthreads, value, held, store, colMin, colMax, final, live, t, mask, prev,
                     first, sink, nfinal, at, theta, cmask, any, next>>
  BY DEF EndSerial
<1>3. \/ /\ iters + 1 >= MaxIter /\ pc' = "end" /\ outcome' = "cut" /\ frontier' = frontier
      \/ /\ iters + 1 < MaxIter
         /\ pc' = IF any THEN "round" ELSE "wave"
         /\ frontier' = IF any THEN Unfinished(next, final) ELSE frontier
         /\ outcome' = outcome
  BY DEF EndSerial
<1>4. CountersExact' /\ FreedSettled' /\ (NoneFreed' <=> NoneFreed)
  BY <1>2, SettledKept DEF IInv
<1>5. TypeOK'
  <2>1. frontier' \in Seq(Cols)
    BY <1>1, <1>3, UnfinishedFacts DEF TypeOK
  <2>2. iters' \in 0 .. MaxIter
    BY <1>1, <1>2, SizeAssumption DEF TypeOK, StepsLeft
  <2>3. /\ pc' \in {"round", "relax", "serial", "wave", "evict", "end"}
        /\ outcome' \in {"running", "converged", "cut"}
    BY <1>1, <1>3 DEF TypeOK
  <2>4. QED
    BY <1>1, <1>2, <2>1, <2>2, <2>3 DEF TypeOK
<1>6. pc' \in {"end", "wave", "round"} /\ Reading' = {}
  BY <1>3 DEF Reading, Scanning
<1>7. LiveSound'
  <2>1. LiveSound /\ pc # "evict"
    BY <1>2 DEF IInv
  <2>2. QED
    BY <1>2, <2>1 DEF LiveSound
<1>8. GoalsFirst'
  BY <1>2, <1>4, <1>6 DEF IInv, GoalsFirst
<1>9. QueueNear'
  <2>1. SUFFICES ASSUME NEW c \in Queue'
                 PROVE  Updated(c) \/ NoneFreed \/ \E d \in Cols : ~final[d] /\ Updated(d) /\ <<d, c>> \in Near
    BY <1>2, <1>4 DEF QueueNear
  <2>2. pc' = "round" /\ Queue' = Entries(frontier')
    BY <1>6, <2>1 DEF Queue, Entries
  <2>3. c \in Entries(Unfinished(next, final))
    BY <1>3, <2>1, <2>2
  <2>4. \A d \in next : ~final[d] /\ (Updated(d) \/ NoneFreed)
    BY <1>2 DEF IInv, NextOpen
  <2>5. next \subseteq Cols
    BY <1>1 DEF TypeOK
  <2>6. QED
    BY <2>3, <2>4, <2>5, FrontierNear
<1>10. NextOpen' /\ WindowsBuilt'
  BY <1>6 DEF NextOpen, WindowsBuilt
<1>11. StepsLeft'
  BY <1>1, <1>2, <1>3, SizeAssumption DEF StepsLeft, TypeOK
<1>12. QED
  BY <1>4, <1>5, <1>7, <1>8, <1>9, <1>10, <1>11 DEF IInv

LEMMA FinalizeInv ==
  ASSUME IInv, Finalize
  PROVE  IInv'
<1> USE DEF scan
<1>1. TypeOK /\ StepsLeft
  BY DEF IInv
<1>2. /\ pc = "wave" /\ pc' = "evict" /\ store' = Ensure(store, Settled)
      /\ sink' = [q \in States |-> IF q[1] \in Settled THEN Written(q) ELSE sink[q]]
      /\ nfinal' = [b \in Blocks |-> nfinal[b] + FinalCount(b)]
      /\ final' = [c \in Cols |-> final[c] \/ c \in Settled]
      /\ UNCHANGED <<nthreads, value, held, colMin, colMax, live, t, frontier, mask, prev,
                     first, iters, outcome, at, theta, cmask, any, next>>
  BY DEF Finalize, data, wave
<1>3. /\ store' \in [Blocks -> {"none", "built", "freed"}]
      /\ \A b \in Blocks : store'[b] = "freed" <=> store[b] = "freed"
  BY <1>1, <1>2, EnsureFacts DEF TypeOK
<1>4. live \subseteq Cols /\ Settled \subseteq live /\ \A c \in live : ~final[c]
  <2>1. LiveSound /\ pc # "evict" /\ live \subseteq Cols
    BY <1>1, <1>2 DEF IInv, TypeOK
  <2>2. QED
    BY <2>1 DEF LiveSound, Settled
<1>5. \A c \in Cols :
        /\ final'[c] <=> (final[c] \/ c \in Settled)
        /\ final[c] => c \notin Settled
  BY <1>2, <1>4
<1>6. CountersExact'
  <2>1. SUFFICES ASSUME NEW b \in Blocks
                 PROVE  nfinal'[b] = Cardinality(Counted(b)')
    BY DEF CountersExact
  <2> DEFINE old == Counted(b)
             new == {s \in EvalStates : /\ s[1] \in Settled /\ Block(s[1]) = b
                                        /\ value[s] # MaxCost}
  <2>2. Counted(b)' = old \union new /\ old \cap new = {}
    <3>1. \A s \in EvalStates :
            /\ final'[s[1]] <=> (final[s[1]] \/ s[1] \in Settled)
            /\ final[s[1]] => s[1] \notin Settled
      BY <1>5, StateFacts
    <3>2. Counted(b)' = {s \in EvalStates : final'[s[1]] /\ Block(s[1]) = b /\ value[s] # MaxCost}
      BY <1>2 DEF Counted
    <3>3. old = {s \in EvalStates : final[s[1]] /\ Block(s[1]) = b /\ value[s] # MaxCost}
      BY DEF Counted
    <3>4. ASSUME NEW s \in EvalStates
          PROVE  /\ s \in Counted(b)' <=> s \in old \/ s \in new
                 /\ ~(s \in old /\ s \in new)
      <4>1. /\ final'[s[1]] <=> (final[s[1]] \/ s[1] \in Settled)
            /\ final[s[1]] => s[1] \notin Settled
        BY <3>1, Zenon
      <4>2. s \in Counted(b)' <=> final'[s[1]] /\ Block(s[1]) = b /\ value[s] # MaxCost
        BY <3>2, Zenon
      <4>3. s \in old <=> final[s[1]] /\ Block(s[1]) = b /\ value[s] # MaxCost
        BY <3>3, Zenon
      <4>4. s \in new <=> s[1] \in Settled /\ Block(s[1]) = b /\ value[s] # MaxCost
        BY Zenon
      <4>5. QED
        BY <4>1, <4>2, <4>3, <4>4, Zenon
    <3>5. old \subseteq EvalStates /\ new \subseteq EvalStates /\ Counted(b)' \subseteq EvalStates
      BY <3>2, <3>3
    <3> HIDE DEF old, new
    <3>6. QED
      BY <3>4, <3>5
  <2>3. old \subseteq InBlock(b) /\ new \subseteq InBlock(b)
    BY DEF InBlock, Counted
  <2>4. nfinal[b] = Cardinality(old) /\ FinalCount(b) = Cardinality(new)
    BY DEF IInv, CountersExact, FinalCount
  <2> HIDE DEF old, new
  <2>5. /\ IsFiniteSet(old) /\ IsFiniteSet(new)
        /\ Cardinality(old) \in Nat /\ Cardinality(new) \in Nat
    BY <2>3, SubCount, FS_CardinalityType
  <2>6. Cardinality(old \union new) = Cardinality(old) + Cardinality(new) - Cardinality({})
    BY <2>2, <2>5, FS_Union
  <2>7. Cardinality({}) = 0
    BY FS_EmptySet
  <2>8. nfinal'[b] = nfinal[b] + FinalCount(b)
    BY <1>2
  <2>9. QED
    BY <2>2, <2>4, <2>5, <2>6, <2>7, <2>8
<1>7. FreedSettled'
  <2>1. SUFFICES ASSUME NEW b \in Blocks, store'[b] = "freed",
                        NEW s \in EvalStates, Block(s[1]) \in Around(b)
                 PROVE  final'[s[1]] /\ value'[s] # MaxCost
    BY DEF FreedSettled
  <2>2. final[s[1]] /\ value[s] # MaxCost /\ s[1] \in Cols
    BY <1>3, <2>1, StateFacts DEF IInv, FreedSettled
  <2>3. QED
    BY <1>2, <1>5, <2>2
<1>8. NoneFreed' <=> NoneFreed
  BY <1>3 DEF NoneFreed
<1>9. TypeOK'
  <2>1. ASSUME NEW b \in Blocks PROVE nfinal'[b] \in 0 .. NEval(b)
    <3>1. Counted(b)' \subseteq InBlock(b)
      BY DEF Counted, InBlock
    <3>2. QED
      BY <1>6, <3>1, SubCount DEF CountersExact
  <2>2. final' \in [Cols -> BOOLEAN] /\ DOMAIN sink' = States
    BY <1>1, <1>2 DEF TypeOK
  <2>3. QED
    BY <1>1, <1>2, <1>3, <2>1, <2>2 DEF TypeOK
<1>10. LiveSound'
  <2>1. \A c \in live : Updated(c) \/ c \in SeedCols
    BY DEF IInv, LiveSound
  <2>2. QED
    BY <1>2, <2>1 DEF LiveSound
<1>11. GoalsFirst'
  <2>1. SUFFICES ASSUME NEW c \in SeedCols, ~Updated(c)
                 PROVE  final'[c]
    BY DEF GoalsFirst
  <2>2. c \in Cols
    BY StateFacts
  <2>3. final[c] \/ (c \in live /\ colMax[c] = 0)
    BY <2>1 DEF IInv, GoalsFirst
  <2>4. c \in live /\ colMax[c] = 0 => c \in Settled
    <3>1. 0 <= Watermark
      BY <1>1, WorkerFacts DEF TypeOK, StepsLeft, Watermark
    <3>2. QED
      BY <3>1 DEF Settled
  <2>5. QED
    BY <1>5, <2>2, <2>3, <2>4
<1>12. Queue' = {} /\ Reading' = {}
  BY <1>2 DEF Queue, Reading, Scanning
<1>13. QueueNear' /\ NextOpen' /\ WindowsBuilt'
  BY <1>2, <1>12 DEF QueueNear, NextOpen, WindowsBuilt
<1>14. StepsLeft'
  BY <1>1, <1>2 DEF StepsLeft
<1>15. QED
  BY <1>6, <1>7, <1>9, <1>10, <1>11, <1>13, <1>14 DEF IInv

LEMMA AdvanceInv ==
  ASSUME IInv, Advance
  PROVE  IInv'
<1> USE DEF scan
<1>1. TypeOK /\ StepsLeft
  BY DEF IInv
<1>2. /\ pc = "evict" /\ live' = LiveAfter
      /\ store' = [b \in Blocks |-> IF b \in Freeable /\ store[b] = "built"
                                    THEN "freed" ELSE store[b]]
      /\ UNCHANGED <<nthreads, value, held, colMin, colMax, final, mask, prev, iters, sink,
                     nfinal, at, theta, cmask, any, next>>
  BY DEF Advance, data
<1>3. \/ /\ pc' = "end" /\ outcome' = "converged" /\ t' = t
         /\ frontier' = frontier /\ first' = first
      \/ /\ pc' = "round" /\ outcome' = outcome /\ t' = t + Band
         /\ frontier' = Unfinished(Reactive, final) /\ first' = TRUE
  BY DEF Advance
<1>4. LiveAfter \subseteq Cols /\ \A c \in LiveAfter : c \in live /\ ~final[c]
  BY <1>1 DEF TypeOK, LiveAfter, Touched
<1>5. TypeOK'
  <2>1. store' \in [Blocks -> {"none", "built", "freed"}]
    BY <1>1, <1>2 DEF TypeOK
  <2>2. frontier' \in Seq(Cols) /\ t' \in Nat /\ first' \in BOOLEAN
    <3>1. frontier \in Seq(Cols) /\ t \in Nat /\ first \in BOOLEAN
      BY <1>1 DEF TypeOK
    <3>2. CASE frontier' = frontier /\ t' = t /\ first' = first
      BY <3>1, <3>2
    <3>3. CASE frontier' = Unfinished(Reactive, final) /\ t' = t + Band /\ first' = TRUE
      BY <3>1, <3>3, UnfinishedFacts, WorkerFacts
    <3>4. QED
      BY <1>3, <3>2, <3>3
  <2>3. /\ pc' \in {"round", "relax", "serial", "wave", "evict", "end"}
        /\ outcome' \in {"running", "converged", "cut"}
    BY <1>1, <1>3 DEF TypeOK
  <2>4. QED
    BY <1>1, <1>2, <1>4, <2>1, <2>2, <2>3 DEF TypeOK
<1>6. CountersExact'
  <2>1. ASSUME NEW b \in Blocks PROVE Counted(b)' = Counted(b)
    BY <1>2 DEF Counted
  <2>2. QED
    BY <1>2, <2>1 DEF IInv, CountersExact
<1>7. FreedSettled'
  <2>1. SUFFICES ASSUME NEW b \in Blocks, store'[b] = "freed",
                        NEW s \in EvalStates, Block(s[1]) \in Around(b)
                 PROVE  final[s[1]] /\ value[s] # MaxCost
    BY <1>2 DEF FreedSettled
  <2>2. CASE store[b] = "freed"
    BY <2>1, <2>2 DEF IInv, FreedSettled
  <2>3. CASE store[b] # "freed"
    <3>1. b \in Freeable
      BY <1>2, <2>1, <2>3
    <3> DEFINE k == Block(s[1])
    <3>2. k \in Full /\ k \in Blocks /\ nfinal[k] = NEval(k)
      BY <2>1, <3>1 DEF Freeable, Full
    <3>3. Counted(k) \subseteq InBlock(k) /\ nfinal[k] = Cardinality(Counted(k))
      BY <3>2 DEF Counted, InBlock, IInv, CountersExact
    <3>4. s \in InBlock(k)
      BY DEF InBlock
    <3> HIDE DEF k
    <3>5. Counted(k) = InBlock(k)
      BY <3>2, <3>3, SubCount
    <3>6. QED
      BY <3>4, <3>5 DEF Counted
  <2>4. QED
    BY <2>2, <2>3
<1>8. \A c \in SeedCols : Updated(c) \/ final[c]
  BY <1>2 DEF IInv, GoalsFirst
<1>9. LiveSound'
  <2>1. \A c \in live : Updated(c) \/ c \in SeedCols
    BY DEF IInv, LiveSound
  <2>2. QED
    BY <1>2, <1>4, <2>1 DEF LiveSound
<1>10. GoalsFirst'
  BY <1>2, <1>8 DEF GoalsFirst
<1>11. QueueNear'
  <2>1. SUFFICES ASSUME NEW c \in Queue'
                 PROVE  Updated(c) \/ \E d \in Cols : ~final[d] /\ Updated(d) /\ <<d, c>> \in Near
    BY <1>2 DEF QueueNear
  <2>2. frontier' = Unfinished(Reactive, final) /\ Queue' = Entries(frontier')
    BY <1>3, <2>1 DEF Queue, Entries
  <2>3. PICK d \in Reactive : <<d, c>> \in Near
    BY <2>1, <2>2, UnfinishedFacts
  <2>4. d \in Cols /\ d \in live /\ ~final[d]
    BY <1>4 DEF Reactive
  <2>5. Updated(d) \/ d \in SeedCols
    BY <2>4 DEF IInv, LiveSound
  <2>6. QED
    BY <1>8, <2>3, <2>4, <2>5
<1>12. NextOpen' /\ WindowsBuilt'
  BY <1>3 DEF NextOpen, WindowsBuilt, Reading, Scanning
<1>13. StepsLeft'
  BY <1>1, <1>2, <1>3, WorkerFacts DEF StepsLeft, TypeOK
<1>14. QED
  BY <1>5, <1>6, <1>7, <1>9, <1>10, <1>11, <1>12, <1>13 DEF IInv

LEMMA StutterInv ==
  ASSUME IInv, UNCHANGED vars
  PROVE  IInv'
<1> USE DEF vars, data, cols, wave, out, scan
<1>1. TypeOK'
  BY DEF IInv, TypeOK
<1>2. CountersExact' /\ FreedSettled' /\ (NoneFreed' <=> NoneFreed)
  BY SettledKept DEF IInv
<1>3. Queue' = Queue /\ Reading' = Reading
  BY DEF Queue, Reading, Entries, Scanning, ColOf
<1>4. LiveSound' /\ GoalsFirst' /\ QueueNear' /\ NextOpen' /\ WindowsBuilt' /\ StepsLeft'
  BY <1>2, <1>3 DEF IInv, LiveSound, GoalsFirst, QueueNear, NextOpen, WindowsBuilt, StepsLeft
<1>5. QED
  BY <1>1, <1>2, <1>4 DEF IInv

\* The inductive invariant of the solver: the state is well typed, counters
\* are exact, freed blocks are settled and the frontier keeps away from them.
THEOREM CompactInvariant == Spec => []IInv
<1>1. Init => IInv
  BY InitInv
<1>2. IInv /\ [Next]_vars => IInv'
  BY StartRoundInv, RelaxLayerInv, NextColumnInv, ApplyInv, StartSerialInv, SerialLayerInv,
     SerialColumnInv, EndSerialInv, FinalizeInv, AdvanceInv, StutterInv DEF Next
<1>3. QED
  BY <1>1, <1>2, PTL DEF Spec

\* evict_block frees only blocks that are full for good, and no later relax_column,
\* finalize_column or gather through AtomicCpView reads a block that was freed or
\* never built.
THEOREM EvictionSafe == Spec => []BlocksSafe
<1>1. IInv => FreedIsFull
  <2>1. SUFFICES ASSUME IInv, NEW b \in Blocks, store[b] = "freed"
                 PROVE  /\ nfinal[b] = NEval(b)
                        /\ \A s \in EvalStates : Block(s[1]) = b => final[s[1]]
    BY DEF FreedIsFull
  <2>2. \A s \in InBlock(b) : final[s[1]] /\ value[s] # MaxCost
    BY <2>1, SelfHalo DEF IInv, FreedSettled, InBlock
  <2>3. Counted(b) = InBlock(b)
    BY <2>2 DEF Counted, InBlock
  <2>4. nfinal[b] = NEval(b)
    BY <2>1, <2>3, CountOf DEF IInv, CountersExact
  <2>5. QED
    BY <2>2, <2>4 DEF InBlock
<1>2. IInv => NoFreedRead
  <2>1. SUFFICES ASSUME IInv, NEW c \in live \union Queue, ~final[c], NEW b \in Reads(c)
                 PROVE  store[b] # "freed" /\ (c \in Reading => store[b] = "built")
    BY DEF NoFreedRead
  <2>2. TypeOK
    BY <2>1 DEF IInv
  <2>3. c \in Cols
    BY <2>2, EntriesIn DEF TypeOK, Queue
  <2>4. b \in Blocks /\ Block(c) \in Around(b) /\ b \in Window(c)
    BY <2>3, ReadsNear
  <2>5. store[b] # "freed"
    <3>1. SUFFICES ASSUME store[b] = "freed" PROVE FALSE
      OBVIOUS
    <3>2. ASSUME NEW d \in Cols, ~final[d], Updated(d), Block(d) \in Around(b)
          PROVE  FALSE
      <4>1. PICK i \in Thetas : <<d, i>> \in EvalStates
        BY <3>2 DEF Updated
      <4>2. QED
        BY <2>1, <2>4, <3>1, <3>2, <4>1 DEF IInv, FreedSettled
    <3>3. ~NoneFreed
      BY <2>4, <3>1 DEF NoneFreed
    <3>4. CASE Updated(c)
      BY <2>1, <2>3, <2>4, <3>2, <3>4
    <3>5. CASE ~Updated(c) /\ c \in live
      <4>1. c \in SeedCols
        BY <2>1, <3>5 DEF IInv, LiveSound
      <4>2. QED
        BY <2>1, <3>3, <3>5, <4>1 DEF IInv, GoalsFirst
    <3>6. CASE ~Updated(c) /\ c \in Queue
      <4>1. PICK d \in Cols : ~final[d] /\ Updated(d) /\ <<d, c>> \in Near
        BY <2>1, <3>3, <3>6 DEF IInv, QueueNear
      <4>2. Block(d) \in Around(Block(c)) /\ b = Block(c)
        BY <2>3, <3>6, <4>1, NearHalo DEF Reads
      <4>3. QED
        BY <3>2, <4>1, <4>2
    <3>7. QED
      BY <3>4, <3>5, <3>6
  <2>6. c \in Reading => store[b] # "none"
    BY <2>1, <2>4 DEF IInv, WindowsBuilt
  <2>7. QED
    BY <2>2, <2>4, <2>5, <2>6 DEF TypeOK
<1>3. QED
  BY <1>1, <1>2, CompactInvariant, PTL DEF BlocksSafe
-----------------------------------------------------------------------------
(* The change masks.                                                        *)

MaskInv ==
  /\ MasksCleared
  /\ nthreads = 1 => first /\ pc # "relax"
  /\ pc = "serial" => nthreads = 1

\* The masks of changed headings stand only where the last round of the same
\* wave put them: every wave starts from empty masks.
THEOREM MasksClean == Spec => []MasksCleared
<1> USE DEF data, cols, wave, out, scan
<1>1. Init => MaskInv
  BY DEF Init, MaskInv, MasksCleared, NoMask
<1>2. TypeOK /\ MaskInv /\ [Next]_vars => MaskInv'
  <2>1. SUFFICES ASSUME TypeOK, MaskInv, [Next]_vars PROVE MaskInv'
    OBVIOUS
  <2>2. CASE StartRound
    BY <2>1, <2>2 DEF StartRound, MaskInv, MasksCleared, NoMask
  <2>3. ASSUME NEW w \in Workers, RelaxLayer(w) \/ NextColumn(w) PROVE MaskInv'
    BY <2>1, <2>3 DEF RelaxLayer, NextColumn, Busy, MaskInv, MasksCleared, NoMask
  <2>4. CASE Apply
    <3>1. PICK moved :
            LET ends == iters + 1 >= MaxIter \/ moved = {}
            IN  /\ mask' = IF ends THEN [c \in Cols |-> IF c \in moved THEN {} ELSE MaskAfter(moved)[c]]
                           ELSE MaskAfter(moved)
                /\ prev' = IF ends THEN {} ELSE moved
                /\ pc' = IF iters + 1 >= MaxIter THEN "end" ELSE IF ends THEN "wave" ELSE "round"
      BY <2>4 DEF Apply
    <3>2. /\ pc = "relax" /\ first' = FALSE /\ nthreads' = nthreads
          /\ \A c \in Cols : c \notin prev => mask[c] = {}
      BY <2>1, <2>4 DEF Apply, MaskInv, MasksCleared
    <3>3. \A c \in Cols : c \notin moved => MaskAfter(moved)[c] = {}
      BY <3>2 DEF MaskAfter
    <3>4. QED
      BY <2>1, <3>1, <3>2, <3>3 DEF MaskInv, MasksCleared, NoMask, MaskAfter
  <2>5. CASE StartSerial
    BY <2>1, <2>5 DEF StartSerial, MaskInv, MasksCleared, NoMask
  <2>6. CASE SerialLayer \/ SerialColumn
    BY <2>1, <2>6 DEF SerialLayer, SerialColumn, Scanning, MaskInv, MasksCleared, NoMask
  <2>7. CASE EndSerial
    BY <2>1, <2>7 DEF EndSerial, MaskInv, MasksCleared, NoMask
  <2>8. CASE Finalize
    BY <2>1, <2>8 DEF Finalize, MaskInv, MasksCleared, NoMask
  <2>9. CASE Advance
    BY <2>1, <2>9 DEF Advance, MaskInv, MasksCleared, NoMask
  <2>10. CASE UNCHANGED vars
    BY <2>1, <2>10 DEF vars, MaskInv, MasksCleared, NoMask
  <2>11. QED
    BY <2>1, <2>2, <2>3, <2>4, <2>5, <2>6, <2>7, <2>8, <2>9, <2>10 DEF Next
<1>3. IInv => TypeOK
  BY DEF IInv
<1>4. MaskInv => MasksCleared
  BY DEF MaskInv
<1>5. QED
  BY <1>1, <1>2, <1>3, <1>4, CompactInvariant, PTL DEF Spec
=============================================================================
