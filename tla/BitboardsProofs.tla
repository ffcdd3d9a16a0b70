---------------------------- MODULE BitboardsProofs ----------------------------
(***************************************************************************)
(* Theorems about Bitboards for boards of every size and every word width. *)
(***************************************************************************)
EXTENDS Bitboards, FiniteSetTheorems, TLAPS

-----------------------------------------------------------------------------
(* Division. *)

\* Quotient and remainder.
LEMMA DivMod ==
  ASSUME NEW a \in Nat, NEW b \in Nat \ {0}
  PROVE  /\ a \div b \in Nat /\ a % b \in 0 .. b - 1
         /\ a = b * (a \div b) + (a % b)
<1>1. a \div b \in Nat /\ a % b \in 0 .. b - 1
  OBVIOUS
<1>2. a = b * (a \div b) + (a % b)
  BY Z3
<1>3. QED
  BY <1>1, <1>2

\* The quotient is determined by its bounds.
LEMMA QuotientUnique ==
  ASSUME NEW b \in Nat \ {0}, NEW q \in Nat, NEW p \in Nat, NEW r \in 0 .. b - 1,
         NEW s \in 0 .. b - 1, b * q + r = b * p + s
  PROVE  q = p /\ r = s
<1>1. ASSUME NEW m \in Nat, NEW n \in Nat, m < n PROVE b * m + b <= b * n
  <2>1. PICK d \in Nat : n = m + 1 + d
    <3>1. n - m - 1 \in Nat
      BY <1>1
    <3>2. n = m + 1 + (n - m - 1)
      OBVIOUS
    <3>3. QED
      BY <3>1, <3>2
  <2>2. b * n = b * m + b + b * d /\ b * d \in Nat
    BY <2>1
  <2>3. QED
    BY <2>2
<1>2. ~(q < p) /\ ~(p < q)
  BY <1>1
<1>3. QED
  BY <1>2

-----------------------------------------------------------------------------
(* Rows and words. *)

USE BoardAssumption DEF BoardAssumption

\* The words of a row: as many as hold its bits, and no more.
LEMMA WordCount ==
  /\ NWords \in Nat \ {0}
  /\ MapX % WordBits = 0 => MapX = WordBits * NWords
  /\ MapX % WordBits # 0 => MapX = WordBits * (NWords - 1) + (MapX % WordBits)
<1> DEFINE Q == MapX \div WordBits
           R == MapX % WordBits
           S == (MapX + WordBits - 1) % WordBits
<1>1. Q \in Nat /\ R \in 0 .. WordBits - 1 /\ MapX = WordBits * Q + R
  BY DivMod
<1>2. /\ NWords \in Nat /\ S \in 0 .. WordBits - 1
      /\ MapX + WordBits - 1 = WordBits * NWords + S
  <2>1. MapX + WordBits - 1 \in Nat
    OBVIOUS
  <2>2. QED
    BY <2>1, DivMod DEF NWords
<1> HIDE DEF Q, R, S
<1>3. CASE R = 0
  <2>1. WordBits * NWords + S = WordBits * Q + (WordBits - 1)
    BY <1>1, <1>2, <1>3
  <2>2. NWords = Q
    BY <1>1, <1>2, <2>1, QuotientUnique
  <2>3. Q # 0
    BY <1>1, <1>3
  <2>4. QED
    BY <1>1, <1>3, <2>2, <2>3 DEF R
<1>4. CASE R # 0
  <2>1. WordBits * NWords + S = WordBits * (Q + 1) + (R - 1)
    BY <1>1, <1>2, <1>4
  <2>2. NWords = Q + 1
    BY <1>1, <1>2, <1>4, <2>1, QuotientUnique
  <2>3. QED
    <3>1. NWords - 1 = Q /\ NWords \in Nat \ {0}
      BY <1>1, <2>2
    <3>2. MapX = WordBits * (NWords - 1) + R
      BY <1>1, <3>1
    <3>3. MapX % WordBits = R
      BY DEF R
    <3>4. MapX = WordBits * (NWords - 1) + (MapX % WordBits)
      BY <3>2, <3>3
    <3>5. MapX % WordBits # 0
      BY <1>4, <3>3
    <3>6. QED
      BY <3>1, <3>4, <3>5
<1>5. QED
  BY <1>3, <1>4

\* A cell of the map has a bit in one of its row's words, not a spare one.
LEMMA CellBit ==
  ASSUME NEW x \in 0 .. MapX - 1
  PROVE  /\ x \div WordBits \in Words
         /\ x % WordBits \in RowMask[x \div WordBits]
<1> DEFINE q == x \div WordBits
           r == x % WordBits
<1>1. q \in Nat /\ r \in 0 .. WordBits - 1 /\ x = WordBits * q + r
  <2>1. x \in Nat
    OBVIOUS
  <2>2. QED
    BY <2>1, DivMod
<1> HIDE DEF q, r
<1>2. ASSUME NEW m \in Nat, NEW n \in Nat, m <= n PROVE WordBits * m <= WordBits * n
  <2>1. n - m \in Nat /\ WordBits * n = WordBits * m + WordBits * (n - m)
    BY <1>2
  <2>2. WordBits * (n - m) \in Nat
    BY <2>1
  <2>3. QED
    BY <2>1, <2>2
<1>3. q < NWords
  <2>1. CASE NWords <= q
    <3>1. WordBits * NWords <= WordBits * q
      BY <1>1, <1>2, <2>1, WordCount
    <3>2. MapX <= WordBits * NWords
      BY WordCount, DivMod
    <3>3. QED
      <4>1. WordBits * q \in Nat /\ WordBits * NWords \in Nat
        BY <1>1, WordCount
      <4>2. QED
        BY <1>1, <3>1, <3>2, <4>1
  <2>2. QED
    BY <1>1, <2>1, WordCount
<1>4. q \in Words
  BY <1>1, <1>3, WordCount DEF Words
<1>5. CASE q = NWords - 1 /\ MapX % WordBits # 0
  <2>1. r < MapX % WordBits
    BY <1>1, <1>5, WordCount, DivMod
  <2>2. QED
    BY <1>1, <1>4, <1>5, <2>1, DivMod DEF RowMask, q, r
<1>6. CASE ~(q = NWords - 1 /\ MapX % WordBits # 0)
  BY <1>1, <1>4, <1>6 DEF RowMask, Bits, q, r
<1>7. QED
  BY <1>5, <1>6

\* Bit k of word i belongs to position i * WordBits + k, and to no other.
LEMMA Position ==
  ASSUME NEW i \in Nat, NEW k \in Bits
  PROVE  /\ i * WordBits + k \in Nat
         /\ (i * WordBits + k) \div WordBits = i
         /\ (i * WordBits + k) % WordBits = k
<1> DEFINE x == i * WordBits + k
<1>1. x \in Nat /\ k \in 0 .. WordBits - 1 /\ x = WordBits * i + k
  BY DEF Bits
<1> HIDE DEF x
<1>2. /\ x \div WordBits \in Nat /\ x % WordBits \in 0 .. WordBits - 1
      /\ x = WordBits * (x \div WordBits) + (x % WordBits)
  BY <1>1, DivMod
<1>3. x \div WordBits = i /\ x % WordBits = k
  BY <1>1, <1>2, QuotientUnique
<1>4. QED
  BY <1>1, <1>3 DEF x

\* The same for a position given by its word and bit.
LEMMA PositionIs ==
  ASSUME NEW x, NEW i \in Nat, NEW k \in Bits, x = i * WordBits + k
  PROVE  x \in Nat /\ x \div WordBits = i /\ x % WordBits = k
BY Position

\* Every position is that of its bit in its word.
LEMMA PositionOf ==
  ASSUME NEW x \in Nat
  PROVE  /\ x \div WordBits \in Nat /\ x % WordBits \in Bits
         /\ (x \div WordBits) * WordBits + (x % WordBits) = x
<1>1. /\ x \div WordBits \in Nat /\ x % WordBits \in 0 .. WordBits - 1
      /\ x = WordBits * (x \div WordBits) + (x % WordBits)
  BY DivMod
<1>2. QED
  BY <1>1 DEF Bits

\* A bit that is not spare is that of a cell.
LEMMA MaskedBit ==
  ASSUME NEW i \in Words, NEW k \in RowMask[i]
  PROVE  k \in Bits /\ i * WordBits + k \in 0 .. MapX - 1
<1>1. MapX % WordBits \in 0 .. WordBits - 1 /\ NWords \in Nat \ {0}
  BY WordCount
<1>2. k \in Bits /\ i \in 0 .. NWords - 1
  BY <1>1 DEF RowMask, Bits, Words
<1>3. i * WordBits + k \in Nat
  BY <1>2, Position
<1>4. i * WordBits + WordBits <= NWords * WordBits
  <2>1. NWords - 1 - i \in Nat
    BY <1>1, <1>2
  <2>2. (NWords - 1 - i) * WordBits \in Nat
    BY <2>1
  <2>3. NWords * WordBits = i * WordBits + WordBits + (NWords - 1 - i) * WordBits
    BY <1>1, <1>2
  <2>4. i * WordBits \in Nat /\ NWords * WordBits \in Nat
    BY <1>1, <1>2
  <2>5. QED
    BY <2>2, <2>3, <2>4
<1>5. CASE MapX % WordBits = 0
  <2>1. MapX = NWords * WordBits /\ i * WordBits \in Nat
    BY <1>1, <1>2, <1>5, WordCount
  <2>2. QED
    BY <1>2, <1>3, <1>4, <2>1 DEF Bits
<1>6. CASE MapX % WordBits # 0
  <2>1. MapX = (NWords - 1) * WordBits + (MapX % WordBits) /\ i * WordBits \in Nat
    BY <1>1, <1>2, <1>6, WordCount
  <2>2. NWords * WordBits = (NWords - 1) * WordBits + WordBits
    BY <1>1
  <2>3. (NWords - 1) * WordBits \in Nat
    BY <1>1
  <2>4. CASE i = NWords - 1
    <3>1. k < MapX % WordBits
      BY <1>1, <1>2, <1>6, <2>4 DEF RowMask
    <3>2. QED
      BY <1>1, <1>2, <1>3, <2>1, <2>4, <3>1 DEF Bits
  <2>5. CASE i # NWords - 1
    <3>1. i * WordBits + WordBits <= (NWords - 1) * WordBits
      <4>1. NWords - 2 - i \in Nat
        BY <1>1, <1>2, <2>5
      <4>2. (NWords - 2 - i) * WordBits \in Nat
        BY <4>1
      <4>3. (NWords - 1) * WordBits = i * WordBits + WordBits + (NWords - 2 - i) * WordBits
        BY <1>1, <1>2
      <4>4. QED
        BY <2>1, <2>3, <4>2, <4>3
    <3>2. QED
      BY <1>1, <1>2, <1>3, <2>1, <2>3, <3>1 DEF Bits
  <2>6. QED
    BY <2>4, <2>5
<1>7. QED
  BY <1>5, <1>6

-----------------------------------------------------------------------------
(* The board. *)

\* Every row of words is within the map.
Clean(b) == \A t \in Layers, y \in Rows, i \in Words : b[t][y][i] \subseteq RowMask[i]

\* The mask of a row is a row.
LEMMA MaskTyped == RowMask \in Row
<1>1. MapX % WordBits \in 0 .. WordBits - 1
  OBVIOUS
<1>2. QED
  BY <1>1 DEF RowMask, Row, Bits

\* test_bit of a row.
Bit(row, x) == x % WordBits \in row[x \div WordBits]

\* The cells of a board are those whose bit is set.
LEMMA ToLogicalBit ==
  ASSUME NEW b \in Board, NEW c \in Cells
  PROVE  c \in ToLogical(b) <=> Bit(b[c[3]][c[2]], c[1])
<1> DEFINE row == b[c[3]][c[2]]
           x == c[1]
<1>1. x \in 0 .. MapX - 1 /\ row \in Row
  BY DEF Cells, Board, Layer, Layers, Rows
<1>2. x \in Nat
  BY <1>1
<1> HIDE DEF row, x
<1>3. ASSUME NEW i \in Words, NEW k \in row[i], x = i * WordBits + k
      PROVE  Bit(row, x)
  <2>1. i \in Nat /\ k \in Bits
    BY <1>1, WordCount DEF Words, Row
  <2>2. QED
    BY <1>3, <2>1, Position DEF Bit
<1>4. ASSUME Bit(row, x)
      PROVE  \E i \in Words : \E k \in row[i] : x = i * WordBits + k
  BY <1>1, <1>2, <1>4, CellBit, PositionOf DEF Bit
<1>5. c \in ToLogical(b) <=> \E i \in Words : \E k \in row[i] : x = i * WordBits + k
  BY DEF ToLogical, row, x
<1>6. QED
  BY <1>3, <1>4, <1>5 DEF row, x

\* Sets of cells are equal if they have the same cells.
LEMMA SameCells ==
  ASSUME NEW S \in SUBSET Cells, NEW T \in SUBSET Cells,
         \A c \in Cells : c \in S <=> c \in T
  PROVE  S = T
OBVIOUS

\* The cells of a board are cells.
LEMMA ToLogicalCells == \A b : ToLogical(b) \in SUBSET Cells
BY DEF ToLogical

\* The board of a set of cells is clean and has the bits of the set.
LEMMA FromLogicalFacts ==
  ASSUME NEW S \in SUBSET Cells
  PROVE  /\ FromLogical(S) \in Board
         /\ Clean(FromLogical(S))
         /\ ToLogical(FromLogical(S)) = S
<1>1. FromLogical(S) \in Board
  BY DEF FromLogical, Board, Layer, Row
<1>2. Clean(FromLogical(S))
  <2> SUFFICES ASSUME NEW t \in Layers, NEW y \in Rows, NEW i \in Words, NEW k \in Bits,
                      <<i * WordBits + k, y, t>> \in S
               PROVE  k \in RowMask[i]
    BY DEF Clean, FromLogical
  <2>1. i \in Nat
    BY WordCount DEF Words
  <2>2. i * WordBits + k \in 0 .. MapX - 1
    BY DEF Cells
  <2>3. QED
    BY <2>1, <2>2, Position, CellBit
<1>3. ASSUME NEW c \in Cells
      PROVE  c \in ToLogical(FromLogical(S)) <=> c \in S
  <2> DEFINE x == c[1]
  <2>1. x \in 0 .. MapX - 1 /\ c[2] \in Rows /\ c[3] \in Layers /\ c = <<x, c[2], c[3]>>
    BY DEF Cells, Rows, Layers
  <2>2. x \in Nat
    BY <2>1
  <2> HIDE DEF x
  <2>3. /\ x \div WordBits \in Words /\ x % WordBits \in Bits
        /\ (x \div WordBits) * WordBits + (x % WordBits) = x
    BY <2>1, <2>2, CellBit, PositionOf
  <2>4. Bit(FromLogical(S)[c[3]][c[2]], x) <=> <<x, c[2], c[3]>> \in S
    BY <2>1, <2>3 DEF Bit, FromLogical
  <2>5. QED
    BY <1>1, <2>1, <2>4, ToLogicalBit DEF x
<1>4. QED
  BY <1>1, <1>2, <1>3, ToLogicalCells, SameCells

-----------------------------------------------------------------------------
(* The operations without shifts. *)

\* Setting a bit adds its cell.
LEMMA SetBitFacts ==
  ASSUME NEW b \in Board, Clean(b), NEW c \in Cells
  PROVE  LET n == [b EXCEPT ![c[3]] = SetBit(@, c[1], c[2])]
         IN  n \in Board /\ Clean(n) /\ ToLogical(n) = ToLogical(b) \union {c}
<1> DEFINE n == [b EXCEPT ![c[3]] = SetBit(@, c[1], c[2])]
           q == c[1] \div WordBits
           r == c[1] % WordBits
<1>1. /\ c[1] \in 0 .. MapX - 1 /\ c[1] \in Nat /\ c[2] \in Rows /\ c[3] \in Layers
      /\ c = <<c[1], c[2], c[3]>>
  BY DEF Cells, Rows, Layers
<1>2. q \in Words /\ r \in RowMask[q] /\ r \in Bits
  BY <1>1, CellBit, PositionOf
<1> HIDE DEF q, r
<1> DEFINE row == [b[c[3]][c[2]] EXCEPT ![q] = b[c[3]][c[2]][q] \union {r}]
           layer == [b[c[3]] EXCEPT ![c[2]] = row]
<1>3. n = [b EXCEPT ![c[3]] = layer]
  BY <1>1, <1>2 DEF SetBit, Board, Layer, q, r
<1> HIDE DEF n
<1>4. /\ n \in Board
      /\ \A t \in Layers, y \in Rows, i \in Words :
           n[t][y][i] = IF t = c[3] /\ y = c[2] /\ i = q THEN b[t][y][i] \union {r} ELSE b[t][y][i]
  <2>1. /\ row \in Row
        /\ \A i \in Words :
             row[i] = IF i = q THEN b[c[3]][c[2]][i] \union {r} ELSE b[c[3]][c[2]][i]
    <3>1. b[c[3]][c[2]] \in [Words -> SUBSET Bits]
      BY <1>1 DEF Board, Layer, Row
    <3>2. QED
      BY <1>2, <3>1 DEF Row
  <2> HIDE DEF row
  <2>2. /\ layer \in Layer
        /\ \A y \in Rows : layer[y] = IF y = c[2] THEN row ELSE b[c[3]][y]
    BY <1>1, <2>1 DEF Board, Layer
  <2> HIDE DEF layer
  <2>3. /\ n \in Board
        /\ \A t \in Layers : n[t] = IF t = c[3] THEN layer ELSE b[t]
    BY <1>1, <1>3, <2>2 DEF Board
  <2>4. ASSUME NEW t \in Layers, NEW y \in Rows, NEW i \in Words
        PROVE  n[t][y][i] = IF t = c[3] /\ y = c[2] /\ i = q
                            THEN b[t][y][i] \union {r} ELSE b[t][y][i]
    BY <2>1, <2>2, <2>3
  <2>5. QED
    BY <2>3, <2>4
<1> HIDE DEF row, layer
<1>5. Clean(n)
  <2> SUFFICES ASSUME NEW t \in Layers, NEW y \in Rows, NEW i \in Words
               PROVE  n[t][y][i] \subseteq RowMask[i]
    BY DEF Clean
  <2>1. b[t][y][i] \subseteq RowMask[i]
    BY DEF Clean
  <2>2. CASE t = c[3] /\ y = c[2] /\ i = q
    <3>1. n[t][y][i] = b[t][y][i] \union {r}
      BY <1>4, <2>2
    <3>2. QED
      BY <1>2, <2>1, <2>2, <3>1
  <2>3. CASE ~(t = c[3] /\ y = c[2] /\ i = q)
    <3>1. n[t][y][i] = b[t][y][i]
      BY <1>4, <2>3
    <3>2. QED
      BY <2>1, <3>1
  <2>4. QED
    BY <2>2, <2>3
<1>6. ASSUME NEW d \in Cells
      PROVE  d \in ToLogical(n) <=> d \in ToLogical(b) \union {c}
  <2>1. /\ d[1] \in 0 .. MapX - 1 /\ d[1] \in Nat /\ d[2] \in Rows /\ d[3] \in Layers
        /\ d = <<d[1], d[2], d[3]>> /\ d[1] \div WordBits \in Words
    BY CellBit DEF Cells, Rows, Layers
  <2>2. (d[1] \div WordBits = q /\ d[1] % WordBits = r) <=> d[1] = c[1]
    BY <1>1, <2>1, PositionOf DEF q, r
  <2>3. Bit(n[d[3]][d[2]], d[1]) <=>
          Bit(b[d[3]][d[2]], d[1]) \/
            (d[3] = c[3] /\ d[2] = c[2] /\ d[1] \div WordBits = q /\ d[1] % WordBits = r)
    <3> DEFINE i == d[1] \div WordBits
    <3>1. n[d[3]][d[2]][i] = IF d[3] = c[3] /\ d[2] = c[2] /\ i = q
                             THEN b[d[3]][d[2]][i] \union {r} ELSE b[d[3]][d[2]][i]
      BY <1>4, <2>1
    <3>2. QED
      BY <3>1 DEF Bit
  <2>4. d = c <=> d[3] = c[3] /\ d[2] = c[2] /\ d[1] = c[1]
    BY <1>1, <2>1
  <2>5. QED
    BY <1>4, <2>2, <2>3, <2>4, ToLogicalBit
<1>7. ToLogical(n) = ToLogical(b) \union {c}
  BY <1>6, ToLogicalCells, SameCells
<1>8. QED
  BY <1>4, <1>5, <1>7 DEF n

\* and_inplace and or_inplace are intersection and union.
LEMMA AndOrFacts ==
  ASSUME NEW a \in Board, Clean(a), NEW b \in Board, Clean(b)
  PROVE  /\ AndWords(a, b) \in Board /\ Clean(AndWords(a, b))
         /\ ToLogical(AndWords(a, b)) = ToLogical(a) \intersect ToLogical(b)
         /\ OrWords(a, b) \in Board /\ Clean(OrWords(a, b))
         /\ ToLogical(OrWords(a, b)) = ToLogical(a) \union ToLogical(b)
<1>1. /\ AndWords(a, b) \in Board /\ Clean(AndWords(a, b))
      /\ OrWords(a, b) \in Board /\ Clean(OrWords(a, b))
  BY DEF AndWords, OrWords, Board, Layer, Row, Clean
<1>2. ASSUME NEW c \in Cells
      PROVE  /\ c \in ToLogical(AndWords(a, b)) <=> c \in ToLogical(a) /\ c \in ToLogical(b)
             /\ c \in ToLogical(OrWords(a, b)) <=> c \in ToLogical(a) \/ c \in ToLogical(b)
  <2>1. c[2] \in Rows /\ c[3] \in Layers /\ c[1] \div WordBits \in Words
    BY CellBit DEF Cells, Rows, Layers
  <2>2. /\ Bit(AndWords(a, b)[c[3]][c[2]], c[1]) <=>
             Bit(a[c[3]][c[2]], c[1]) /\ Bit(b[c[3]][c[2]], c[1])
        /\ Bit(OrWords(a, b)[c[3]][c[2]], c[1]) <=>
             Bit(a[c[3]][c[2]], c[1]) \/ Bit(b[c[3]][c[2]], c[1])
    BY <2>1 DEF Bit, AndWords, OrWords
  <2>3. QED
    BY <1>1, <2>2, ToLogicalBit
<1>3. /\ ToLogical(AndWords(a, b)) = ToLogical(a) \intersect ToLogical(b)
      /\ ToLogical(OrWords(a, b)) = ToLogical(a) \union ToLogical(b)
  BY <1>2, ToLogicalCells, SameCells
<1>4. QED
  BY <1>1, <1>3

\* complement keeps the spare bits zero and yields the other cells.
LEMMA ComplementFacts ==
  ASSUME NEW b \in Board
  PROVE  /\ Complement(b) \in Board /\ Clean(Complement(b))
         /\ ToLogical(Complement(b)) = Cells \ ToLogical(b)
<1>1. Complement(b) \in Board /\ Clean(Complement(b))
  BY DEF Complement, Board, Layer, Row, Clean
<1>2. ASSUME NEW c \in Cells
      PROVE  c \in ToLogical(Complement(b)) <=> c \in Cells \ ToLogical(b)
  <2>1. /\ c[2] \in Rows /\ c[3] \in Layers /\ c[1] \div WordBits \in Words
        /\ c[1] % WordBits \in RowMask[c[1] \div WordBits] /\ c[1] \in Nat
    BY CellBit DEF Cells, Rows, Layers
  <2>2. c[1] % WordBits \in Bits
    BY <2>1, PositionOf
  <2>3. Bit(Complement(b)[c[3]][c[2]], c[1]) <=> ~Bit(b[c[3]][c[2]], c[1])
    BY <2>1, <2>2 DEF Bit, Complement
  <2>4. QED
    BY <1>1, <2>3, ToLogicalBit
<1>3. QED
  BY <1>1, <1>2, ToLogicalCells, SameCells

-----------------------------------------------------------------------------
(* Dilation. *)

\* The columns of the map.
Columns == 0 .. MapX - 1

\* A row of words within the map.
CleanRow(row) == row \in Row /\ \A i \in Words : row[i] \subseteq RowMask[i]

\* Shifting a row keeps the spare bits zero.
LEMMA ShiftTyped ==
  ASSUME NEW row, NEW n
  PROVE  CleanRow(ShiftRow(row, n))
<1>1. \A i \in Words : ShiftRow(row, n)[i] \subseteq RowMask[i] /\ RowMask[i] \subseteq Bits
  BY MaskTyped DEF ShiftRow, Row
<1>2. ShiftRow(row, n) \in Row
  BY <1>1 DEF ShiftRow, Row
<1>3. QED
  BY <1>1, <1>2 DEF CleanRow

\* A shift towards higher x, with the carry from the word before.
LEMMA ShiftUp ==
  ASSUME NEW row, CleanRow(row), NEW n \in 0 .. WordBits - 1, NEW x \in Columns
  PROVE  Bit(ShiftRow(row, n), x) <=> x - n \in Columns /\ Bit(row, x - n)
<1> DEFINE q == x \div WordBits
           r == x % WordBits
<1>1. /\ q \in Words /\ r \in RowMask[q] /\ q \in Nat /\ r \in Bits
      /\ q * WordBits + r = x /\ x \in 0 .. MapX - 1
  <2>1. x \in 0 .. MapX - 1 /\ x \in Nat
    BY DEF Columns
  <2>2. QED
    BY <2>1, CellBit, PositionOf
<1>2. row \in [Words -> SUBSET Bits]
  BY DEF CleanRow, Row
<1> HIDE DEF q, r
<1>3. Bit(ShiftRow(row, n), x) <=>
        (r - n \in row[q] \/ (q > 0 /\ r + (WordBits - n) \in row[q - 1]))
  BY <1>1 DEF Bit, ShiftRow, Shl, Shr, CarryUp, q, r
<1>4. CASE n <= r
  <2>1. r - n \in Bits /\ r + (WordBits - n) \notin Bits
    BY <1>1, <1>4 DEF Bits
  <2>2. x - n = q * WordBits + (r - n)
    BY <1>1 DEF Bits
  <2>3. x - n \in Columns
    <3>1. q * WordBits \in Nat
      BY <1>1
    <3>2. QED
      BY <1>1, <1>4, <3>1 DEF Columns, Bits
  <2>4. (x - n) \div WordBits = q /\ (x - n) % WordBits = r - n
    BY <1>1, <2>1, <2>2, PositionIs
  <2>5. q > 0 => row[q - 1] \subseteq Bits
    BY <1>1, <1>2, WordCount DEF Words
  <2>6. QED
    BY <1>3, <2>1, <2>3, <2>4, <2>5 DEF Bit
<1>5. CASE r < n
  <2>1. r - n \notin row[q]
    BY <1>1, <1>2, <1>5 DEF Bits
  <2>2. CASE q = 0
    BY <1>1, <1>3, <1>5, <2>1, <2>2 DEF Columns, Bits
  <2>3. CASE q > 0
    <3>1. q - 1 \in Nat /\ r + (WordBits - n) \in Bits
      BY <1>1, <1>5, <2>3 DEF Bits
    <3>2. x - n = (q - 1) * WordBits + (r + (WordBits - n))
      <4>1. (q - 1) * WordBits = q * WordBits - WordBits
        BY <1>1
      <4>2. QED
        BY <1>1, <4>1 DEF Bits
    <3>3. x - n \in Nat /\ (x - n) \div WordBits = q - 1
          /\ (x - n) % WordBits = r + (WordBits - n)
      BY <3>1, <3>2, PositionIs
    <3>4. x - n \in Columns
      BY <1>1, <3>3 DEF Columns
    <3>5. QED
      BY <1>3, <2>1, <2>3, <3>3, <3>4 DEF Bit
  <2>4. QED
    BY <1>1, <2>2, <2>3
<1>6. QED
  BY <1>1, <1>4, <1>5 DEF Bits

\* A shift towards lower x, with the carry from the word after.
LEMMA ShiftDown ==
  ASSUME NEW row, CleanRow(row), NEW n \in 1 .. WordBits - 1, NEW x \in Columns
  PROVE  Bit(ShiftRow(row, -n), x) <=> x + n \in Columns /\ Bit(row, x + n)
<1> DEFINE q == x \div WordBits
           r == x % WordBits
<1>1. /\ q \in Words /\ r \in RowMask[q] /\ q \in Nat /\ r \in Bits
      /\ q * WordBits + r = x /\ x \in 0 .. MapX - 1
  <2>1. x \in 0 .. MapX - 1 /\ x \in Nat
    BY DEF Columns
  <2>2. QED
    BY <2>1, CellBit, PositionOf
<1>2. row \in [Words -> SUBSET Bits] /\ \A i \in Words : row[i] \subseteq RowMask[i]
  BY DEF CleanRow, Row
<1> HIDE DEF q, r
<1>3. Bit(ShiftRow(row, -n), x) <=>
        (r + n \in row[q] \/ (q + 1 < NWords /\ r - (WordBits - n) \in row[q + 1]))
  BY <1>1 DEF Bit, ShiftRow, Shl, Shr, CarryDown, q, r
<1>4. CASE r + n < WordBits
  <2>1. r + n \in Bits /\ r - (WordBits - n) \notin Bits
    BY <1>1, <1>4 DEF Bits
  <2>2. x + n = q * WordBits + (r + n)
    BY <1>1 DEF Bits
  <2>3. (x + n) \div WordBits = q /\ (x + n) % WordBits = r + n
    BY <1>1, <2>1, <2>2, PositionIs
  <2>4. r + n \in row[q] => x + n \in Columns
    BY <1>1, <1>2, <2>2, MaskedBit DEF Columns
  <2>5. q + 1 < NWords => row[q + 1] \subseteq Bits
    BY <1>1, <1>2, WordCount DEF Words
  <2>6. QED
    BY <1>3, <2>1, <2>3, <2>4, <2>5 DEF Bit
<1>5. CASE WordBits <= r + n
  <2>1. r + n \notin row[q] /\ r - (WordBits - n) \in Bits
    BY <1>1, <1>2, <1>5 DEF Bits
  <2>2. x + n = (q + 1) * WordBits + (r - (WordBits - n))
    <3>1. (q + 1) * WordBits = q * WordBits + WordBits
      BY <1>1
    <3>2. QED
      BY <1>1, <3>1 DEF Bits
  <2>3. (x + n) \div WordBits = q + 1 /\ (x + n) % WordBits = r - (WordBits - n)
    <3>1. q + 1 \in Nat
      BY <1>1
    <3>2. QED
      BY <2>1, <2>2, <3>1, PositionIs
  <2>4. CASE q + 1 < NWords
    <3>1. q + 1 \in Words
      BY <1>1, <2>4, WordCount DEF Words
    <3>2. r - (WordBits - n) \in row[q + 1] => x + n \in Columns
      BY <1>2, <2>2, <3>1, MaskedBit DEF Columns
    <3>3. QED
      BY <1>3, <2>1, <2>3, <2>4, <3>2 DEF Bit
  <2>5. CASE q + 1 >= NWords
    <3>1. x + n \notin Columns
      <4>1. x + n \notin Columns \/ (x + n) \div WordBits \in Words
        BY CellBit DEF Columns
      <4>2. q + 1 \notin Words
        BY <1>1, <2>5, WordCount DEF Words
      <4>3. QED
        BY <2>3, <4>1, <4>2
    <3>2. QED
      BY <1>1, <1>3, <2>1, <2>5, <3>1, WordCount
  <2>6. QED
    BY <1>1, <2>4, <2>5, WordCount
<1>6. QED
  BY <1>1, <1>4, <1>5 DEF Bits

\* shift_row moves every bit by n columns and drops those that leave the map.
LEMMA ShiftBit ==
  ASSUME NEW row, CleanRow(row), NEW n \in Int, -n < WordBits, n < WordBits,
         NEW x \in Columns
  PROVE  Bit(ShiftRow(row, n), x) <=> x - n \in Columns /\ Bit(row, x - n)
<1>1. CASE n >= 0
  BY <1>1, ShiftUp
<1>2. CASE n < 0
  <2> DEFINE m == -n
  <2>1. m \in 1 .. WordBits - 1 /\ n = -m /\ x - n = x + m
    BY <1>2 DEF Columns
  <2> HIDE DEF m
  <2>2. QED
    BY <2>1, ShiftDown
<1>3. QED
  BY <1>1, <1>2

\* The horizontal pass dilates a row by dx.
LEMMA XPassBit ==
  ASSUME NEW row, CleanRow(row), NEW dx \in 0 .. WordBits - 1
  PROVE  /\ CleanRow(XPass(row, dx))
         /\ \A x \in Columns :
              Bit(XPass(row, dx), x) <=> \E z \in Columns : x - z \in -dx .. dx /\ Bit(row, z)
<1>1. CleanRow(XPass(row, dx))
  <2>1. \A i \in Words : XPass(row, dx)[i] \subseteq RowMask[i] /\ RowMask[i] \subseteq Bits
    BY MaskTyped DEF XPass, Row
  <2>2. XPass(row, dx) \in Row
    BY <2>1 DEF XPass, Row
  <2>3. QED
    BY <2>1, <2>2 DEF CleanRow
<1>2. ASSUME NEW x \in Columns
      PROVE  Bit(XPass(row, dx), x) <=> \E z \in Columns : x - z \in -dx .. dx /\ Bit(row, z)
  <2>1. x \div WordBits \in Words /\ x % WordBits \in RowMask[x \div WordBits]
    BY CellBit DEF Columns
  <2>2. Bit(XPass(row, dx), x) <=>
          Bit(row, x) \/ \E n \in -dx .. dx : Bit(ShiftRow(row, n), x)
    BY <2>1 DEF Bit, XPass
  <2>3. ASSUME NEW n \in -dx .. dx
        PROVE  Bit(ShiftRow(row, n), x) <=> x - n \in Columns /\ Bit(row, x - n)
    <3>1. n \in Int /\ -n < WordBits /\ n < WordBits
      OBVIOUS
    <3>2. QED
      BY <3>1, ShiftBit
  <2>4. ASSUME Bit(XPass(row, dx), x)
        PROVE  \E z \in Columns : x - z \in -dx .. dx /\ Bit(row, z)
    <3>1. CASE Bit(row, x)
      <4>1. x - x \in -dx .. dx
        BY DEF Columns
      <4>2. QED
        BY <3>1, <4>1
    <3>2. CASE \E n \in -dx .. dx : Bit(ShiftRow(row, n), x)
      <4>1. PICK n \in -dx .. dx : x - n \in Columns /\ Bit(row, x - n)
        BY <3>2, <2>3
      <4>2. x - (x - n) = n
        BY DEF Columns
      <4>3. QED
        BY <4>1, <4>2
    <3>3. QED
      BY <2>2, <2>4, <3>1, <3>2
  <2>5. ASSUME NEW z \in Columns, x - z \in -dx .. dx, Bit(row, z)
        PROVE  Bit(XPass(row, dx), x)
    <3>1. x - (x - z) = z
      BY DEF Columns
    <3>2. Bit(ShiftRow(row, x - z), x)
      BY <2>3, <2>5, <3>1
    <3>3. QED
      BY <2>2, <2>5, <3>2
  <2>6. QED
    BY <2>4, <2>5
<1>3. QED
  BY <1>1, <1>2

\* The vertical pass dilates the rows by dy.
LEMMA YPassBit ==
  ASSUME NEW layer, \A y \in Rows : CleanRow(layer[y]), NEW dy \in Nat, NEW y \in Rows
  PROVE  /\ CleanRow(YPass(layer, dy)[y])
         /\ \A x \in Columns :
              Bit(YPass(layer, dy)[y], x) <=>
                \E w \in Rows : w - y \in -dy .. dy /\ Bit(layer[w], x)
<1> DEFINE row == YPass(layer, dy)[y]
<1>1. row = [i \in Words |-> UNION {layer[w][i] : w \in NearRows(y, dy)}]
  BY DEF YPass
<1> HIDE DEF row
<1>2. NearRows(y, dy) = {w \in Rows : w - y \in -dy .. dy}
  BY DEF NearRows
<1>3. \A w \in Rows, i \in Words : layer[w][i] \subseteq RowMask[i] /\ layer[w][i] \subseteq Bits
  BY DEF CleanRow, Row
<1>4. CleanRow(row)
  BY <1>1, <1>2, <1>3 DEF CleanRow, Row
<1>5. ASSUME NEW x \in Columns
      PROVE  Bit(row, x) <=> \E w \in Rows : w - y \in -dy .. dy /\ Bit(layer[w], x)
  <2>1. x \div WordBits \in Words
    BY CellBit DEF Columns
  <2>2. QED
    BY <1>1, <1>2, <2>1 DEF Bit
<1>6. QED
  BY <1>4, <1>5 DEF row

\* dilate2d_into dilates a layer by a box.
LEMMA LayerBit ==
  ASSUME NEW layer, \A y \in Rows : CleanRow(layer[y]), NEW r \in Reaches, NEW y \in Rows
  PROVE  /\ CleanRow(DilateLayer(layer, r)[y])
         /\ \A x \in Columns :
              Bit(DilateLayer(layer, r)[y], x) <=>
                \E w \in Rows, z \in Columns :
                  x - z \in -r.x .. r.x /\ y - w \in -r.y .. r.y /\ Bit(layer[w], z)
<1>1. r.x \in 0 .. WordBits - 1 /\ r.y \in Nat
  OBVIOUS
<1> DEFINE dx == r.x
           dy == r.y
           near == YPass(layer, dy)[y]
           row == DilateLayer(layer, r)[y]
<1>2. row = XPass(near, dx)
  BY DEF DilateLayer
<1>3. dx \in 0 .. WordBits - 1 /\ dy \in Nat
  BY <1>1
<1> HIDE DEF dx, dy, row
<1>4. /\ CleanRow(near)
      /\ \A x \in Columns :
           Bit(near, x) <=> \E w \in Rows : w - y \in -dy .. dy /\ Bit(layer[w], x)
  BY <1>3, YPassBit
<1> HIDE DEF near
<1>5. /\ CleanRow(row)
      /\ \A x \in Columns :
           Bit(row, x) <=> \E z \in Columns : x - z \in -dx .. dx /\ Bit(near, z)
  BY <1>2, <1>3, <1>4, XPassBit
<1>6. \A w \in Rows : w - y \in -dy .. dy <=> y - w \in -dy .. dy
  BY <1>3 DEF Rows
<1>7. ASSUME NEW x \in Columns
      PROVE  Bit(row, x) <=>
               \E w \in Rows, z \in Columns :
                 x - z \in -dx .. dx /\ y - w \in -dy .. dy /\ Bit(layer[w], z)
  BY <1>4, <1>5, <1>6
<1>8. QED
  BY <1>5, <1>7 DEF row, dx, dy

\* Turning is a step around the circle of headings, and turning back undoes it.
LEMMA TurnFacts ==
  ASSUME NEW t \in Layers, NEW k \in -NTheta .. NTheta
  PROVE  Turn(t, k) \in Layers /\ Turn(Turn(t, k), -k) = t
<1> DEFINE n == t + k + NTheta
           q == n \div NTheta
           u == n % NTheta
<1>1. n \in Nat /\ n < 3 * NTheta
  BY DEF Layers
<1>2. n = t + k + NTheta
  OBVIOUS
<1> HIDE DEF n
<1>3. q \in Nat /\ u \in 0 .. NTheta - 1 /\ n = NTheta * q + u
  BY <1>1, DivMod
<1>4. Turn(t, k) = u
  BY DEF Turn, n
<1> HIDE DEF q, u
<1>5. q <= 2
  <2>1. CASE q >= 3
    <3>1. q - 3 \in Nat /\ NTheta * q = 3 * NTheta + NTheta * (q - 3)
      BY <1>3, <2>1
    <3>2. NTheta * (q - 3) \in Nat
      BY <3>1
    <3>3. QED
      BY <1>1, <1>3, <3>1, <3>2
  <2>2. QED
    BY <1>3, <2>1
<1> DEFINE m == u + (-k) + NTheta
           p == m \div NTheta
           v == m % NTheta
<1>6. m = NTheta * (2 - q) + t /\ 2 - q \in Nat
  <2>1. NTheta * (2 - q) = 2 * NTheta - NTheta * q
    BY <1>3
  <2>2. QED
    BY <1>2, <1>3, <1>5, <2>1 DEF Layers
<1>7. m \in Nat
  BY <1>3
<1>8. Turn(u, -k) = v
  BY DEF Turn
<1> HIDE DEF m
<1>9. p \in Nat /\ v \in 0 .. NTheta - 1 /\ m = NTheta * p + v
  BY <1>7, DivMod
<1> HIDE DEF p, v
<1>10. v = t
  <2> DEFINE w == 2 - q
  <2>1. w \in Nat /\ t \in 0 .. NTheta - 1 /\ NTheta * w + t = NTheta * p + v
    BY <1>6, <1>9 DEF Layers
  <2> HIDE DEF w
  <2>2. QED
    BY <1>9, <2>1, QuotientUnique
<1>11. QED
  BY <1>3, <1>4, <1>8, <1>10 DEF Layers

\* dilate3d dilates the set of cells by a box, around the circle of headings.
LEMMA DilateFacts ==
  ASSUME NEW b \in Board, Clean(b), NEW r \in Reaches
  PROVE  /\ DilateBoard(b, r) \in Board /\ Clean(DilateBoard(b, r))
         /\ ToLogical(DilateBoard(b, r)) =
              {c \in Cells : \E d \in ToLogical(b) : Sets!Within(c, d, r)}
<1> DEFINE temp == [t \in Layers |-> DilateLayer(b[t], r)]
           n == DilateBoard(b, r)
           turns == -r.t .. r.t
<1>1. \A k \in turns : k \in -NTheta .. NTheta /\ -k \in turns
  BY NTheta \in Nat
<1>2. n = [t \in Layers |-> [y \in Rows |-> [i \in Words |->
             UNION {temp[Turn(t, k)][y][i] : k \in turns}]]]
  BY DEF DilateBoard
<1>3. ASSUME NEW t \in Layers, NEW y \in Rows
      PROVE  /\ CleanRow(temp[t][y])
             /\ \A x \in Columns :
                  Bit(temp[t][y], x) <=>
                    \E w \in Rows, z \in Columns :
                      x - z \in -r.x .. r.x /\ y - w \in -r.y .. r.y /\ Bit(b[t][w], z)
  <2>1. \A w \in Rows : CleanRow(b[t][w])
    BY DEF CleanRow, Clean, Board, Layer
  <2>2. temp[t] = DilateLayer(b[t], r)
    OBVIOUS
  <2>3. QED
    BY <2>1, <2>2, LayerBit
<1> HIDE DEF temp, n, turns
<1>4. ASSUME NEW t \in Layers, NEW k \in turns
      PROVE  Turn(t, k) \in Layers /\ Turn(Turn(t, k), -k) = t
  BY <1>1, TurnFacts
<1>5. ASSUME NEW t \in Layers, NEW y \in Rows, NEW i \in Words
      PROVE  n[t][y][i] \subseteq RowMask[i] /\ n[t][y][i] \subseteq Bits
  <2>1. \A k \in turns : CleanRow(temp[Turn(t, k)][y])
    BY <1>3, <1>4
  <2>2. n[t][y][i] = UNION {temp[Turn(t, k)][y][i] : k \in turns}
    BY <1>2
  <2>3. QED
    BY <2>1, <2>2 DEF CleanRow, Row
<1>6. n \in Board /\ Clean(n)
  BY <1>2, <1>5 DEF Board, Layer, Row, Clean
<1>7. ASSUME NEW c \in Cells
      PROVE  c \in ToLogical(n) <=> \E d \in ToLogical(b) : Sets!Within(c, d, r)
  <2>1. /\ c[1] \in Columns /\ c[2] \in Rows /\ c[3] \in Layers
        /\ c[1] \div WordBits \in Words
    BY CellBit DEF Cells, Columns, Rows, Layers
  <2>2. c \in ToLogical(n) <=> \E k \in turns : Bit(temp[Turn(c[3], k)][c[2]], c[1])
    <3>1. c \in ToLogical(n) <=> Bit(n[c[3]][c[2]], c[1])
      BY <1>6, ToLogicalBit
    <3>2. Bit(n[c[3]][c[2]], c[1]) <=>
            \E k \in turns : Bit(temp[Turn(c[3], k)][c[2]], c[1])
      BY <1>2, <2>1 DEF Bit
    <3>3. QED
      BY <3>1, <3>2
  <2>3. \A d \in Cells : Sets!Within(c, d, r) <=>
          /\ c[1] - d[1] \in -r.x .. r.x /\ c[2] - d[2] \in -r.y .. r.y
          /\ \E k \in turns : c[3] = Turn(d[3], k)
    BY DEF Sets!Within, Turn, turns
  <2>4. ASSUME NEW k \in turns, Bit(temp[Turn(c[3], k)][c[2]], c[1])
        PROVE  \E d \in ToLogical(b) : Sets!Within(c, d, r)
    <3>1. Turn(c[3], k) \in Layers /\ Turn(Turn(c[3], k), -k) = c[3] /\ -k \in turns
      BY <1>1, <1>4, <2>1
    <3>2. PICK w \in Rows, z \in Columns :
            /\ c[1] - z \in -r.x .. r.x /\ c[2] - w \in -r.y .. r.y
            /\ Bit(b[Turn(c[3], k)][w], z)
      BY <1>3, <2>1, <2>4, <3>1
    <3> DEFINE d == <<z, w, Turn(c[3], k)>>
    <3>3. d \in Cells
      BY <3>1, <3>2 DEF Cells, Columns, Rows, Layers
    <3>4. d \in ToLogical(b)
      BY <3>2, <3>3, ToLogicalBit
    <3>5. Sets!Within(c, d, r)
      BY <2>3, <3>1, <3>2, <3>3
    <3>6. QED
      BY <3>4, <3>5
  <2>5. ASSUME NEW d \in ToLogical(b), Sets!Within(c, d, r)
        PROVE  \E k \in turns : Bit(temp[Turn(c[3], k)][c[2]], c[1])
    <3>1. d \in Cells /\ Bit(b[d[3]][d[2]], d[1])
      BY ToLogicalCells, ToLogicalBit
    <3>2. d[1] \in Columns /\ d[2] \in Rows /\ d[3] \in Layers
      BY <3>1 DEF Cells, Columns, Rows, Layers
    <3>3. PICK k \in turns : c[3] = Turn(d[3], k)
      BY <2>3, <2>5, <3>1
    <3>4. Turn(c[3], -k) = d[3] /\ -k \in turns
      BY <1>1, <1>4, <3>2, <3>3
    <3>5. Bit(temp[d[3]][c[2]], c[1])
      BY <1>3, <2>1, <2>3, <2>5, <3>1, <3>2
    <3>6. QED
      BY <3>4, <3>5
  <2>6. QED
    BY <2>2, <2>4, <2>5
<1>8. ToLogical(n) = {c \in Cells : \E d \in ToLogical(b) : Sets!Within(c, d, r)}
  BY <1>7, ToLogicalCells
<1>9. QED
  BY <1>6, <1>8 DEF n

-----------------------------------------------------------------------------
(* Cells and words. *)

\* The cell of a bit.
LEMMA CellOf ==
  ASSUME NEW b \in Board, Clean(b),
         NEW t \in Layers, NEW y \in Rows, NEW i \in Words, NEW k \in b[t][y][i]
  PROVE  LET c == <<i * WordBits + k, y, t>>
         IN  /\ c \in ToLogical(b) /\ c \in Cells
             /\ c[1] \div WordBits = i /\ c[1] % WordBits = k
<1>1. k \in RowMask[i] /\ i \in Nat
  BY WordCount DEF Clean, Words
<1>2. k \in Bits /\ i * WordBits + k \in 0 .. MapX - 1
  BY <1>1, MaskedBit
<1>3. (i * WordBits + k) \div WordBits = i /\ (i * WordBits + k) % WordBits = k
  BY <1>1, <1>2, Position
<1>4. <<i * WordBits + k, y, t>> \in Cells
  BY <1>2 DEF Cells, Rows, Layers
<1>5. Bit(b[t][y], i * WordBits + k)
  BY <1>3 DEF Bit
<1>6. <<i * WordBits + k, y, t>> \in ToLogical(b)
  BY <1>4, <1>5, ToLogicalBit
<1>7. QED
  BY <1>3, <1>4, <1>6

\* The bit of a cell.
LEMMA BitOf ==
  ASSUME NEW b \in Board, NEW c \in ToLogical(b)
  PROVE  /\ c \in Cells /\ c[1] \in Nat
         /\ c[1] \div WordBits \in Words /\ c[2] \in Rows /\ c[3] \in Layers
         /\ c[1] % WordBits \in b[c[3]][c[2]][c[1] \div WordBits]
         /\ c = <<(c[1] \div WordBits) * WordBits + (c[1] % WordBits), c[2], c[3]>>
<1>1. c \in Cells /\ Bit(b[c[3]][c[2]], c[1])
  BY ToLogicalCells, ToLogicalBit
<1>2. /\ c[1] \in 0 .. MapX - 1 /\ c[1] \in Nat /\ c[2] \in Rows /\ c[3] \in Layers
      /\ c = <<c[1], c[2], c[3]>>
  BY <1>1 DEF Cells, Rows, Layers
<1>3. QED
  BY <1>1, <1>2, CellBit, PositionOf DEF Bit

\* popcount counts the cells.
LEMMA PopcountFacts ==
  ASSUME NEW b \in Board, Clean(b)
  PROVE  Popcount(b) = Cardinality(ToLogical(b))
<1> DEFINE All == Layers \X Rows \X Words \X Bits
           Q == {q \in All : q[4] \in b[q[1]][q[2]][q[3]]}
           f == [q \in Q |-> <<q[3] * WordBits + q[4], q[2], q[1]>>]
<1>1. IsFiniteSet(Q)
  <2>1. IsFiniteSet(Layers) /\ IsFiniteSet(Rows) /\ IsFiniteSet(Words) /\ IsFiniteSet(Bits)
    BY WordCount, FS_Interval DEF Layers, Rows, Words, Bits
  <2> DEFINE Flat == Layers \X (Rows \X (Words \X Bits))
             g == [p \in Flat |-> <<p[1], p[2][1], p[2][2][1], p[2][2][2]>>]
  <2>2. IsFiniteSet(Flat)
    BY <2>1, FS_Product
  <2>3. \A q \in All : \E p \in Flat : g[p] = q
    <3>1. ASSUME NEW q \in All PROVE \E p \in Flat : g[p] = q
      <4> DEFINE p == <<q[1], <<q[2], <<q[3], q[4]>>>>>>
      <4>1. p \in Flat /\ q = <<q[1], q[2], q[3], q[4]>>
        OBVIOUS
      <4>2. g[p] = q
        BY <4>1
      <4>3. QED
        BY <4>1, <4>2
    <3>2. QED
      BY <3>1
  <2>4. g \in Surjection(Flat, All)
    <3>1. g \in [Flat -> All]
      OBVIOUS
    <3>2. QED
      BY <2>3, <3>1 DEF Surjection
  <2> HIDE DEF Flat, g, All
  <2>5. IsFiniteSet(All)
    BY <2>2, <2>4, FS_Surjection
  <2>6. QED
    BY <2>5, FS_Subset DEF Q
<1>2. \A q \in Q : /\ q[1] \in Layers /\ q[2] \in Rows /\ q[3] \in Words
                   /\ q[4] \in b[q[1]][q[2]][q[3]] /\ q = <<q[1], q[2], q[3], q[4]>>
  OBVIOUS
<1>3. \A c \in ToLogical(b) :
        <<c[3], c[2], c[1] \div WordBits, c[1] % WordBits>> \in Q
  <2>1. ASSUME NEW c \in ToLogical(b)
        PROVE  <<c[3], c[2], c[1] \div WordBits, c[1] % WordBits>> \in Q
    <3>1. c[1] % WordBits \in Bits
      BY BitOf, PositionOf
    <3>2. QED
      BY <3>1, BitOf
  <2>2. QED
    BY <2>1
<1>4. \A q \in Q : f[q] = <<q[3] * WordBits + q[4], q[2], q[1]>>
  OBVIOUS
<1>5. DOMAIN f = Q /\ f = [q \in Q |-> f[q]]
  OBVIOUS
<1> HIDE DEF Q, f, All
<1>6. ASSUME NEW q \in Q
      PROVE  /\ f[q] \in ToLogical(b)
             /\ q = <<f[q][3], f[q][2], f[q][1] \div WordBits, f[q][1] % WordBits>>
  <2> DEFINE c == <<q[3] * WordBits + q[4], q[2], q[1]>>
  <2>1. c \in ToLogical(b) /\ c[1] \div WordBits = q[3] /\ c[1] % WordBits = q[4]
    BY <1>2, CellOf
  <2>2. c[2] = q[2] /\ c[3] = q[1] /\ f[q] = c
    BY <1>4
  <2> HIDE DEF c
  <2>3. QED
    BY <1>2, <2>1, <2>2
<1>7. ASSUME NEW c \in ToLogical(b)
      PROVE  \E q \in Q : f[q] = c
  <2> DEFINE q == <<c[3], c[2], c[1] \div WordBits, c[1] % WordBits>>
  <2>1. q \in Q
    BY <1>3
  <2>2. f[q] = <<(c[1] \div WordBits) * WordBits + (c[1] % WordBits), c[2], c[3]>>
    BY <1>4, <2>1
  <2>3. QED
    BY <2>1, <2>2, BitOf
<1>8. f \in Bijection(Q, ToLogical(b))
  <2>1. f \in [Q -> ToLogical(b)]
    BY <1>5, <1>6
  <2>2. \A p, q \in Q : f[p] = f[q] => p = q
    BY <1>6
  <2>3. QED
    BY <1>7, <2>1, <2>2 DEF Bijection, Injection, Surjection, IsInjective
<1>9. Cardinality(Q) = Cardinality(ToLogical(b))
  <2>1. ExistsBijection(Q, ToLogical(b))
    BY <1>8 DEF ExistsBijection
  <2>2. QED
    BY <1>1, <2>1, FS_Bijection
<1>10. QED
  BY <1>9 DEF Popcount, Q, All

-----------------------------------------------------------------------------
(* The order of the iteration. *)

\* Numbers of two digits are ordered by the first, then by the second.
LEMMA Digits ==
  ASSUME NEW n \in Nat \ {0}, NEW a \in Nat, NEW b \in Nat,
         NEW r \in 0 .. n - 1, NEW s \in 0 .. n - 1
  PROVE  /\ a * n + r \in Nat /\ b * n + s \in Nat
         /\ a * n + r < b * n + s <=> a < b \/ (a = b /\ r < s)
<1>1. ASSUME NEW i \in Nat, NEW j \in Nat, i < j PROVE i * n + n <= j * n
  <2>1. j - i - 1 \in Nat /\ j * n = i * n + n + (j - i - 1) * n
    BY <1>1
  <2>2. (j - i - 1) * n \in Nat /\ i * n \in Nat /\ j * n \in Nat
    BY <2>1
  <2>3. QED
    BY <2>1, <2>2
<1>2. a * n \in Nat /\ b * n \in Nat
  OBVIOUS
<1>3. CASE a < b
  BY <1>1, <1>2, <1>3
<1>4. CASE b < a
  BY <1>1, <1>2, <1>4
<1>5. CASE a = b
  BY <1>2, <1>5
<1>6. QED
  BY <1>2, <1>3, <1>4, <1>5

\* Words are numbered layer by layer and row by row.
LEMMA PlaceFacts ==
  ASSUME NEW t \in Layers, NEW y \in Rows, NEW i \in Words,
         NEW t2 \in Layers, NEW y2 \in Rows, NEW i2 \in Words
  PROVE  /\ Place(t, y, i) \in Nat /\ Place(t2, y2, i2) \in Nat
         /\ Place(t, y, i) < Place(t2, y2, i2) <=>
              t < t2 \/ (t = t2 /\ y < y2) \/ (t = t2 /\ y = y2 /\ i < i2)
         /\ Place(t, y, i) = Place(t2, y2, i2) <=> t = t2 /\ y = y2 /\ i = i2
<1> DEFINE a == t * MapY + y
           b == t2 * MapY + y2
<1>1. /\ t \in Nat /\ t2 \in Nat /\ y \in 0 .. MapY - 1 /\ y2 \in 0 .. MapY - 1
      /\ i \in 0 .. NWords - 1 /\ i2 \in 0 .. NWords - 1 /\ NWords \in Nat \ {0}
  BY WordCount DEF Layers, Rows, Words
<1>2. /\ a \in Nat /\ b \in Nat
      /\ a < b <=> t < t2 \/ (t = t2 /\ y < y2)
      /\ b < a <=> t2 < t \/ (t2 = t /\ y2 < y)
  BY <1>1, Digits
<1> HIDE DEF a, b
<1>3. /\ a * NWords + i \in Nat /\ b * NWords + i2 \in Nat
      /\ a * NWords + i < b * NWords + i2 <=> a < b \/ (a = b /\ i < i2)
      /\ b * NWords + i2 < a * NWords + i <=> b < a \/ (b = a /\ i2 < i)
  BY <1>1, <1>2, Digits
<1>4. Place(t, y, i) = a * NWords + i /\ Place(t2, y2, i2) = b * NWords + i2
  BY DEF Place, a, b
<1>5. a = b <=> t = t2 /\ y = y2
  BY <1>1, <1>2
<1>6. QED
  BY <1>1, <1>2, <1>3, <1>4, <1>5

\* Where the word of a cell is.
Spot(c) == Place(c[3], c[2], c[1] \div WordBits)

\* What an iterator at word i of row y in layer t has left.
Rest(b, t, y, i, w) ==
  {<<i * WordBits + k, y, t>> : k \in w} \union
  {c \in ToLogical(b) : t < NTheta /\ Place(c[3], c[2], c[1] \div WordBits) > Place(t, y, i)}

\* That is the cells of the bits it holds and those in later words.
LEMMA RestFacts ==
  ASSUME NEW b \in Board, Clean(b), NEW t \in Layers, NEW y \in Rows, NEW i \in Words,
         NEW w \in SUBSET b[t][y][i]
  PROVE  /\ Rest(b, t, y, i, w) \subseteq ToLogical(b)
         /\ \A c \in ToLogical(b) :
              c \in Rest(b, t, y, i, w) <=>
                Spot(c) > Place(t, y, i) \/
                  (c[3] = t /\ c[2] = y /\ c[1] \div WordBits = i /\ c[1] % WordBits \in w)
<1> DEFINE held == {<<i * WordBits + k, y, t>> : k \in w}
<1>1. \A k \in w : LET c == <<i * WordBits + k, y, t>>
                   IN  /\ c \in ToLogical(b) /\ c[1] \div WordBits = i
                       /\ c[1] % WordBits = k
  BY CellOf
<1>2. held \subseteq ToLogical(b)
  BY <1>1
<1>3. ASSUME NEW c \in ToLogical(b)
      PROVE  c \in held <=>
               c[3] = t /\ c[2] = y /\ c[1] \div WordBits = i /\ c[1] % WordBits \in w
  <2>1. ASSUME NEW k \in w, c = <<i * WordBits + k, y, t>>
        PROVE  c[3] = t /\ c[2] = y /\ c[1] \div WordBits = i /\ c[1] % WordBits \in w
    BY <1>1, <2>1
  <2>2. c = <<(c[1] \div WordBits) * WordBits + (c[1] % WordBits), c[2], c[3]>>
    BY BitOf
  <2>3. QED
    BY <2>1, <2>2
<1>4. t < NTheta
  BY DEF Layers
<1>5. QED
  BY <1>2, <1>3, <1>4 DEF Rest, Spot

-----------------------------------------------------------------------------
(* The invariant. *)

\* What the operations preserve: BoardSound without the count, which follows.
IInv == TypeOK /\ SpareBitsZero /\ CursorSound

\* A new board while no iterator borrows it.
LEMMA BecomesInv ==
  ASSUME IInv, NEW b \in Board, Clean(b), Becomes(b)
  PROVE  IInv'
BY DEF IInv, TypeOK, SpareBitsZero, CursorSound, Becomes, cursor, Clean

\* Every operation that changes the board.
LEMMA OperationInv ==
  ASSUME IInv, SetCell \/ Dilate \/ And \/ Or \/ Negate \/ Convert
  PROVE  IInv'
<1>1. board \in Board /\ Clean(board)
  BY DEF IInv, TypeOK, SpareBitsZero, Clean
<1>2. CASE SetCell
  <2>1. PICK c \in Cells : Becomes([board EXCEPT ![c[3]] = SetBit(@, c[1], c[2])])
    BY <1>2 DEF SetCell
  <2>2. QED
    BY <1>1, <2>1, SetBitFacts, BecomesInv
<1>3. CASE Dilate
  BY <1>1, <1>3, DilateFacts, BecomesInv DEF Dilate
<1>4. CASE And
  <2>1. PICK S \in Operands : Becomes(AndWords(board, FromLogical(S)))
    BY <1>4 DEF And
  <2>2. QED
    BY <1>1, <2>1, OperandAssumption, FromLogicalFacts, AndOrFacts, BecomesInv
<1>5. CASE Or
  <2>1. PICK S \in Operands : Becomes(OrWords(board, FromLogical(S)))
    BY <1>5 DEF Or
  <2>2. QED
    BY <1>1, <2>1, OperandAssumption, FromLogicalFacts, AndOrFacts, BecomesInv
<1>6. CASE Negate
  BY <1>1, <1>6, ComplementFacts, BecomesInv DEF Negate
<1>7. CASE Convert
  BY <1>1, <1>7, ToLogicalCells, FromLogicalFacts, BecomesInv DEF Convert
<1>8. QED
  BY <1>2, <1>3, <1>4, <1>5, <1>6, <1>7

\* Every step of the iterator.
LEMMA IterateInv ==
  ASSUME IInv, Begin \/ Iterate
  PROVE  IInv'
<1>1. board \in Board /\ Clean(board)
  BY DEF IInv, TypeOK, SpareBitsZero, Clean
<1>2. 0 \in Layers /\ 0 \in Rows /\ 0 \in Words
  BY WordCount DEF Layers, Rows, Words
<1>3. \A t \in Layers, y \in Rows, i \in Words : board[t][y][i] \subseteq Bits
  BY <1>1 DEF Board, Layer, Row
<1>4. CASE Begin
  <2>1. TypeOK'
    BY <1>2, <1>3, <1>4 DEF IInv, TypeOK, Begin
  <2>2. SpareBitsZero'
    BY <1>4 DEF IInv, SpareBitsZero, Begin
  <2>3. CursorSound'
    BY <1>4 DEF CursorSound, Begin
  <2>4. QED
    BY <2>1, <2>2, <2>3 DEF IInv
<1>5. CASE Advance
  <2>1. SpareBitsZero'
    BY <1>5 DEF IInv, SpareBitsZero, Advance
  <2>2. CASE it' = NTheta /\ iy' = 0 /\ wi' = 0 /\ word' = {}
    <3>1. TypeOK'
      BY <1>2, <1>5, <2>2 DEF IInv, TypeOK, Advance
    <3>2. CursorSound'
      BY <2>2 DEF CursorSound
    <3>3. QED
      BY <2>1, <3>1, <3>2 DEF IInv
  <2>3. ASSUME NEW q \in Later(it, iy, wi), it' = q[1], iy' = q[2], wi' = q[3],
               word' = board[q[1]][q[2]][q[3]]
        PROVE  IInv'
    <3>1. q[1] \in Layers /\ q[2] \in Rows /\ q[3] \in Words
      BY DEF Later
    <3>2. q[1] \in 0 .. NTheta /\ q[1] # NTheta
      BY <3>1 DEF Layers
    <3>3. TypeOK'
      BY <1>3, <1>5, <2>3, <3>1, <3>2 DEF IInv, TypeOK, Advance
    <3>4. CursorSound'
      BY <1>5, <2>3, <3>2 DEF CursorSound, Advance
    <3>5. QED
      BY <2>1, <3>3, <3>4 DEF IInv
  <2>4. QED
    BY <1>5, <2>2, <2>3 DEF Advance
<1>6. CASE TakeBit
  <2>1. PICK b \in word :
          /\ word' = word \ {b}
          /\ last' = IF wi * WordBits + b < MapX THEN <<wi * WordBits + b, iy, it>> ELSE last
    BY <1>6 DEF TakeBit
  <2>2. busy /\ it \in Layers /\ iy \in Rows /\ wi \in Words /\ word \subseteq board[it][iy][wi]
    BY <1>6 DEF IInv, TypeOK, CursorSound, TakeBit, Layers
  <2>3. <<wi * WordBits + b, iy, it>> \in Cells
    BY <1>1, <2>1, <2>2, CellOf
  <2>4. TypeOK'
    BY <1>6, <2>1, <2>3 DEF IInv, TypeOK, TakeBit
  <2>5. SpareBitsZero'
    BY <1>6 DEF IInv, SpareBitsZero, TakeBit
  <2>6. CursorSound'
    BY <1>6, <2>1 DEF IInv, CursorSound, TakeBit
  <2>7. QED
    BY <2>4, <2>5, <2>6 DEF IInv
<1>7. CASE Exhausted
  <2>1. 0 \in 0 .. NTheta
    OBVIOUS
  <2>2. TypeOK'
    BY <1>7, <2>1 DEF IInv, TypeOK, Exhausted
  <2>3. SpareBitsZero' /\ CursorSound'
    BY <1>7 DEF IInv, SpareBitsZero, CursorSound, Exhausted
  <2>4. QED
    BY <2>2, <2>3 DEF IInv
<1>8. QED
  BY <1>4, <1>5, <1>6, <1>7 DEF Iterate

\* The counter and the iterator agree with the bits.
LEMMA CountFacts ==
  ASSUME IInv
  PROVE  CountsAgree
<1>1. board \in Board /\ Clean(board)
  BY DEF IInv, TypeOK, SpareBitsZero, Clean
<1>2. {c \in Cells : TestBit(board[c[3]], c[1], c[2])} = ToLogical(board)
  <2>1. \A c \in Cells : TestBit(board[c[3]], c[1], c[2]) <=> Bit(board[c[3]][c[2]], c[1])
    BY DEF TestBit, Bit
  <2>2. QED
    BY <1>1, <2>1, ToLogicalBit, ToLogicalCells
<1>3. QED
  BY <1>1, <1>2, PopcountFacts DEF CountsAgree

\* The empty board.
LEMMA InitInv == Init => IInv
<1> SUFFICES ASSUME Init PROVE IInv
  OBVIOUS
<1>1. 0 \in Rows /\ 0 \in Words
  BY WordCount DEF Rows, Words
<1>2. Zero \in Board
  BY DEF Zero, Board, Layer, Row
<1>3. TypeOK
  <2>1. 0 \in 0 .. NTheta
    OBVIOUS
  <2>2. QED
    BY <1>1, <1>2, <2>1 DEF Init, TypeOK
<1>4. SpareBitsZero
  BY DEF Init, SpareBitsZero, Zero
<1>5. CursorSound
  BY DEF Init, CursorSound
<1>6. QED
  BY <1>3, <1>4, <1>5 DEF IInv

\* No step leaves the invariant.
LEMMA StepInv == IInv /\ [Next]_vars => IInv'
<1>1. IInv /\ UNCHANGED vars => IInv'
  BY DEF IInv, TypeOK, SpareBitsZero, CursorSound, vars
<1>2. IInv /\ Next => IInv'
  BY OperationInv, IterateInv DEF Next, Iterate
<1>3. QED
  BY <1>1, <1>2

\* Whatever is done to a board of any size, with words of any width, its spare
\* bits stay zero, popcount is the number of its cells, and an iterator holds
\* no bit the board does not have.
THEOREM BoardInvariant == Spec => []BoardSound
<1>1. IInv => BoardSound
  BY CountFacts DEF IInv, BoardSound
<1>2. Spec => []IInv
  BY InitInv, StepInv, PTL DEF Spec
<1>3. QED
  BY <1>1, <1>2, PTL

-----------------------------------------------------------------------------
(* The refinement. *)

\* A board replaced while no iterator borrows it is a set replaced.
LEMMA BecomesMaps ==
  ASSUME NEW b, Becomes(b)
  PROVE  Sets!Becomes(ToLogical(b)) /\ (ToLogical(b) = ToLogical(board) => UNCHANGED Sets!vars)
<1>1. ~busy /\ ~busy' /\ board' = b /\ UNCHANGED <<busy, last>>
  BY DEF Becomes, cursor
<1>2. Todo = {} /\ Todo' = {}
  BY <1>1 DEF Todo
<1>3. ToLogical(board)' = ToLogical(b)
  BY <1>1 DEF ToLogical
<1>4. QED
  BY <1>1, <1>2, <1>3 DEF Sets!Becomes, Sets!vars

\* The operations on the board are those on the set; a conversion to a set of
\* cells and back is no change.
LEMMA OperationMaps ==
  ASSUME IInv, SetCell \/ Dilate \/ And \/ Or \/ Negate \/ Convert
  PROVE  Sets!Change \/ UNCHANGED Sets!vars
<1> DEFINE S == ToLogical(board)
<1>1. board \in Board /\ Clean(board)
  BY DEF IInv, TypeOK, SpareBitsZero, Clean
<1>2. Sets!Cells = Cells
  BY DEF Sets!Cells, Cells
<1>3. CASE SetCell
  <2>1. PICK c \in Cells : Becomes([board EXCEPT ![c[3]] = SetBit(@, c[1], c[2])])
    BY <1>3 DEF SetCell
  <2>2. Sets!Becomes(S \union {c})
    BY <1>1, <2>1, SetBitFacts, BecomesMaps
  <2>3. QED
    BY <1>2, <2>2 DEF Sets!Change
<1>4. CASE Dilate
  <2>1. PICK r \in Reaches : Becomes(DilateBoard(board, r))
    BY <1>4 DEF Dilate
  <2>2. Sets!Becomes({c \in Cells : \E d \in S : Sets!Within(c, d, r)})
    BY <1>1, <2>1, DilateFacts, BecomesMaps
  <2>3. QED
    BY <1>2, <2>2 DEF Sets!Change
<1>5. CASE And
  <2>1. PICK T \in Operands : Becomes(AndWords(board, FromLogical(T)))
    BY <1>5 DEF And
  <2>2. Sets!Becomes(S \intersect T)
    <3>1. /\ FromLogical(T) \in Board /\ Clean(FromLogical(T))
          /\ ToLogical(FromLogical(T)) = T
      BY OperandAssumption, FromLogicalFacts
    <3>2. ToLogical(AndWords(board, FromLogical(T))) = S \intersect T
      BY <1>1, <3>1, AndOrFacts
    <3>3. QED
      BY <2>1, <3>2, BecomesMaps
  <2>3. QED
    BY <2>2 DEF Sets!Change
<1>6. CASE Or
  <2>1. PICK T \in Operands : Becomes(OrWords(board, FromLogical(T)))
    BY <1>6 DEF Or
  <2>2. Sets!Becomes(S \union T)
    <3>1. /\ FromLogical(T) \in Board /\ Clean(FromLogical(T))
          /\ ToLogical(FromLogical(T)) = T
      BY OperandAssumption, FromLogicalFacts
    <3>2. ToLogical(OrWords(board, FromLogical(T))) = S \union T
      BY <1>1, <3>1, AndOrFacts
    <3>3. QED
      BY <2>1, <3>2, BecomesMaps
  <2>3. QED
    BY <2>2 DEF Sets!Change
<1>7. CASE Negate
  <2>1. Sets!Becomes(Cells \ S)
    BY <1>1, <1>7, ComplementFacts, BecomesMaps DEF Negate
  <2>2. QED
    BY <1>2, <2>1 DEF Sets!Change
<1>8. CASE Convert
  BY <1>1, <1>8, ToLogicalCells, FromLogicalFacts, BecomesMaps DEF Convert
<1>9. QED
  BY <1>3, <1>4, <1>5, <1>6, <1>7, <1>8

\* An iterator has left what the board has from its position on.
LEMMA TodoRest ==
  /\ Todo = IF ~busy THEN {} ELSE Rest(board, it, iy, wi, word)
  /\ Todo' = IF ~busy' THEN {} ELSE Rest(board', it', iy', wi', word')
BY DEF Todo, Rest, ToLogical

\* A new iterator has the whole board before it.
LEMMA BeginMaps ==
  ASSUME IInv, Begin
  PROVE  Sets!Begin
<1>1. board \in Board /\ Clean(board)
  BY DEF IInv, TypeOK, SpareBitsZero, Clean
<1>2. 0 \in Layers /\ 0 \in Rows /\ 0 \in Words
  BY WordCount DEF Layers, Rows, Words
<1> DEFINE w == board[0][0][0]
<1>3. /\ ~busy /\ busy' = TRUE /\ last' = None /\ board' = board
      /\ it' = 0 /\ iy' = 0 /\ wi' = 0 /\ word' = w
  BY DEF Begin
<1>4. Todo' = Rest(board, 0, 0, 0, w)
  BY <1>3, TodoRest
<1> HIDE DEF w
<1>5. w \in SUBSET board[0][0][0]
  BY DEF w
<1>6. ASSUME NEW c \in ToLogical(board)
      PROVE  c \in Rest(board, 0, 0, 0, w)
  <2> DEFINE i == c[1] \div WordBits
  <2>1. /\ i \in Words /\ c[2] \in Rows /\ c[3] \in Layers
        /\ c[1] % WordBits \in board[c[3]][c[2]][i]
    BY <1>1, BitOf
  <2>2. Spot(c) = Place(c[3], c[2], i)
    BY DEF Spot
  <2> HIDE DEF i
  <2>3. i >= 0 /\ c[2] >= 0 /\ c[3] >= 0
    BY <2>1, WordCount DEF Words, Rows, Layers
  <2>4. Spot(c) > Place(0, 0, 0) \/ (c[3] = 0 /\ c[2] = 0 /\ i = 0)
    <3>1. /\ Spot(c) \in Nat /\ Place(0, 0, 0) \in Nat
          /\ Place(0, 0, 0) < Spot(c) <=>
               0 < c[3] \/ (0 = c[3] /\ 0 < c[2]) \/ (0 = c[3] /\ 0 = c[2] /\ 0 < i)
      BY <1>2, <2>1, <2>2, PlaceFacts
    <3>2. i \in Nat /\ c[2] \in Nat /\ c[3] \in Nat
      BY <2>1, WordCount DEF Words, Rows, Layers
    <3>3. QED
      BY <3>1, <3>2
  <2>5. QED
    BY <1>1, <1>2, <1>5, <2>1, <2>4, RestFacts DEF i, w
<1>7. Rest(board, 0, 0, 0, w) = ToLogical(board)
  BY <1>1, <1>2, <1>5, <1>6, RestFacts
<1>8. ToLogical(board)' = ToLogical(board)
  BY <1>3 DEF ToLogical
<1>9. QED
  BY <1>3, <1>4, <1>7, <1>8 DEF Sets!Begin

\* advance passes over empty words only.
LEMMA AdvanceMaps ==
  ASSUME IInv, Advance
  PROVE  UNCHANGED Sets!vars
<1>1. board \in Board /\ Clean(board)
  BY DEF IInv, TypeOK, SpareBitsZero, Clean
<1>2. /\ busy /\ busy' /\ word = {} /\ last' = last /\ board' = board /\ busy' = busy
      /\ it \in Layers /\ iy \in Rows /\ wi \in Words
  BY DEF IInv, TypeOK, Advance, Layers
<1>3. Todo = Rest(board, it, iy, wi, {}) /\ Todo' = Rest(board, it', iy', wi', word')
  BY <1>2, TodoRest
<1>4. /\ Todo \subseteq ToLogical(board)
      /\ \A c \in ToLogical(board) : c \in Todo <=> Spot(c) > Place(it, iy, wi)
  BY <1>1, <1>2, <1>3, RestFacts
<1>5. ASSUME NEW c \in ToLogical(board), Spot(c) > Place(it, iy, wi)
      PROVE  <<c[3], c[2], c[1] \div WordBits>> \in Later(it, iy, wi)
  BY <1>1, <1>5, BitOf DEF Later, Spot
<1>6. CASE Later(it, iy, wi) = {} /\ it' = NTheta /\ word' = {}
  <2>1. Todo = {}
    BY <1>4, <1>5, <1>6
  <2>2. Todo' = {}
    BY <1>3, <1>6 DEF Rest
  <2>3. ToLogical(board)' = ToLogical(board)
    BY <1>2 DEF ToLogical
  <2>4. QED
    BY <1>2, <2>1, <2>2, <2>3 DEF Sets!vars
<1>7. ASSUME NEW q \in Later(it, iy, wi),
             \A p \in Later(it, iy, wi) : Place(q[1], q[2], q[3]) <= Place(p[1], p[2], p[3]),
             it' = q[1], iy' = q[2], wi' = q[3], word' = board[q[1]][q[2]][q[3]]
      PROVE  UNCHANGED Sets!vars
  <2> DEFINE t == q[1]
             y == q[2]
             i == q[3]
             w == board[t][y][i]
  <2>1. t \in Layers /\ y \in Rows /\ i \in Words /\ Place(t, y, i) > Place(it, iy, wi)
    BY DEF Later
  <2>2. /\ it' = t /\ iy' = y /\ wi' = i /\ word' = w /\ w \in SUBSET board[t][y][i]
        /\ \A p \in Later(it, iy, wi) : Place(t, y, i) <= Place(p[1], p[2], p[3])
    BY <1>7
  <2> HIDE DEF t, y, i
  <2>3. /\ Todo' \subseteq ToLogical(board)
        /\ \A c \in ToLogical(board) :
             c \in Todo' <=>
               Spot(c) > Place(t, y, i) \/
                 (c[3] = t /\ c[2] = y /\ c[1] \div WordBits = i /\ c[1] % WordBits \in w)
    BY <1>1, <1>3, <2>1, <2>2, RestFacts
  <2>4. ASSUME NEW c \in ToLogical(board)
        PROVE  c \in Todo <=> c \in Todo'
    <3> DEFINE x == c[1] \div WordBits
    <3>1. /\ x \in Words /\ c[2] \in Rows /\ c[3] \in Layers
          /\ c[1] % WordBits \in board[c[3]][c[2]][x]
      BY <1>1, BitOf
    <3>2. Spot(c) = Place(c[3], c[2], x)
      BY DEF Spot
    <3> HIDE DEF x
    <3>3. /\ Spot(c) \in Nat /\ Place(t, y, i) \in Nat /\ Place(it, iy, wi) \in Nat
          /\ Spot(c) = Place(t, y, i) <=> c[3] = t /\ c[2] = y /\ x = i
      BY <1>2, <2>1, <3>1, <3>2, PlaceFacts
    <3>4. ASSUME Spot(c) > Place(it, iy, wi) PROVE Place(t, y, i) <= Spot(c)
      <4>1. <<c[3], c[2], x>> \in Later(it, iy, wi)
        BY <1>5, <3>4 DEF x
      <4>2. QED
        BY <2>2, <3>2, <4>1
    <3>5. (c[3] = t /\ c[2] = y /\ x = i) => c[1] % WordBits \in w
      BY <3>1
    <3>6. c \in Todo' <=> Spot(c) >= Place(t, y, i)
      BY <2>3, <3>3, <3>5 DEF x
    <3>7. QED
      BY <1>4, <2>1, <3>3, <3>4, <3>6
  <2>5. Todo' = Todo
    BY <1>4, <2>3, <2>4
  <2>6. ToLogical(board)' = ToLogical(board)
    BY <1>2 DEF ToLogical
  <2>7. QED
    BY <1>2, <2>5, <2>6 DEF Sets!vars
<1>8. QED
  BY <1>6, <1>7 DEF Advance

\* The bit that is taken is the least cell left.
LEMMA TakeBitMaps ==
  ASSUME IInv, TakeBit
  PROVE  Sets!Return
<1>1. board \in Board /\ Clean(board)
  BY DEF IInv, TypeOK, SpareBitsZero, Clean
<1>2. PICK b \in word :
        /\ \A k \in word : b <= k
        /\ word' = word \ {b}
        /\ last' = IF wi * WordBits + b < MapX THEN <<wi * WordBits + b, iy, it>> ELSE last
  BY DEF TakeBit
<1>3. /\ busy /\ busy' = busy /\ board' = board /\ it' = it /\ iy' = iy /\ wi' = wi
      /\ it \in Layers /\ iy \in Rows /\ wi \in Words /\ word \in SUBSET board[it][iy][wi]
  BY DEF IInv, TypeOK, CursorSound, TakeBit, Layers
<1> DEFINE c == <<wi * WordBits + b, iy, it>>
<1>4. /\ c \in ToLogical(board) /\ c \in Cells
      /\ c[1] \div WordBits = wi /\ c[1] % WordBits = b /\ c[2] = iy /\ c[3] = it
  BY <1>1, <1>3, CellOf
<1>5. last' = c
  <2>1. c[1] \in 0 .. MapX - 1
    BY <1>4 DEF Cells
  <2>2. QED
    BY <1>2, <2>1
<1> HIDE DEF c
<1>6. /\ Todo = Rest(board, it, iy, wi, word)
      /\ Todo' = Rest(board, it, iy, wi, word \ {b})
  BY <1>2, <1>3, TodoRest
<1>7. /\ Todo \subseteq ToLogical(board) /\ Todo' \subseteq ToLogical(board)
      /\ \A d \in ToLogical(board) :
           /\ d \in Todo <=>
                Spot(d) > Place(it, iy, wi) \/
                (d[3] = it /\ d[2] = iy /\ d[1] \div WordBits = wi /\ d[1] % WordBits \in word)
           /\ d \in Todo' <=>
                Spot(d) > Place(it, iy, wi) \/
                (d[3] = it /\ d[2] = iy /\ d[1] \div WordBits = wi
                   /\ d[1] % WordBits \in word \ {b})
  BY <1>1, <1>3, <1>6, RestFacts
<1>8. Spot(c) = Place(it, iy, wi) /\ Place(it, iy, wi) \in Nat
  BY <1>3, <1>4, PlaceFacts DEF Spot
<1>9. c \in Todo
  BY <1>4, <1>7
<1>10. ASSUME NEW d \in ToLogical(board)
       PROVE  d = c <=>
                d[3] = it /\ d[2] = iy /\ d[1] \div WordBits = wi /\ d[1] % WordBits = b
  <2>1. d = <<(d[1] \div WordBits) * WordBits + (d[1] % WordBits), d[2], d[3]>>
    BY <1>1, BitOf
  <2>2. c = <<wi * WordBits + b, iy, it>>
    BY DEF c
  <2>3. QED
    BY <1>4, <2>1, <2>2
<1>11. Todo' = Todo \ {c}
  <2>1. ASSUME NEW d \in ToLogical(board)
        PROVE  d \in Todo' <=> d \in Todo /\ d # c
    BY <1>7, <1>8, <1>10
  <2>2. QED
    BY <1>7, <2>1
<1>12. ASSUME NEW d \in Todo \ {c}
       PROVE  Sets!Precedes(c, d)
  <2> DEFINE i == d[1] \div WordBits
             k == d[1] % WordBits
  <2>1. /\ d \in ToLogical(board) /\ i \in Words /\ d[2] \in Rows /\ d[3] \in Layers
        /\ k \in board[d[3]][d[2]][i] /\ d[1] \in Nat
    BY <1>1, <1>7, BitOf
  <2>2. /\ i * WordBits + k = d[1] /\ k \in 0 .. WordBits - 1 /\ i \in Nat
        /\ wi * WordBits + b = c[1] /\ b \in 0 .. WordBits - 1 /\ wi \in Nat
        /\ c[1] \in Nat
    <3>1. c[1] \in Nat
      BY <1>4 DEF Cells
    <3>2. QED
      BY <1>4, <2>1, <3>1, PositionOf DEF Bits
  <2>3. c[1] < d[1] <=> wi < i \/ (wi = i /\ b < k)
    <3>1. wi * WordBits + b < i * WordBits + k <=> wi < i \/ (wi = i /\ b < k)
      BY <2>2, Digits
    <3>2. QED
      BY <2>2, <3>1
  <2>4. Spot(d) = Place(d[3], d[2], i)
    BY DEF Spot
  <2>5. \/ Spot(d) > Place(it, iy, wi)
        \/ d[3] = it /\ d[2] = iy /\ i = wi /\ k \in word
    BY <1>7, <2>1
  <2>6. ~(d[3] = it /\ d[2] = iy /\ i = wi /\ k = b)
    BY <1>10, <2>1
  <2> HIDE DEF i, k
  <2>7. CASE Spot(d) > Place(it, iy, wi)
    <3>1. it < d[3] \/ (it = d[3] /\ iy < d[2]) \/ (it = d[3] /\ iy = d[2] /\ wi < i)
      BY <1>3, <1>8, <2>1, <2>4, <2>7, PlaceFacts
    <3>2. QED
      BY <1>4, <2>3, <3>1 DEF Sets!Precedes
  <2>8. CASE d[3] = it /\ d[2] = iy /\ i = wi /\ k \in word
    <3>1. b < k
      BY <1>2, <2>2, <2>6, <2>8
    <3>2. QED
      BY <1>4, <2>3, <2>8, <3>1 DEF Sets!Precedes
  <2>9. QED
    BY <2>5, <2>7, <2>8
<1>13. ToLogical(board)' = ToLogical(board)
  BY <1>3 DEF ToLogical
<1>14. QED
  BY <1>3, <1>5, <1>9, <1>11, <1>12, <1>13 DEF Sets!Return

\* next() returns None when nothing is left.
LEMMA ExhaustedMaps ==
  ASSUME IInv, Exhausted
  PROVE  Sets!End
<1>1. /\ busy /\ busy' = FALSE /\ last' = None /\ board' = board /\ word = {} /\ it = NTheta
  BY DEF Exhausted
<1>2. Todo = {} /\ Todo' = {}
  <2>1. ~(it < NTheta)
    BY <1>1
  <2>2. QED
    BY <1>1, <2>1 DEF Todo
<1>3. ToLogical(board)' = ToLogical(board)
  BY <1>1 DEF ToLogical
<1>4. QED
  BY <1>1, <1>2, <1>3 DEF Sets!End

\* The empty board is the empty set.
LEMMA InitMaps == Init => Sets!Init
<1> SUFFICES ASSUME Init PROVE Sets!Init
  OBVIOUS
<1>1. ToLogical(board) = {}
  BY DEF Init, Zero, ToLogical, Cells, Rows, Layers
<1>2. Todo = {}
  BY DEF Init, Todo
<1>3. QED
  BY <1>1, <1>2 DEF Init, Sets!Init

\* Word by word, the bitboards are sets of cells: shifts with a carry dilate,
\* the row mask makes complement the set difference, and the iterator returns
\* every cell once and in order, on boards of any size with words of any width.
THEOREM BoardsAreSets == Spec => ImplementsSets
<1>1. IInv /\ Next => Sets!Next \/ UNCHANGED Sets!vars
  <2>1. IInv /\ (SetCell \/ Dilate \/ And \/ Or \/ Negate \/ Convert) =>
          Sets!Next \/ UNCHANGED Sets!vars
    BY OperationMaps DEF Sets!Next
  <2>2. IInv /\ (Begin \/ Iterate) => Sets!Next \/ UNCHANGED Sets!vars
    BY BeginMaps, AdvanceMaps, TakeBitMaps, ExhaustedMaps DEF Iterate, Sets!Next
  <2>3. QED
    BY <2>1, <2>2 DEF Next, Iterate
<1>2. UNCHANGED vars => UNCHANGED Sets!vars
  BY DEF vars, Sets!vars, Todo, ToLogical
<1>3. IInv /\ [Next]_vars => [Sets!Next]_(Sets!vars)
  BY <1>1, <1>2
<1>4. QED
  BY <1>3, InitInv, StepInv, InitMaps, PTL DEF Spec, ImplementsSets, Sets!Spec

=============================================================================
