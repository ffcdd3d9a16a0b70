------------------------------ MODULE Bitboards ------------------------------
(***************************************************************************)
(* The bitboards of vi_reference, word by word: rows packed into words of  *)
(* WordBits bits, box dilation by shifts with a carry from the next word,  *)
(* complement under a row mask, and the lazy iterator over set bits.       *)
(*                                                                         *)
(* A word is the set of its bit positions.  A row whose length is no       *)
(* multiple of WordBits has spare bits in its last word, which have to     *)
(* stay zero.  Bitboard2D is the board with one layer.                     *)
(***************************************************************************)
EXTENDS Integers, FiniteSets

CONSTANTS
  WordBits, \* 64 in the code
  MapX, MapY, NTheta,
  Reaches, Operands, None,
  MaxSet    \* bound: set() is called on boards of fewer cells

ASSUME BoardAssumption ==
  /\ WordBits \in Nat \ {0} /\ MapX \in Nat \ {0}
  /\ MapY \in Nat \ {0} /\ NTheta \in Nat \ {0}
  /\ \A r \in Reaches : /\ r.x \in 0 .. WordBits - 1 /\ r.y \in Nat
                        /\ r.t \in 0 .. NTheta
  /\ MaxSet \in Nat

Cells == (0 .. MapX - 1) \X (0 .. MapY - 1) \X (0 .. NTheta - 1)

ASSUME OperandAssumption == \A S \in Operands : S \subseteq Cells

Bits == 0 .. WordBits - 1
Rows == 0 .. MapY - 1
Layers == 0 .. NTheta - 1

\* words_per_row
NWords == (MapX + WordBits - 1) \div WordBits
Words == 0 .. NWords - 1

RowMask ==
  [i \in Words |-> IF i = NWords - 1 /\ MapX % WordBits # 0
                   THEN 0 .. (MapX % WordBits) - 1 ELSE Bits]

Row == [Words -> SUBSET Bits]
Layer == [Rows -> Row]
Board == [Layers -> Layer]
Zero == [t \in Layers |-> [y \in Rows |-> [i \in Words |-> {}]]]

VARIABLES
  board,
  busy,       \* an iterator borrows the board
  it, iy, wi, \* the iterator's position
  word,       \* what it has left of the word there
  last        \* what next() returned last

vars == <<board, busy, it, iy, wi, word, last>>
cursor == <<busy, it, iy, wi, word, last>>

TypeOK ==
  /\ board \in Board
  /\ busy \in BOOLEAN
  /\ it \in 0 .. NTheta /\ iy \in Rows /\ wi \in Words /\ word \in SUBSET Bits
  /\ last \in Cells \union {None}
-----------------------------------------------------------------------------
(* Words and rows. *)

SetBit(layer, x, y) ==
  [layer EXCEPT ![y][x \div WordBits] = @ \union {x % WordBits}]
TestBit(layer, x, y) == x % WordBits \in layer[y][x \div WordBits]

\* wrapping_shl and wrapping_shr.
Shl(w, n) == {b \in Bits : b - n \in w}
Shr(w, n) == {b \in Bits : b + n \in w}

\* Broken: the carry comes from the low end of the word before.
CarryUpLow(w, n) == w \intersect (0 .. n - 1)

\* The bits that a shift by n carries over from the word before and after.
CarryUp(w, n) == Shr(w, WordBits - n)
CarryDown(w, n) == Shl(w, WordBits - n)

\* shift_row: towards higher x for n > 0.
ShiftRow(row, n) ==
  [i \in Words |->
     RowMask[i] \intersect
       IF n >= 0
       THEN Shl(row[i], n) \union IF i > 0 THEN CarryUp(row[i - 1], n) ELSE {}
       ELSE Shr(row[i], -n) \union IF i + 1 < NWords THEN CarryDown(row[i + 1], -n) ELSE {}]
-----------------------------------------------------------------------------
(* Dilation. *)

\* Rows within dy of row y.
NearRows(y, dy) == {r \in Rows : r - y \in -dy .. dy}

\* dilate2d_into, vertical and horizontal pass.
YPass(layer, dy) ==
  [y \in Rows |-> [i \in Words |-> UNION {layer[r][i] : r \in NearRows(y, dy)}]]
XPass(row, dx) ==
  [i \in Words |->
     RowMask[i] \intersect (row[i] \union UNION {ShiftRow(row, n)[i] : n \in -dx .. dx})]
DilateLayer(layer, r) == [y \in Rows |-> XPass(YPass(layer, r.y)[y], r.x)]

\* The layer k headings on.
Turn(t, k) == (t + k + NTheta) % NTheta

\* dilate3d: the layers around the circle, all read after their own dilation.
DilateBoard(b, r) ==
  LET temp == [t \in Layers |-> DilateLayer(b[t], r)]
  IN  [t \in Layers |-> [y \in Rows |-> [i \in Words |->
         UNION {temp[Turn(t, k)][y][i] : k \in -r.t .. r.t}]]]
-----------------------------------------------------------------------------
(* Word by word operations and conversions. *)

\* Broken: without the row mask.
ComplementAll(b) ==
  [t \in Layers |-> [y \in Rows |-> [i \in Words |-> Bits \ b[t][y][i]]]]

\* complement_rows
Complement(b) ==
  [t \in Layers |-> [y \in Rows |-> [i \in Words |->
     (Bits \ b[t][y][i]) \intersect RowMask[i]]]]

AndWords(a, b) ==
  [t \in Layers |-> [y \in Rows |-> [i \in Words |-> a[t][y][i] \intersect b[t][y][i]]]]
OrWords(a, b) ==
  [t \in Layers |-> [y \in Rows |-> [i \in Words |-> a[t][y][i] \union b[t][y][i]]]]

\* from_logical, to_logical: the board of a set of cells, the cells of a board.
FromLogical(S) ==
  [t \in Layers |-> [y \in Rows |-> [i \in Words |->
     {b \in Bits : <<i * WordBits + b, y, t>> \in S}]]]
ToLogical(b) ==
  {c \in Cells : \E i \in Words : \E k \in b[c[3]][c[2]][i] : c[1] = i * WordBits + k}

Popcount(b) ==
  Cardinality({q \in Layers \X Rows \X Words \X Bits : q[4] \in b[q[1]][q[2]][q[3]]})
-----------------------------------------------------------------------------
(* The lazy iterator. *)

Place(t, y, i) == (t * MapY + y) * NWords + i

\* Broken: the word itself is looked at again.
LaterOrSame(t, y, i) ==
  {q \in Layers \X Rows \X Words : /\ Place(q[1], q[2], q[3]) >= Place(t, y, i)
                                   /\ board[q[1]][q[2]][q[3]] # {}}

\* The words after this one that hold a bit.
Later(t, y, i) ==
  {q \in Layers \X Rows \X Words : /\ Place(q[1], q[2], q[3]) > Place(t, y, i)
                                   /\ board[q[1]][q[2]][q[3]] # {}}
-----------------------------------------------------------------------------
Init ==
  /\ board = Zero
  /\ busy = FALSE /\ it = 0 /\ iy = 0 /\ wi = 0 /\ word = {} /\ last = None

Becomes(b) == ~busy /\ board' = b /\ UNCHANGED cursor

SetCell ==
  /\ Popcount(board) < MaxSet
  /\ \E c \in Cells : Becomes([board EXCEPT ![c[3]] = SetBit(@, c[1], c[2])])
Dilate == \E r \in Reaches : Becomes(DilateBoard(board, r))
And == \E S \in Operands : Becomes(AndWords(board, FromLogical(S)))
Or == \E S \in Operands : Becomes(OrWords(board, FromLogical(S)))
Negate == Becomes(Complement(board))
Convert == Becomes(FromLogical(ToLogical(board)))

\* Bitboard3DIter::new loads the first word.
Begin ==
  /\ ~busy /\ busy' = TRUE
  /\ it' = 0 /\ iy' = 0 /\ wi' = 0 /\ word' = board[0][0][0] /\ last' = None
  /\ UNCHANGED board

\* advance: the next word that is not zero, or the end.
Advance ==
  /\ busy /\ word = {} /\ it < NTheta
  /\ \/ /\ Later(it, iy, wi) = {}
        /\ it' = NTheta /\ iy' = 0 /\ wi' = 0 /\ word' = {}
     \/ \E q \in Later(it, iy, wi) :
          /\ \A p \in Later(it, iy, wi) : Place(q[1], q[2], q[3]) <= Place(p[1], p[2], p[3])
          /\ it' = q[1] /\ iy' = q[2] /\ wi' = q[3] /\ word' = board[q[1]][q[2]][q[3]]
  /\ UNCHANGED <<board, busy, last>>

\* trailing_zeros, and the bit is cleared; a bit beyond the row is passed over.
TakeBit ==
  /\ busy /\ word # {}
  /\ \E b \in word :
       /\ \A k \in word : b <= k
       /\ word' = word \ {b}
       /\ last' = IF wi * WordBits + b < MapX THEN <<wi * WordBits + b, iy, it>> ELSE last
  /\ UNCHANGED <<board, busy, it, iy, wi>>

\* next() returns None.
Exhausted ==
  /\ busy /\ word = {} /\ it = NTheta
  /\ busy' = FALSE /\ it' = 0 /\ last' = None
  /\ UNCHANGED <<board, iy, wi, word>>

Iterate == Advance \/ TakeBit \/ Exhausted
Next ==
  \/ SetCell \/ Dilate \/ And \/ Or \/ Negate \/ Convert
  \/ Begin \/ Advance \/ TakeBit \/ Exhausted

\* A `for` loop calls next() until it returns None.
Spec == Init /\ [][Next]_vars
FairSpec == Spec /\ WF_vars(Iterate)
-----------------------------------------------------------------------------
(* Properties *)

\* No operation leaves a bit beyond the end of a row, where a later shift
\* would carry it back into the map and popcount would count it.
SpareBitsZero ==
  \A t \in Layers, y \in Rows, i \in Words : board[t][y][i] \subseteq RowMask[i]

\* popcount, the loop condition of the solvers, counts the bits that test
\* finds set, which are the cells that to_logical returns.
CountsAgree ==
  LET found == {c \in Cells : TestBit(board[c[3]], c[1], c[2])}
  IN  found = ToLogical(board) /\ Popcount(board) = Cardinality(found)

\* The iterator holds no bit that the board does not, and none past the end.
CursorSound ==
  busy => /\ it < NTheta => word \subseteq board[it][iy][wi]
          /\ it = NTheta => word = {}

\* The board's words are its cells and no more, to the counter and to a
\* running iterator as well.
BoardSound == TypeOK /\ SpareBitsZero /\ CountsAgree /\ CursorSound

\* Word by word, the board behaves as a set of cells: every operation has
\* the effect it has on sets, across word boundaries and around the circle,
\* and the iterator returns every cell once and in order.
Todo ==
  IF ~busy THEN {}
  ELSE {<<wi * WordBits + b, iy, it>> : b \in word} \union
       {c \in ToLogical(board) : it < NTheta /\
          Place(c[3], c[2], c[1] \div WordBits) > Place(it, iy, wi)}
Sets == INSTANCE CellSet WITH cells <- ToLogical(board), todo <- Todo
ImplementsSets == Sets!Spec

\* Every iteration comes to its end.
IterationEnds == busy ~> ~busy
=============================================================================
