----------------------------- MODULE MCBitboards -----------------------------
(***************************************************************************)
(* Boards of two rows and three headings.  A row has four cells in words  *)
(* of three bits, so that it ends inside its second word.  Cells are set   *)
(* one by one on small boards; dilation, complement and the operands lead  *)
(* on to large ones.                                                       *)
(***************************************************************************)
EXTENDS Bitboards

Reach(dx, dy, dt) == [x |-> dx, y |-> dy, t |-> dt]
MCReaches == {Reach(1, 1, 1), Reach(2, 0, 0), Reach(0, 0, 1)}
MCOperands == {{c \in Cells : c[1] < 2}}
=============================================================================
