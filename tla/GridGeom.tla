------------------------------ MODULE GridGeom ------------------------------
(***************************************************************************)
(* The grid that vi_reference plans on and its transition table: cells,    *)
(* headings, the reach of the actions, the dilation window that follows    *)
(* from it and the row order of the bitboards.                             *)
(***************************************************************************)
EXTENDS Integers, Sequences, FiniteSets, FiniteSetsExt, Sums

CONSTANTS
  NX, NY, NTheta,
  Actions,    \* the action list
  Trans       \* Trans[a][t]: sequence of [dix, diy, dit, prob]; dit absolute

\* cell_num_x, cell_num_y, cell_num_t; set_state_transitions files every
\* sample of an action under some transition.
ASSUME GeomAssumption ==
  /\ NX \in Nat \ {0} /\ NY \in Nat \ {0} /\ NTheta \in Nat \ {0}
  /\ IsFiniteSet(Actions)
  /\ \A a \in Actions, t \in 0 .. NTheta - 1 :
       /\ Trans[a][t] # <<>>
       /\ Trans[a][t] \in Seq([dix : Int, diy : Int, dit : Int, prob : Nat])

GridCols == (0 .. NX - 1) \X (0 .. NY - 1)
GridStates == GridCols \X (0 .. NTheta - 1)

\* Where transition tr takes a state of column c; theta wraps.
Target(c, tr) ==
  <<<<c[1] + tr.dix, c[2] + tr.diy>>, (tr.dit + NTheta) % NTheta>>

\* displacement: the largest steps of any transition, at least one cell.
AllTrans ==
  UNION {{Trans[p[1]][p[2]][i] : i \in DOMAIN Trans[p[1]][p[2]]} :
           p \in Actions \X (0 .. NTheta - 1)}
AbsInt(n) == IF n < 0 THEN -n ELSE n
DispX == Max({1} \union {AbsInt(tr.dix) : tr \in AllTrans})
DispY == Max({1} \union {AbsInt(tr.diy) : tr \in AllTrans})

CircDist(a, b) ==
  LET d == (a - b + NTheta) % NTheta IN Min({d, NTheta - d})
DispT ==
  Max({0} \union
      UNION {{CircDist((Trans[p[1]][p[2]][i].dit + NTheta) % NTheta, p[2]) :
                i \in DOMAIN Trans[p[1]][p[2]]} : p \in Actions \X (0 .. NTheta - 1)})

GridNear ==
  {p \in GridCols \X GridCols :
     /\ AbsInt(p[1][1] - p[2][1]) <= DispX
     /\ AbsInt(p[1][2] - p[2][2]) <= DispY}

\* Row by row, ascending ix.
RowMajor == [i \in 1 .. NX * NY |-> <<(i - 1) % NX, (i - 1) \div NX>>]

\* What a loop over q meets of S.
Sublist(q, S) ==
  LET pick[i \in 0 .. Len(q)] ==
        IF i = 0 THEN <<>>
        ELSE IF q[i] \in S THEN Append(pick[i - 1], q[i]) ELSE pick[i - 1]
  IN  pick[Len(q)]

\* Bitboard2D::enumerate; the leader reverses it in odd rounds.
GridScan(S, rev) ==
  LET q == Sublist(RowMajor, S)
  IN  IF rev THEN [i \in 1 .. Len(q) |-> q[Len(q) + 1 - i]] ELSE q

GridDilate(F) == {c \in GridCols : \E d \in F : <<d, c>> \in GridNear}
=============================================================================
