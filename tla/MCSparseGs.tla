------------------------------ MODULE MCSparseGs ------------------------------
(***************************************************************************)
(* SparseGs on a corridor of three columns, four headings: "fw" moves west *)
(* under heading 0, east under heading 2, and half of the time also turns  *)
(* one heading; "turn" goes one heading on.  The goal is column 0 under    *)
(* heading 0; entering column 1 is expensive.  One heading of four is      *)
(* outside the reach of a change, so the masks do leave layers out.        *)
(***************************************************************************)
EXTENDS SparseGs, TLC

MCActions == {"fw", "turn"}
Ahead(t) == IF t = 0 THEN -1 ELSE IF t = 2 THEN 1 ELSE 0
Move(dx, t, p) == [dix |-> dx, diy |-> 0, dit |-> t % NTheta, prob |-> p]
MCTrans ==
  [a \in MCActions |->
     [t \in 0 .. 3 |->
        IF a = "turn" THEN <<Move(0, t + 1, 2)>>
        ELSE <<Move(Ahead(t), t, 1), Move(Ahead(t), t + 1, 1)>>]]
MCPenalty == [s \in GridStates |-> IF s[1][1] = 1 THEN 3 ELSE 1]
MCGoals == {<<<<0, 0>>, 0>>}
MCFree == GridCols
\* The values by column and heading, as ReferenceAssumption asks for.
MCReference ==
  [s \in GridStates |->
     <<<<0, 3, 2, 1>>, <<2, 11, 8, 5>>, <<9, 12, 11, 10>>>>[s[1][1] + 1][s[2] + 1]]
Workers == Permutations(Threads)
=============================================================================
