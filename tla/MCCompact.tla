------------------------------ MODULE MCCompact ------------------------------
(***************************************************************************)
(* CompactVi on a corridor of NY rows, with three headings: "fw" moves up  *)
(* under heading 0, down under heading 2 and, under heading 1, either way  *)
(* with even odds; "left" changes the heading by one.  The goal is the     *)
(* lowest cell under heading 2, so that values spread against the scan.    *)
(* The column beside the corridor is wall but for a closed cell at the     *)
(* top: its states never reach the goal, and its block is never full.      *)
(***************************************************************************)
EXTENDS CompactVi, GridMdp

Move(dy, h, p) == [dix |-> 0, diy |-> dy, dit |-> h, prob |-> p]
Ahead(h) ==
  CASE h = 0 -> <<Move(-1, h, 2)>>
    [] h = 1 -> <<Move(-1, h, 1), Move(1, h, 1)>>
    [] OTHER -> <<Move(1, h, 2)>>

MCActions == {"fw", "left"}
MCTrans ==
  [a \in MCActions |->
     [h \in 0 .. NTheta - 1 |->
        IF a = "fw" THEN Ahead(h) ELSE <<Move(0, (h + 1) % NTheta, 2)>>]]
MCPenalty == [s \in GridStates |-> 2]
MCFree == {c \in GridCols : c[1] = 0} \union {<<1, 0>>}
MCGoals == {<<<<0, NY - 1>>, 2>>}
MCReference == ParSolve(GridValue0, 2 * NY).value
=============================================================================
