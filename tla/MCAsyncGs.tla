----------------------------- MODULE MCAsyncGs ------------------------------
(***************************************************************************)
(* AsyncGs on two corridors one row high.                                  *)
(*                                                                         *)
(* "Long": five columns, one heading, goal in column 4; "right" moves one  *)
(* column, "jump" two.  Column 2 is expensive to enter, so a worker that   *)
(* reads column 1 too early stores a dear value for column 0 that a later  *)
(* round has to lower.                                                     *)
(*                                                                         *)
(* "Turn": three columns, two headings; "fw" moves west under heading 0    *)
(* and east under heading 1 and half of the time turns on the way; "turn"  *)
(* changes the heading; the goal is column 0 under heading 0.              *)
(***************************************************************************)
EXTENDS AsyncGs, GridMdp, TLC

\* The workers other than the leader are interchangeable.
Followers == Permutations(Threads \ {Leader})

Step(dx, t, p) == [dix |-> dx, diy |-> 0, dit |-> t, prob |-> p]
MCCols == GridCols

LongActions == {"right", "jump"}
LongTrans ==
  [a \in LongActions |-> [t \in {0} |-> <<Step(IF a = "right" THEN 1 ELSE 2, 0, 2)>>]]
LongPenalty == [s \in GridStates |-> IF s[1][1] = 2 THEN 6 ELSE 1]
LongGoals == {<<<<4, 0>>, 0>>}

TurnActions == {"fw", "turn"}
Ahead(t) == IF t = 0 THEN -1 ELSE 1
TurnTrans ==
  [a \in TurnActions |->
     [t \in {0, 1} |->
        IF a = "turn" THEN <<Step(0, 1 - t, 2)>>
        ELSE <<Step(Ahead(t), t, 1), Step(Ahead(t), 1 - t, 1)>>]]
TurnPenalty == [s \in GridStates |-> IF s[1][1] = 1 THEN 3 ELSE 1]
TurnGoals == {<<<<0, 0>>, 0>>}

MCReference == ParSolve(GridValue0, 12).value
=============================================================================
