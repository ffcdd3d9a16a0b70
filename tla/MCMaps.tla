------------------------------- MODULE MCMaps --------------------------------
(***************************************************************************)
(* The small maps and action lists of the serial runs: every map of NX by  *)
(* NY columns with at most MaxWalls obstacles and the goal in one of two   *)
(* corners, for each action list in Lists.  Heading 0 points east and      *)
(* heading 1 west.  Actions 1 to 3 move along the heading by one column:   *)
(* surely (1), turning on the way half of the time (2), or under heading 0 *)
(* by two columns half of the time (3).  Action 4 moves north under        *)
(* heading 0 and south under heading 1; action 5 turns.                    *)
(*                                                                         *)
(* With TopCost = 700 and Word = 1024 every sum over an unreached outcome  *)
(* stays at or above Reach after it wraps; with TopCost = 520 one over two *)
(* unreached outcomes is as small as a real cost.  Both occur in the code, *)
(* where the remainder depends on the prob of the unreached outcomes.      *)
(***************************************************************************)
EXTENDS GridGeom

CONSTANTS MaxWalls, Lists

Move(dx, dy, h, p) == [dix |-> dx, diy |-> dy, dit |-> h, prob |-> p]
Ahead(h) == IF h = 0 THEN 1 ELSE -1

MCActions == UNION Lists
MCTrans ==
  [a \in MCActions |-> [h \in {0, 1} |->
     CASE a = 2 -> <<Move(Ahead(h), 0, h, 1), Move(Ahead(h), 0, 1 - h, 1)>>
       [] a = 3 /\ h = 0 -> <<Move(1, 0, h, 1), Move(2, 0, h, 1)>>
       [] a = 4 -> <<Move(0, Ahead(h), h, 2)>>
       [] a = 5 -> <<Move(0, 0, 1 - h, 2)>>
       [] OTHER -> <<Move(Ahead(h), 0, h, 2)>>]]

MCPenalty == [s \in GridStates |-> IF s[1][1] = 1 THEN 6 ELSE 2]
MCMazes ==
  {m \in [free : {GridCols \ W : W \in {V \in SUBSET GridCols : Cardinality(V) <= MaxWalls}},
          goal : {{<<<<NX - 1, NY - 1>>, 0>>}, {<<<<0, 0>>, 1>>}}, acts : Lists] :
     \A s \in m.goal : s[1] \in m.free}
=============================================================================
