------------------------------ MODULE LocalVi -------------------------------
(***************************************************************************)
(* ValueIteratorLocal (local.rs): around the robot, a window of the table  *)
(* is swept again and again while laser scans raise and halve penalties in *)
(* it.  One caller owns the object, so each method is one step; the        *)
(* background worker of the original, which would run beside the scans,    *)
(* cannot be started on a borrowed object and is left out.                 *)
(* The sums wrap as in the code: a backup that loads unreached outcomes    *)
(* only stores a remainder below TopCost.                                  *)
(*                                                                         *)
(* A beam is <<dx, dy, n>>: from the middle of the robot's column, n       *)
(* columns far along one axis.                                             *)
(***************************************************************************)
EXTENDS RawVi
LOCAL INSTANCE Sequences
LOCAL INSTANCE SequencesExt

CONSTANTS
  XYRange,     \* local_ixy_range: 1 m in columns
  HitReach,    \* the penalty reaches this far around a hit (2 in the code)
  HitPenalty,  \* 2048 << PROB_BASE_BIT
  Robots,      \* columns the robot is in, possibly off the map
  Scans,       \* sequences of beams
  CallCap,     \* bound on the calls other than the local loop
  LoopCap      \* bound on the local loops between two such calls

ASSUME LocalAssumption ==
  /\ XYRange \in Nat /\ HitReach \in Nat
  /\ Robots \subseteq Int \X Int
  /\ Scans \subseteq Seq(Int \X Int \X Int)

VARIABLES
  window,    \* local_ix_min, local_ix_max, local_iy_min, local_iy_max
  local,     \* local_penalty, the same for all headings of a column
  centred,   \* history: set_local_window was called
  panicked,
  calls,
  loops      \* local loops since the last other call

vars == <<table, maze, window, local, centred, panicked, calls, loops>>

-----------------------------------------------------------------------------
(* The window *)

Window0 == <<0, 2 * XYRange, 0, 2 * XYRange>>

\* in_local_area
InLocal(c) ==
  /\ c[1] >= window[1] /\ c[1] <= window[2]
  /\ c[2] >= window[3] /\ c[2] <= window[4]
WindowCols == (window[1] .. window[2]) \X (window[3] .. window[4])

Lowest(a, b) == IF a < b THEN a ELSE b
Highest(a, b) == IF a > b THEN a ELSE b

\* Broken: one column too many.
ClampedWide(c) ==
  <<Highest(c[1] - XYRange, 0), Lowest(c[1] + XYRange, NX),
    Highest(c[2] - XYRange, 0), Lowest(c[2] + XYRange, NY)>>

Clamped(c) ==
  <<Highest(c[1] - XYRange, 0), Lowest(c[1] + XYRange, NX - 1),
    Highest(c[2] - XYRange, 0), Lowest(c[2] + XYRange, NY - 1)>>

\* to_index of a column past the right edge is the index of one in the next row.
Place(c) == c[1] + NX * c[2]
Exists(c) == Place(c) \in 0 .. NX * NY - 1
Column(c) == <<Place(c) % NX, Place(c) \div NX>>

-----------------------------------------------------------------------------
(* Scans *)

\* The column at k tenths of a beam.
Tenth(c, b, k) ==
  <<(10 * c[1] + 5 + b[1] * b[3] * k) \div 10, (10 * c[2] + 5 + b[2] * b[3] * k) \div 10>>
Around(c) == (c[1] - HitReach .. c[1] + HitReach) \X (c[2] - HitReach .. c[2] + HitReach)
HitCols(c, b) == {d \in Around(Tenth(c, b, 10)) : InLocal(d)}
PassCols(c, b) == SelectSeq([k \in 1 .. 9 |-> Tenth(c, b, k)], InLocal)
Passed(c, b) == {d \in {Tenth(c, b, k) : k \in 1 .. 9} : InLocal(d)}
Touched(c, scan) == UNION {HitCols(c, scan[i]) \union Passed(c, scan[i]) : i \in DOMAIN scan}

Halved(L, d) == [L EXCEPT ![Column(d)] = @ \div 2]

\* One beam: what it passes is halved, once for each of the nine points, and
\* then what it hits gets the full penalty, over the traces of earlier beams.
AfterBeam(L, c, b) ==
  LET passed == FoldLeft(Halved, L, PassCols(c, b))
      hit == {Column(d) : d \in HitCols(c, b)}
  IN  [d \in GridCols |-> IF d \in hit THEN HitPenalty ELSE passed[d]]
AfterScan(L, c, scan) == FoldLeft(LAMBDA M, b : AfterBeam(M, c, b), L, scan)

-----------------------------------------------------------------------------
(* Methods *)

Working == ~panicked
Called == calls < CallCap /\ calls' = calls + 1 /\ loops' = 0

\* A new map and a goal: the global solver has converged, or has not begun.
Init ==
  /\ \E m \in Mazes : free = m.free /\ goal = m.goal /\ acts = m.acts
  /\ value \in {ExactValue, Cleared(goal)}
  /\ act = [s \in GridStates |-> NoAction]
  /\ window = Window0 /\ centred = FALSE
  /\ local = [c \in GridCols |-> 0]
  /\ panicked = FALSE /\ calls = 0 /\ loops = 0

\* set_goal forgets the penalties and keeps the window.
SetGoal ==
  /\ Working /\ Called
  /\ \E m \in Mazes : m.free = free /\ goal' = m.goal
  /\ value' = Cleared(goal')
  /\ act' = [s \in GridStates |-> NoAction]
  /\ local' = [c \in GridCols |-> 0]
  /\ UNCHANGED <<free, acts, window, centred, panicked>>

SetLocalWindow ==
  /\ Working /\ Called
  /\ \E c \in Robots : window' = Clamped(c)
  /\ centred' = TRUE
  /\ UNCHANGED <<table, maze, local, panicked>>

SetLocalCost ==
  /\ Working /\ Called
  /\ \E c \in Robots, scan \in Scans :
       \/ /\ \A d \in Touched(c, scan) : Exists(d)
          /\ local' = AfterScan(local, c, scan)
          /\ UNCHANGED panicked
       \/ /\ \E d \in Touched(c, scan) : ~Exists(d)
          /\ panicked' = TRUE
          /\ UNCHANGED local
  /\ UNCHANGED <<table, maze, window, centred>>

\* Broken: a local penalty in place of the value.
LoadsInstead(v) == [s \in GridStates |-> IF local[s[1]] > 0 THEN local[s[1]] ELSE v[s]]
Loads(v) == [s \in GridStates |-> v[s] + local[s[1]]]
LocalCost(v, a, s) == CostMod(free, Loads(v), a, s, Word)
BestLocal(v, s) == Best({<<LocalCost(v, a, s), a>> : a \in acts})

\* Broken: as in the frontier solvers, a value only falls.
VisitedDown(t, s) ==
  LET best == BestLocal(t.value, s)
  IN  IF ~Updatable(s) \/ best[1] >= t.value[s] THEN t
      ELSE [value |-> [t.value EXCEPT ![s] = best[1]], act |-> [t.act EXCEPT ![s] = best[2]]]

\* value_iteration_at: the value may rise.
Visited(t, s) ==
  LET best == BestLocal(t.value, s)
  IN  IF ~Updatable(s) THEN t
      ELSE [value |-> [t.value EXCEPT ![s] = best[1]], act |-> [t.act EXCEPT ![s] = best[2]]]

\* The set has TLC evaluate t once.
VisitedOnce(t, s) == CHOOSE r \in {Visited(u, s) : u \in {t}} : TRUE

\* x outermost, then y, then theta.
LoopOrder ==
  LET w == window[2] - window[1] + 1
      h == window[4] - window[3] + 1
  IN  IF w <= 0 \/ h <= 0 THEN <<>>
      ELSE [k \in 1 .. w * h * NTheta |->
             LET col == (k - 1) \div NTheta
             IN  <<Column(<<window[1] + (col \div h), window[3] + (col % h)>>), (k - 1) % NTheta>>]

LocalLoop ==
  /\ Working /\ loops < LoopCap /\ loops' = loops + 1
  /\ \/ /\ \A c \in WindowCols : Exists(c)
        /\ \E t \in {FoldLeft(VisitedOnce, [value |-> value, act |-> act], LoopOrder)} :
             value' = t.value /\ act' = t.act
        /\ UNCHANGED panicked
     \/ /\ \E c \in WindowCols : ~Exists(c)
        /\ panicked' = TRUE
        /\ UNCHANGED table
  /\ UNCHANGED <<maze, window, local, centred, calls>>

Next == SetGoal \/ SetLocalWindow \/ SetLocalCost \/ LocalLoop

Spec == Init /\ [][Next]_vars

\* The planner loops as long as it runs, here until LoopCap: in a closed pocket
\* of the window each loop adds penalties to values that no goal brings down
\* again, and after some 2^26 steps of them the sum wraps once more, to a cost
\* that looks reached.
FairSpec == Spec /\ WF_vars(LocalLoop)

-----------------------------------------------------------------------------
(* Properties *)

TypeOK ==
  /\ TableTypeOK
  /\ local \in [GridCols -> 0 .. HitPenalty]
  /\ Len(window) = 4
  /\ calls \in 0 .. CallCap /\ loops \in 0 .. LoopCap

\* Scans, moves of the window and loops on stale values can make the table too
\* dear, but no value that counts as reached is below the exact one without
\* penalties: loops in a window that no path leaves, or before the global solver
\* has come, store wrapped costs, but none that looks reached.
NeverBelow ==
  LET ref == ExactValue
  IN  \A s \in GridStates : value[s] < Reach => value[s] >= ref[s]

\* Once the window follows the robot, wherever that is, no method leaves the
\* table.  The window of a new map is as large as the range, not as the map.
WindowInMap ==
  /\ centred => WindowCols \subseteq GridCols
  /\ panicked => ~centred

\* What every method may rely on.
TableSound == TypeOK /\ NeverBelow /\ WindowInMap

\* When no more scans, moves and goals come, the loops end with values that
\* solve the backup in the window against the stale values outside it, wherever
\* the value or its backup counts as reached: what was too dear has come down,
\* what the penalties block has gone up, and what rises for ever, because no path
\* leads from it to a reached value, disturbs none of these.
Solved ==
  \A s \in GridStates :
    \E best \in {BestLocal(value, s)} :
      (InLocal(s[1]) /\ Updatable(s) /\ (value[s] < Reach \/ best[1] < Reach)) =>
        <<value[s], act[s]>> = best
EventuallySolved == <>[](panicked \/ Solved)
=============================================================================
