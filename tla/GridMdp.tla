------------------------------ MODULE GridMdp -------------------------------
(***************************************************************************)
(* The planning problem that vi_reference solves: penalties, obstacles and *)
(* goal states on the grid of GridGeom; the Bellman backup of one state in *)
(* the padded model (frontier2d_pad.rs) and the deterministic solver.      *)
(*                                                                         *)
(* Costs are the code's u64 values in units of PROB_BASE, small enough not *)
(* to wrap; PadCost keeps the clamp that stops unreached neighbours.       *)
(***************************************************************************)
EXTENDS GridGeom

CONSTANTS
  ProbBase,   \* sum of the prob of one list (2^18 in the code)
  TopCost,    \* MAX_COST
  Penalty,    \* penalty + local_penalty of a state
  FreeCols,   \* columns that are not obstacles
  GoalStates  \* final states

Free(s) == s[1] \in FreeCols

\* set_state_values makes no state final that is not free.
ASSUME MdpAssumption ==
  /\ ProbBase \in Nat \ {0} /\ TopCost \in Nat \ {0}
  /\ Penalty \in [GridStates -> Nat]
  /\ GoalStates \subseteq {s \in GridStates : Free(s)}

\* Free states that are not final are the ones a solver updates.
GridEval == {s \in GridStates : Free(s) /\ s \notin GoalStates}

\* An action with an outcome outside the map or on an obstacle costs
\* MAX_COST whatever the others are: only the rest need loads.
Usable(a, s) ==
  \A i \in DOMAIN Trans[a][s[2]] :
    LET d == Target(s[1], Trans[a][s[2]][i])
    IN  d[1] \in GridCols /\ Free(d)

GridSlots(s) ==
  UNION {{<<a, i>> : i \in DOMAIN Trans[a][s[2]]} :
           a \in {b \in Actions : Usable(b, s)}}

GridNbr(s, k) == Target(s[1], Trans[k[1]][s[2]][k[2]])

\* action_cost_pad: an unreached outcome makes the action cost MAX_COST.
PadCost(a, s, f) ==
  LET trs == Trans[a][s[2]]
      terms == [i \in 1 .. Len(trs) |->
                  (f[<<a, i>>] + Penalty[GridNbr(s, <<a, i>>)]) * trs[i].prob]
  IN  IF \E i \in DOMAIN trs : f[<<a, i>>] = TopCost
      THEN TopCost
      ELSE SumOf(terms) \div ProbBase

\* Min over the actions, starting from MAX_COST.
GridBackup(s, f) ==
  Min({TopCost} \union
      {PadCost(a, s, f) : a \in {b \in Actions : Usable(b, s)}})

\* The actions that attain the minimum, none if that is MAX_COST; the code's
\* argmin takes the first of them in list order.
GridBest(s, f) ==
  {a \in Actions : /\ Usable(a, s)
                   /\ PadCost(a, s, f) = GridBackup(s, f)
                   /\ PadCost(a, s, f) < TopCost}

\* set_goal: final states cost nothing, every other state is unreached.
GridValue0 == [s \in GridStates |-> IF s \in GoalStates THEN 0 ELSE TopCost]

-----------------------------------------------------------------------------
(* frontier2d_par: the deterministic Jacobi solver. *)

GridView(s, v) == [k \in GridSlots(s) |-> v[GridNbr(s, k)]]
GridSeed(v) ==
  {c \in GridCols : \E t \in 0 .. NTheta - 1 : v[<<c, t>>] < TopCost}

\* f, as a table: the equality has TLC evaluate it once.
Table(f) == CHOOSE t \in {f} : t = f

\* One round: every candidate is evaluated on the table of the round's start,
\* then the lower values are written back.
JacobiRound(r) ==
  LET cells == {s \in GridEval : s[1] \in GridDilate(r.frontier)}
      new == [s \in cells |-> GridBackup(s, GridView(s, r.value))]
      ups == {s \in cells : new[s] < r.value[s]}
      lowered == [s \in GridStates |-> IF s \in ups THEN new[s] ELSE r.value[s]]
  IN  [value |-> Table(lowered), frontier |-> {s[1] : s \in ups}]

JacobiStart(v) == [value |-> v, frontier |-> GridSeed(v)]

\* The solver's table after at most n rounds.
ParSolve(v, n) ==
  LET run[i \in 0 .. n] ==
        IF i = 0 THEN JacobiStart(v)
        ELSE LET r == run[i - 1]
             IN  IF r.frontier = {} THEN r ELSE JacobiRound(r)
  IN  run[n]
=============================================================================
