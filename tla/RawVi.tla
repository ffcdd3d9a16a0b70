-------------------------------- MODULE RawVi --------------------------------
(***************************************************************************)
(* The state table of a ValueIterator and the arithmetic of its reference  *)
(* backup (value_iterator.rs), which wraps in 64 bits.                     *)
(*                                                                         *)
(* The map, the goal and the action list are variables, chosen at the      *)
(* start, so that one run covers every small map.                          *)
(*                                                                         *)
(* Unlike the padded solvers, the reference has no clamp: an action with   *)
(* an unreached outcome costs ((MAX_COST + penalty) * prob) mod 2^64       *)
(* shifted, an arbitrary number.  Word stands for 2^64.                    *)
(***************************************************************************)
EXTENDS GridGeom

CONSTANTS
  ProbBase,  \* PROB_BASE, the sum of the prob of one list
  Penalty,   \* penalty + local_penalty of a state
  TopCost,   \* MAX_COST
  Word,      \* 2^64: u64 arithmetic is modulo Word
  Reach,     \* REACH_THRESH: values below it count as reached
  RefDepth,  \* bound on the rounds that compute Exact, as a power of two
  Mazes      \* the problems of a run: records [free, goal, acts]

VARIABLES
  free,      \* columns that are not obstacles
  goal,      \* final states
  acts,      \* actions
  value,     \* total_cost
  act        \* optimal_action; NoAction for None

NoAction == 0

ASSUME RawAssumption ==
  /\ Actions \subseteq Nat \ {NoAction}
  /\ {ProbBase, Word} \subseteq Nat \ {0} /\ {TopCost, Reach, RefDepth} \subseteq Nat
  /\ TopCost < Word /\ Reach < TopCost
  /\ Penalty \in [GridStates -> Nat]
  /\ Mazes \subseteq [free : SUBSET GridCols, goal : SUBSET GridStates, acts : SUBSET Actions]
  /\ \A m \in Mazes : m.goal # {} /\ \A s \in m.goal : s[1] \in m.free

table == <<value, act>>
maze == <<free, goal, acts>>
Maze == [free |-> free, goal |-> goal, acts |-> acts]

TableTypeOK ==
  /\ Maze \in Mazes
  /\ value \in [GridStates -> 0 .. TopCost]
  /\ act \in [GridStates -> Actions \union {NoAction}]

\* Broken: every heading of a goal's column is final.
ClearedColumn(g) ==
  [s \in GridStates |-> IF \E t \in g : t[1] = s[1] THEN 0 ELSE TopCost]

\* set_goal: final states cost nothing, every other state is unreached.
Cleared(g) == [s \in GridStates |-> IF s \in g THEN 0 ELSE TopCost]

TableInit ==
  /\ \E m \in Mazes : free = m.free /\ goal = m.goal /\ acts = m.acts
  /\ value = Cleared(goal)
  /\ act = [s \in GridStates |-> NoAction]

\* The states that a backup writes.
Updatable(s) == s[1] \in free /\ s \notin goal

Outcomes(a, s) == {Trans[a][s[2]][i] : i \in DOMAIN Trans[a][s[2]]}
Lands(f, c, tr) == Target(c, tr)[1] \in GridCols \intersect f

\* What an outcome adds to the cost of an action in a state of column c.
Term(v, c, tr) == (v[Target(c, tr)] + Penalty[Target(c, tr)]) * tr.prob

\* The sum of action_cost_raw over a list of outcomes, in unbounded integers.
Weighted(v, c, trs) == SumOf([i \in 1 .. Len(trs) |-> Term(v, c, trs[i])])

\* action_cost_raw, modulo w: one outcome that leaves the map or hits an
\* obstacle makes the action cost MAX_COST.
CostMod(f, v, a, s, w) ==
  IF \A tr \in Outcomes(a, s) : Lands(f, s[1], tr)
  THEN (Weighted(v, s[1], Trans[a][s[2]]) % w) \div ProbBase
  ELSE TopCost

\* Broken: only the first outcome counts, at the full probability.
RawCostFirst(a, s) ==
  IF \A tr \in Outcomes(a, s) : Lands(free, s[1], tr)
  THEN Weighted(value, s[1], <<[Trans[a][s[2]][1] EXCEPT !.prob = ProbBase]>>) \div ProbBase
  ELSE TopCost

RawCost(a, s) == CostMod(free, value, a, s, Word)

\* action_cost_pad: an unreached outcome does the same.
ClampCost(a, s) ==
  IF \A tr \in Outcomes(a, s) : Lands(free, s[1], tr) => value[Target(s[1], tr)] # TopCost
  THEN RawCost(a, s) ELSE TopCost

\* The outcomes that action_cost_topk keeps: the most probable k, the earlier
\* one of two that are equal.
Kept(trs, k) ==
  {n \in DOMAIN trs :
     Cardinality({j \in DOMAIN trs : \/ trs[j].prob > trs[n].prob
                                     \/ trs[j].prob = trs[n].prob /\ j < n}) < k}

\* action_cost_topk: only the kept outcomes can make the action unusable, and
\* the sum is divided by what is left of the probability, if anything is.
TopKCost(a, s, k) ==
  LET trs == Trans[a][s[2]]
      kept == Kept(trs, k)
      cost == [i \in 1 .. Len(trs) |-> IF i \in kept THEN Term(value, s[1], trs[i]) ELSE 0]
      prob == [i \in 1 .. Len(trs) |-> IF i \in kept THEN trs[i].prob ELSE 0]
  IN  IF Len(trs) <= k THEN RawCost(a, s)
      ELSE IF (\A i \in kept : Lands(free, s[1], trs[i])) /\ SumOf(prob) # 0
      THEN (SumOf(cost) % Word) \div SumOf(prob)
      ELSE TopCost

\* The loop over the actions, with the pairs <<cost, action>>: the least cost
\* below MAX_COST and the first action that has it.
Best(pairs) ==
  CHOOSE p \in pairs \union {<<TopCost, NoAction>>} :
    \A q \in pairs \union {<<TopCost, NoAction>>} :
      p[1] < q[1] \/ (p[1] = q[1] /\ p[2] <= q[2])

\* value_iteration_raw of a state, before its value is stored.
BestRaw(s) == Best({<<RawCost(a, s), a>> : a \in acts})

-----------------------------------------------------------------------------
(* What the properties compare with: the backup in unbounded integers,     *)
(* applied to the whole table again and again, which can only lower it,    *)
(* until it has no effect.                                                 *)

\* A modulus no sum reaches.
Unwrapped == 2 * ProbBase * (TopCost + Max({Penalty[s] : s \in GridStates}))

Improve(m, v) ==
  [s \in GridStates |->
     IF s[1] \in m.free /\ s \notin m.goal
     THEN Best({<<CostMod(m.free, v, a, s, Unwrapped), a>> : a \in m.acts})[1] ELSE v[s]]

\* 2^RefDepth rounds, or fewer if a table repeats.
Tables == [GridStates -> 0 .. TopCost]
Settled(m) ==
  LET run[n \in 0 .. RefDepth, v \in Tables] ==
        IF n = 0 THEN Improve(m, v)
        ELSE LET half == run[n - 1, v] IN IF half = v THEN v ELSE run[n - 1, half]
      start == [s \in GridStates |-> IF s \in m.goal THEN 0 ELSE TopCost]
  IN  run[RefDepth, start]

\* The equality has TLC evaluate the tables once.
Exact == CHOOSE f \in {[m \in Mazes |-> Settled(m)]} : f = f
ExactValue == Exact[Maze]

\* RefDepth is large enough.
ASSUME ExactAssumption == \A m \in Mazes : Improve(m, Exact[m]) = Exact[m]
=============================================================================
