------------------------------ MODULE SerialVi -------------------------------
(***************************************************************************)
(* The serial solvers of vi_reference that solve() selects by name.  All   *)
(* work in rounds over one table in place; they differ in what a round     *)
(* visits, in the backup, and in the stages they go through:               *)
(*                                                                         *)
(*   reference, stream  sweeps over the map until nothing below Reach moves *)
(*   frontier3d         states near a state that fell                      *)
(*   stack              the same, from one 2D frontier per theta layer     *)
(*   frontier2d, soa    all thetas of columns near a column that fell      *)
(*   pad                the same with the clamped backup                   *)
(*   block, pyramid     blocks near a block that fell; coarse blocks first *)
(*   tau                frontier3d that ignores drops of at most Tau       *)
(*   topk               frontier3d on the TopK likeliest outcomes          *)
(*   coarse_theta       frontier3d on every Step-th theta, then on all     *)
(***************************************************************************)
EXTENDS RawVi

CONSTANTS
  Kinds,         \* the solvers of a run
  MaxIter,       \* max_iter
  Tau, TopK, Step,
  Fine,          \* FINEST, BLOCK
  Coarse,        \* block sizes of the coarse levels, descending
  CoarseBudget,  \* COARSE_BUDGET of pyramid
  ThetaBudget,   \* COARSE_BUDGET of coarse_theta
  LocalSweeps    \* LOCAL_SWEEPS

ASSUME SerialAssumption ==
  /\ {Tau, TopK, MaxIter} \subseteq Nat
  /\ {Step, Fine, LocalSweeps} \subseteq Nat \ {0}
  /\ Coarse \in Seq(Nat \ {0})

VARIABLES
  kind,
  stage,     \* number of the current stage
  frontier,  \* states, columns or blocks that fell in the last round
  todo,      \* what is left of this round
  next,      \* the frontier of the next round
  before,    \* reference: the table of the round's start
  iters,     \* rounds of this stage
  total,     \* rounds of the stages before
  pc,        \* "round", "visit" or "end"
  outcome    \* "running", "converged" or "cut"

work == <<frontier, todo, next, before, iters>>
vars == <<table, maze, kind, stage, work, total, pc, outcome>>

-----------------------------------------------------------------------------
(* Stages *)

Stage(by, size, step, budget) ==
  [by |-> by, size |-> size, step |-> step, budget |-> budget]
Levels == Sublist(Coarse, {n \in Nat : n > Fine /\ (n < NX \/ n < NY)})

Stages ==
  CASE kind \in {"reference", "stream"} -> <<Stage("map", 1, 1, MaxIter)>>
    [] kind = "stack" -> <<Stage("layers", 1, 1, MaxIter)>>
    [] kind \in {"frontier2d", "soa", "pad"} -> <<Stage("columns", 1, 1, MaxIter)>>
    [] kind = "block" -> <<Stage("blocks", Fine, 1, MaxIter)>>
    [] kind = "pyramid" ->
         [i \in DOMAIN Levels |-> Stage("blocks", Levels[i], 1, CoarseBudget)]
           \o <<Stage("blocks", Fine, 1, MaxIter)>>
    [] kind = "coarse_theta" /\ Step > 1 ->
         <<Stage("cells", 1, Step, ThetaBudget), Stage("cells", 1, 1, MaxIter)>>
    [] OTHER -> <<Stage("cells", 1, 1, MaxIter)>>

Now == Stages[stage]
IsLast == stage = Len(Stages)

\* The last stage has what the others left over.
Budget ==
  IF ~IsLast THEN Now.budget
  ELSE IF total > MaxIter THEN 0 ELSE MaxIter - total

-----------------------------------------------------------------------------
(* What a round visits *)

BlockOf(s) == <<s[1][1] \div Now.size, s[1][2] \div Now.size>>
Passable == {BlockOf(s) : s \in {q \in GridStates : q[1] \in free}}

CeilDiv(a, b) == (a + b - 1) \div b
NearBlock(b, d) ==
  /\ AbsInt(b[1] - d[1]) <= CeilDiv(DispX, Now.size)
  /\ AbsInt(b[2] - d[2]) <= CeilDiv(DispY, Now.size)

\* Broken: without the theta part of the window.
NearStateFlat(d, s) == <<d[1], s[1]>> \in GridNear /\ d[2] = s[2]

\* Bitboard3D::dilate: the window in x, y and around the circle.
NearState(d, s) ==
  <<d[1], s[1]>> \in GridNear /\ CircDist(d[2], s[2]) <= DispT

\* frontier_stack_solve: the dilated layers within mt of a layer.
Layer(F, t) == GridDilate({d[1] : d \in {e \in F : e[2] = t}})
Stacked(F, t) == UNION {Layer(F, (t + NTheta + i) % NTheta) : i \in -DispT .. DispT}

Candidates(F) ==
  CASE Now.by = "cells" -> {s \in GridStates : \E d \in F : NearState(d, s)}
    [] Now.by = "layers" -> {s \in GridStates : s[1] \in Stacked(F, s[2])}
    [] Now.by = "columns" -> {s \in GridStates : s[1] \in GridDilate(F)}
    [] Now.by = "blocks" ->
         {s \in GridStates : /\ BlockOf(s) \in Passable
                             /\ \E d \in F : NearBlock(BlockOf(s), d)}
    [] OTHER -> IF F = {} THEN {} ELSE GridStates

\* The member of a frontier that stands for a state.
Item(s) ==
  CASE Now.by \in {"cells", "layers"} -> s
    [] Now.by = "columns" -> s[1]
    [] Now.by = "blocks" -> BlockOf(s)
    [] OTHER -> "map"

\* The loops over the table: theta innermost, or outermost.
ByColumn ==
  [k \in 1 .. NX * NY * NTheta |->
     <<RowMajor[((k - 1) \div NTheta) + 1], (k - 1) % NTheta>>]
ByLayer ==
  [k \in 1 .. NX * NY * NTheta |->
     <<RowMajor[((k - 1) % (NX * NY)) + 1], (k - 1) \div (NX * NY)>>]

\* update_block on every block, row by row; within a block LocalSweeps times row
\* by row.  A block at the edge is cut off where the map ends.
BlockRow == CeilDiv(NX, Now.size)
BlockCells == Now.size * Now.size
InBlock(b, j) ==
  <<(b % BlockRow) * Now.size + (j % Now.size),
    (b \div BlockRow) * Now.size + (j \div Now.size)>>
ByBlock ==
  LET sweep == BlockCells * NTheta
  IN  [k \in 1 .. BlockRow * CeilDiv(NY, Now.size) * (LocalSweeps * sweep) |->
         <<InBlock((k - 1) \div (LocalSweeps * sweep), ((k - 1) % sweep) \div NTheta),
           (k - 1) % NTheta>>]

Order ==
  CASE Now.by \in {"cells", "layers"} -> ByLayer
    [] Now.by = "blocks" -> ByBlock
    [] OTHER -> ByColumn

Visits(F) == Sublist(Order, Candidates(F))

\* seed_frontier: what stands for a state below MAX_COST.
Seed ==
  IF Now.by = "map" THEN {"map"}
  ELSE {Item(s) : s \in {q \in GridStates : value[q] < TopCost}}

-----------------------------------------------------------------------------
(* The visit of one state *)

Updated(s) == s[1] \in free /\ s \notin goal /\ s[2] % Now.step = 0

Cost(a, s) ==
  CASE kind = "pad" -> ClampCost(a, s)
    [] kind = "topk" -> TopKCost(a, s, TopK)
    [] OTHER -> RawCost(a, s)
BestOf(s) == Best({<<Cost(a, s), a>> : a \in acts})

\* tau keeps the old entry unless the drop exceeds Tau.
Writes(s, c) == kind = "tau" /\ Tau > 0 => value[s] - c > Tau

\* Broken: an unchanged value is passed on as well.
FallsOrStays(s, c) == Writes(s, c) /\ c <= value[s]
Falls(s, c) == Writes(s, c) /\ c < value[s]

Init ==
  /\ TableInit
  /\ kind \in Kinds
  /\ stage = 1
  /\ frontier = Seed
  /\ todo = <<>> /\ next = {} /\ before = value
  /\ iters = 0 /\ total = 0
  /\ pc = "round" /\ outcome = "running"

StartRound ==
  /\ pc = "round" /\ frontier # {} /\ iters < Budget
  /\ todo' = Visits(frontier)
  /\ next' = {}
  /\ before' = IF Now.by = "map" THEN value ELSE before
  /\ iters' = iters + 1
  /\ pc' = "visit"
  /\ UNCHANGED <<table, maze, kind, stage, frontier, total, outcome>>

\* value_iteration_raw and its variants: the minimum is stored whether or not
\* it is lower; only a drop is passed on.
Visit ==
  /\ pc = "visit" /\ todo # <<>>
  /\ LET s == Head(todo)
     IN  \E best \in {BestOf(s)} :
           IF Updated(s) /\ Writes(s, best[1])
           THEN /\ value' = [value EXCEPT ![s] = best[1]]
                /\ act' = [act EXCEPT ![s] = best[2]]
                /\ next' = IF Falls(s, best[1]) THEN next \union {Item(s)} ELSE next
           ELSE UNCHANGED <<table, next>>
  /\ todo' = Tail(todo)
  /\ UNCHANGED <<maze, kind, stage, frontier, before, iters, total, pc, outcome>>

\* reference_solve: did a value that now counts as reached change?
Moved == \E s \in GridStates : value[s] < Reach /\ value[s] # before[s]

EndRound ==
  /\ pc = "visit" /\ todo = <<>>
  /\ frontier' = IF Now.by = "map" THEN IF Moved THEN {"map"} ELSE {} ELSE next
  /\ pc' = "round"
  /\ UNCHANGED <<table, maze, kind, stage, todo, next, before, iters, total, outcome>>

\* Broken: the coarse levels' result is final.
FinishedEarly == TRUE
Finished == IsLast \/ (kind = "pyramid" /\ total + iters >= MaxIter)

\* The frontier is empty or the budget spent.
EndStage ==
  /\ pc = "round" /\ (frontier = {} \/ iters >= Budget)
  /\ UNCHANGED <<table, maze, kind, todo, next, before>>
  /\ total' = total + iters
  /\ \/ /\ Finished
        /\ outcome' = IF frontier = {} THEN "converged" ELSE "cut"
        /\ pc' = "end"
        /\ UNCHANGED <<stage, frontier, iters>>
     \/ /\ ~Finished
        /\ stage' = stage + 1
        /\ frontier' = Seed'
        /\ iters' = 0
        /\ UNCHANGED <<outcome, pc>>

Next == StartRound \/ Visit \/ EndRound \/ EndStage

Spec == Init /\ [][Next]_vars

\* One sequential program.
FairSpec == Spec /\ WF_vars(Next)
-----------------------------------------------------------------------------
(* Properties *)

TypeOK ==
  /\ TableTypeOK
  /\ kind \in Kinds /\ stage \in 1 .. Len(Stages)
  /\ todo \in Seq(GridStates)
  /\ iters \in Nat /\ total \in Nat
  /\ pc \in {"round", "visit", "end"}
  /\ outcome \in {"running", "converged", "cut"}

\* Where no wrapped sum falls below Reach, no value that counts as reached is
\* ever below the exact one, whatever wrapped entries it was computed from:
\* later rounds need only go down.
NeverBelow ==
  LET ref == ExactValue
  IN  kind # "topk" =>
        \A s \in GridStates : value[s] < Reach => value[s] >= ref[s]

\* The outcomes that a cost is made of, and their sum in unbounded integers.
Used(a, s) ==
  LET trs == Trans[a][s[2]]
  IN  IF kind = "topk" /\ Len(trs) > TopK THEN Kept(trs, TopK) ELSE DOMAIN trs
UsedSum(v, a, s) ==
  LET trs == Trans[a][s[2]]
  IN  SumOf([i \in 1 .. Len(trs) |-> IF i \in Used(a, s) THEN Term(v, s[1], trs[i]) ELSE 0])

\* What the frontiers rely on, and what depends on the prob of the outcomes: a
\* cost that counts as reached is a sum that did not wrap, with at least one
\* outcome that has a value.
CostsSteady ==
  \A s \in GridStates, a \in acts :
    Updated(s) /\ Cost(a, s) < Reach =>
      /\ UsedSum(value, a, s) < Word
      /\ \E i \in Used(a, s) : value[Target(s[1], Trans[a][s[2]][i])] < TopCost
TableSound == TypeOK /\ NeverBelow /\ CostsSteady

\* A state that one more visit would lower below Reach is still to come in
\* this round or near something that fell: a frontier forgets nobody, also
\* when a stage is cut short and the next one starts from a fresh seed.
Pending(s) ==
  \E best \in {BestOf(s)} : Updated(s) /\ best[1] < Reach /\ Falls(s, best[1])
Covered ==
  kind \notin {"reference", "stream"} /\ outcome # "cut" =>
    LET near == IF pc = "visit" THEN {todo[i] : i \in DOMAIN todo} \union Candidates(next)
                ELSE Candidates(frontier)
    IN  \A s \in GridStates : Pending(s) => s \in near

\* A converged solve, but for the approximate kinds, has the exact value and the
\* first optimal action of every state below Reach, and shows no other state as
\* reached.
ParityAtEnd ==
  outcome = "converged" /\ kind \notin {"tau", "topk"} =>
    LET ref == ExactValue
    IN  \A s \in GridStates :
          /\ ref[s] < Reach => value[s] = ref[s]
          /\ ref[s] >= Reach => value[s] >= Reach
          /\ (ref[s] < Reach /\ Updated(s)) => act[s] = BestRaw(s)[2]

\* "On reachable states the converged values are the reference's, bit for bit"
\* (frontier3d.rs, frontier2d_pad.rs, reference_solve in mod.rs).
ReachedExact ==
  outcome = "converged" =>
    LET ref == ExactValue
    IN  \A s \in GridStates : ref[s] < Reach => value[s] = ref[s]

\* Every solve converges within MaxIter rounds.
EventuallyConverged == <>(outcome = "converged")
=============================================================================
