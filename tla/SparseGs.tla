------------------------------- MODULE SparseGs -------------------------------
(***************************************************************************)
(* The solvers on the fused layout: frontier2d_fused.rs and, with a mask   *)
(* of changed thetas per column, frontier2d_sparse.rs.                     *)
(*                                                                         *)
(* A solve copies vi.states into one word per state, cp = total_cost +     *)
(* penalty, with a sentinel for "unreached or obstacle"; workers claim     *)
(* blocks of candidate columns and lower cp in place with Relaxed atomics; *)
(* between the two barriers of a round the leader alone replaces the masks *)
(* and the candidates.  At the end the policy is computed from cp and both *)
(* go back to vi.states; the caller may then solve again from there.       *)
(*                                                                         *)
(* The barriers themselves are those of AsyncGs, which has them in detail. *)
(***************************************************************************)
EXTENDS GridMdp

CONSTANTS
  Reference, \* table of the deterministic solver
  Unreached, \* the sentinel u64::MAX
  Layouts,   \* of "masked" (frontier2d_sparse) and "plain" (frontier2d_fused)
  Threads,
  Block,     \* candidates per claim
  MaxIter,   \* max_iter of a call
  MaxCalls   \* calls of the solver

MaxPenalty == Max({Penalty[s] : s \in GridStates})
Words == 0 .. TopCost - 1 + MaxPenalty

ASSUME FusedAssumption ==
  /\ Layouts \subseteq {"masked", "plain"}
  /\ Unreached \notin Words /\ Threads # {}
  /\ Block \in Nat \ {0} /\ MaxIter \in Nat \ {0} /\ MaxCalls \in Nat \ {0}

\* Reference is the table with which the deterministic solver ends.  Each of
\* its rounds but the last lowers a value.
ASSUME ReferenceAssumption ==
  \E n \in 0 .. Cardinality(GridStates) * TopCost + 1 :
    /\ ParSolve(GridValue0, n).frontier = {}
    /\ Reference = ParSolve(GridValue0, n).value

VARIABLES
  layout,  \* which of the two solvers runs
  total,   \* total_cost of vi.states
  action,  \* optimal_action of vi.states
  cp,      \* the fused table of the running solve
  held,    \* what a Relaxed load of cp may return
  cand, cursor,
  job,     \* of each worker: "claim", "eval" or "wait" (for the leader)
  at, lim, \* its block of candidates
  todo,    \* layers left of the column at[w]
  cmask,   \* its layers that fell
  changed, \* changed[w]: columns lowered by w, with their layers
  mask,    \* mask_arr: layers of each column that fell in the last round
  prev,    \* prev_cells
  iter,    \* iter_count
  phase,   \* "sweep", "done" (before the write-back) or "returned"
  converged,
  calls

table == <<total, action>>
words == <<cp, held>>
lists == <<cand, cursor>>
scan == <<job, at, lim, todo, cmask, changed>>
round == <<mask, prev, iter>>
status == <<phase, converged, calls>>
vars == <<layout, table, words, lists, scan, round, status>>

Layers == 0 .. NTheta - 1

TypeOK ==
  /\ layout \in Layouts
  /\ total \in [GridStates -> 0 .. TopCost]
  /\ action \in [GridStates -> SUBSET Actions]
  /\ cp \in [GridStates -> Words \union {Unreached}]
  /\ held \in [GridStates -> SUBSET (Words \union {Unreached})]
  /\ cand \in Seq(GridCols) /\ cursor \in Nat
  /\ job \in [Threads -> {"claim", "eval", "wait"}]
  /\ at \in [Threads -> Nat] /\ lim \in [Threads -> Nat]
  /\ todo \in [Threads -> SUBSET Layers] /\ cmask \in [Threads -> SUBSET Layers]
  /\ changed \in [Threads -> SUBSET (GridCols \X SUBSET Layers)]
  /\ mask \in [GridCols -> SUBSET Layers] /\ prev \subseteq GridCols
  /\ iter \in 0 .. MaxIter
  /\ phase \in {"sweep", "done", "returned"}
  /\ converged \in BOOLEAN /\ calls \in 1 .. MaxCalls
-----------------------------------------------------------------------------
(* The fused layout. *)

\* Broken: the sentinel of unreached states is forgotten.
BuildPlain(v) ==
  [s \in GridStates |-> IF Free(s) THEN v[s] + Penalty[s] ELSE Unreached]

\* Fused::build_direct.
Build(v) ==
  [s \in GridStates |-> IF Free(s) /\ v[s] # TopCost THEN v[s] + Penalty[s]
                        ELSE Unreached]

\* The value that a word stands for.
Unfused(s, word) == IF word = Unreached THEN TopCost ELSE word - Penalty[s]
ValueOf == [s \in GridStates |-> Unfused(s, cp[s])]

Outcomes(s) == UNION {{<<a, i>> : i \in DOMAIN Trans[a][s[2]]} : a \in Actions}

\* What a load of an outcome may return; the padding holds the sentinel.
MayLoad(d) == IF d \in GridStates THEN held[d] ELSE {Unreached}
Loads(s) ==
  {f \in [Outcomes(s) -> UNION {MayLoad(GridNbr(s, k)) : k \in Outcomes(s)}] :
     \A k \in Outcomes(s) : f[k] \in MayLoad(GridNbr(s, k))}

Now(s) ==
  [k \in Outcomes(s) |->
     LET d == GridNbr(s, k) IN IF d \in GridStates THEN cp[d] ELSE Unreached]

\* action_cost_fused.
FusedCost(a, s, f) ==
  LET trs == Trans[a][s[2]]
      terms == [i \in 1 .. Len(trs) |-> f[<<a, i>>] * trs[i].prob]
  IN  IF \E i \in DOMAIN trs : f[<<a, i>>] = Unreached THEN TopCost
      ELSE SumOf(terms) \div ProbBase

Lowest(s, f) == Min({TopCost} \union {FusedCost(a, s, f) : a \in Actions})
BestActions(s, f) ==
  {a \in Actions : FusedCost(a, s, f) = Lowest(s, f) /\ FusedCost(a, s, f) < TopCost}

\* Broken: unreached states are left out also when the solve was cut short.
PassOverAll(s) == s \notin GridEval \/ cp[s] = Unreached

\* final_policy_fused: states whose action is not computed.
PassOver(s) == s \notin GridEval \/ (converged /\ cp[s] = Unreached)
Policy == [s \in GridStates |-> IF PassOver(s) THEN {} ELSE BestActions(s, Now(s))]
-----------------------------------------------------------------------------
(* The masks. *)

\* Broken: the changed layers themselves.
RotDilateNone(M) == M

\* rot_dilate: the layers within DispT of M around the circle.
RotDilate(M) == {a \in Layers : \E b \in M : CircDist(a, b) <= DispT}

Gather(c) ==
  IF iter = 0 \/ layout = "plain" THEN Layers
  ELSE RotDilate(UNION {mask[d] : d \in {e \in GridCols : <<e, c>> \in GridNear}})

ToEval(c) == {i \in Gather(c) : <<c, i>> \in GridEval}

Told == UNION {changed[w] : w \in Threads}

\* Broken: the columns of the round before are cleared last.
MaskClearedLast ==
  [c \in GridCols |-> IF c \in prev THEN {} ELSE UNION {e[2] : e \in {d \in Told : d[1] = c}}]

\* The leader clears the columns of the round before and stores the new ones.
MaskNext ==
  [c \in GridCols |->
     IF \E e \in Told : e[1] = c THEN UNION {e[2] : e \in {d \in Told : d[1] = c}}
     ELSE IF c \in prev THEN {} ELSE mask[c]]
-----------------------------------------------------------------------------
Each(x) == [w \in Threads |-> x]
NoMask == [c \in GridCols |-> {}]
Candidates(v) == GridScan(GridDilate(GridSeed(v)), FALSE)

Init ==
  /\ layout \in Layouts
  /\ total = GridValue0
  /\ action = [s \in GridStates |-> {}]
  /\ cp = Build(GridValue0)
  /\ held = [s \in GridStates |-> {cp[s]}]
  /\ cand = Candidates(GridValue0) /\ cursor = 0
  /\ job = Each("claim") /\ at = Each(0) /\ lim = Each(0)
  /\ todo = Each({}) /\ cmask = Each({}) /\ changed = Each({})
  /\ mask = NoMask /\ prev = {} /\ iter = 0
  /\ phase = "sweep" /\ converged = FALSE /\ calls = 1

\* cursor.fetch_add(BLOCK); a worker that finds the list used up waits.
Claim(w) ==
  /\ phase = "sweep" /\ job[w] = "claim"
  /\ cursor' = cursor + Block
  /\ \/ /\ cursor >= Len(cand)
        /\ job' = [job EXCEPT ![w] = "wait"]
        /\ UNCHANGED <<at, lim, todo>>
     \/ /\ cursor < Len(cand)
        /\ job' = [job EXCEPT ![w] = "eval"]
        /\ at' = [at EXCEPT ![w] = cursor + 1]
        /\ lim' = [lim EXCEPT ![w] = Min({cursor + Block, Len(cand)})]
        /\ todo' = [todo EXCEPT ![w] = ToEval(cand[cursor + 1])]
  /\ UNCHANGED <<layout, table, words, cand, cmask, changed, round, status>>

ColOf(w) == cand[at[w]]

\* Broken: an equal value counts as a change.
FallsEqual(cost, before) == cost <= before /\ cost < TopCost
Falls(cost, before) == cost < before

\* The lowest layer left of the column: load it and its outcomes, store the
\* backup if it is lower.
RelaxLayer(w) ==
  /\ job[w] = "eval" /\ todo[w] # {}
  /\ \E i \in {Min(todo[w])} : \E s \in {<<ColOf(w), i>>} :
       /\ \E own \in held[s], f \in Loads(s) : \E cost \in {Lowest(s, f)} :
            \/ /\ Falls(cost, Unfused(s, own))
               /\ cp' = [cp EXCEPT ![s] = cost + Penalty[s]]
               /\ held' = [held EXCEPT ![s] = @ \union {cost + Penalty[s]}]
               /\ cmask' = [cmask EXCEPT ![w] = @ \union {i}]
            \/ ~Falls(cost, Unfused(s, own)) /\ UNCHANGED <<words, cmask>>
       /\ todo' = [todo EXCEPT ![w] = @ \ {i}]
  /\ UNCHANGED <<layout, table, lists, job, at, lim, changed, round, status>>

\* Report the column if a layer fell; the next column of the block, or back
\* to the cursor.
EndColumn(w) ==
  /\ job[w] = "eval" /\ todo[w] = {}
  /\ changed' = IF cmask[w] = {} THEN changed
                ELSE [changed EXCEPT ![w] = @ \union {<<ColOf(w), cmask[w]>>}]
  /\ cmask' = [cmask EXCEPT ![w] = {}]
  /\ at' = [at EXCEPT ![w] = @ + 1]
  /\ IF at[w] < lim[w]
     THEN todo' = [todo EXCEPT ![w] = ToEval(cand[at[w] + 1])] /\ UNCHANGED job
     ELSE job' = [job EXCEPT ![w] = "claim"] /\ UNCHANGED todo
  /\ UNCHANGED <<layout, table, words, lists, lim, round, status>>

\* Between the barriers: masks, next candidates in the other direction, or
\* the end of the sweeps.
Lead ==
  /\ phase = "sweep" /\ \A w \in Threads : job[w] = "wait"
  /\ held' = [s \in GridStates |-> {cp[s]}]
  /\ iter' = iter + 1
  /\ mask' = IF layout = "masked" THEN MaskNext ELSE mask
  /\ prev' = IF layout = "masked" THEN {e[1] : e \in Told} ELSE prev
  /\ IF Told # {} /\ iter + 1 < MaxIter
     THEN /\ cand' = GridScan(GridDilate({e[1] : e \in Told}), (iter + 1) % 2 = 1)
          /\ cursor' = 0
          /\ job' = Each("claim") /\ changed' = Each({})
          /\ UNCHANGED <<phase, converged>>
     ELSE /\ phase' = "done" /\ converged' = (Told = {})
          /\ UNCHANGED <<lists, job, changed>>
  /\ UNCHANGED <<layout, table, cp, at, lim, todo, cmask, calls>>

\* final_policy_fused, write_back_fused, return.
WriteBack ==
  /\ phase = "done"
  /\ action' = Policy
  /\ total' = ValueOf
  /\ phase' = "returned"
  /\ UNCHANGED <<layout, words, lists, scan, round, converged, calls>>

\* The caller solves again from vi.states.
CallAgain ==
  /\ phase = "returned" /\ ~converged /\ calls < MaxCalls
  /\ cp' = Build(total)
  /\ held' = [s \in GridStates |-> {cp'[s]}]
  /\ cand' = Candidates(total) /\ cursor' = 0
  /\ job' = Each("claim") /\ changed' = Each({})
  /\ mask' = NoMask /\ prev' = {} /\ iter' = 0
  /\ phase' = "sweep" /\ calls' = calls + 1
  /\ UNCHANGED <<layout, table, at, lim, todo, cmask, converged>>

Worker(w) == Claim(w) \/ RelaxLayer(w) \/ EndColumn(w)
Next == (\E w \in Threads : Worker(w)) \/ Lead \/ WriteBack \/ CallAgain

\* The workers are OS threads that only wait at the barriers; the caller
\* loops until the solve converges.
Fairness ==
  /\ \A w \in Threads : WF_vars(Worker(w))
  /\ WF_vars(Lead) /\ WF_vars(WriteBack) /\ WF_vars(CallAgain)

Spec == Init /\ [][Next]_vars
FairSpec == Spec /\ Fairness
-----------------------------------------------------------------------------
(* Properties *)

\* s is going to be evaluated in this round.
Coming(s) ==
  \/ s[2] \in ToEval(s[1]) /\ s[1] \in {cand[i] : i \in cursor + 1 .. Len(cand)}
  \/ \E w \in Threads : job[w] = "eval" /\
       \/ s[1] = ColOf(w) /\ s[2] \in todo[w]
       \/ s[2] \in ToEval(s[1]) /\ s[1] \in {cand[i] : i \in at[w] + 1 .. lim[w]}

\* d fell in this round and the masks of the next one will say so.
Announced(d) ==
  \/ \E e \in Told : e[1] = d[1] /\ d[2] \in e[2]
  \/ \E w \in Threads : job[w] = "eval" /\ d[1] = ColOf(w) /\ d[2] \in cmask[w]

\* A state that could be lowered is evaluated in this round or reads a state
\* whose fall the next masks announce: the masks never hide a change from a
\* layer that depends on it, whatever the workers have read.
NoHiddenChange ==
  phase = "sweep" => \A s \in GridEval :
    \/ Unfused(s, cp[s]) <= Lowest(s, Now(s))
    \/ Coming(s)
    \/ \E k \in Outcomes(s) : Announced(GridNbr(s, k))

\* Once a call has returned, the policy in vi.states is the argmin on the
\* values in vi.states, also when the call was cut short and a state that is
\* still unreached has a neighbour that is not.
PolicyFits ==
  phase = "returned" => \A s \in GridStates :
    action[s] = IF s \in GridEval THEN GridBest(s, GridView(s, total)) ELSE {}

\* What the three properties rest on, an inductive invariant.

\* The words that may stand for a value of s.
WordsOf(s) ==
  {Unreached} \union
  {u \in Words : Free(s) /\ u >= Penalty[s] /\ u - Penalty[s] < TopCost}

\* A load returns a word that stood for a value at least as high.
LoadsSound ==
  \A s \in GridStates :
    /\ cp[s] \in held[s] /\ held[s] \subseteq WordsOf(s)
    /\ \A u \in held[s] : Unfused(s, cp[s]) <= Unfused(s, u)

\* The blocks of the workers are disjoint pieces of the list behind the
\* cursor, and a worker waits only when the list is used up.
ClaimsSound ==
  /\ \A i, j \in 1 .. Len(cand) : cand[i] = cand[j] => i = j
  /\ \A w \in Threads :
       /\ job[w] = "wait" => cursor >= Len(cand)
       /\ job[w] # "eval" => cmask[w] = {}
       /\ job[w] = "eval" =>
            /\ at[w] \in 1 .. lim[w] /\ lim[w] <= cursor /\ lim[w] <= Len(cand)
            /\ todo[w] \subseteq ToEval(ColOf(w))
            /\ \A v \in Threads \ {w} :
                 job[v] = "eval" => lim[v] < at[w] \/ lim[w] < at[v]

\* Only its own worker has lowered a state since the round began, after its
\* evaluation: a state to come is read as it is, and one that a load may
\* return an old word of is announced.
StaleAnnounced ==
  phase = "sweep" => \A s \in GridStates :
    /\ held[s] # {cp[s]} => Announced(s)
    /\ Coming(s) => held[s] = {cp[s]}

Quiet == \A s \in GridEval : Unfused(s, cp[s]) <= Lowest(s, Now(s))

Phases ==
  /\ phase = "sweep" => ~converged /\ iter < MaxIter
  /\ phase # "sweep" => \A w \in Threads : job[w] = "wait"
  /\ phase # "sweep" /\ converged => Quiet
  /\ phase = "returned" => total = ValueOf

\* The values are at least those of Reference and of their own backup.
ValuesAbove ==
  \A s \in GridStates :
    IF s \in GridEval
    THEN Reference[s] <= ValueOf[s] /\ GridBackup(s, GridView(s, ValueOf)) <= ValueOf[s]
    ELSE ValueOf[s] = GridValue0[s]

IInv ==
  /\ TypeOK /\ LoadsSound /\ ClaimsSound /\ StaleAnnounced
  /\ Phases /\ ValuesAbove /\ NoHiddenChange /\ PolicyFits

\* The fused solver is an asynchronous value iteration on the values its
\* words stand for, through cuts and calls, and converges only on the table
\* of the deterministic solver.
Result ==
  IF phase = "sweep" THEN "running" ELSE IF converged THEN "converged" ELSE "stopped"
Vi ==
  INSTANCE AsyncVi WITH Cols <- GridCols, NT <- NTheta, EvalStates <- GridEval,
    Slots <- GridSlots, Nbr <- GridNbr, Backup <- GridBackup, MaxCost <- TopCost,
    Value0 <- GridValue0, value <- ValueOf, result <- Result
ImplementsAsyncVi == Vi!Spec

\* Cut after cut, the calls converge and vi.states then holds the values.
EventuallyConverged == <>(phase = "returned" /\ converged)
=============================================================================
