------------------------------- MODULE AsyncGs -------------------------------
(***************************************************************************)
(* The asynchronous Gauss-Seidel frontier engine of vi_reference:          *)
(* `async_gs_engine` (solvers/mod.rs) with the per-cell evaluation that    *)
(* `frontier2d_par_unsafe_solve` passes to it, called again on the table   *)
(* it left until it converges, the way `spawn_sweep` (sweep_thread.rs)     *)
(* drives every U64Solver.  (The node's own solver_factory offers the      *)
(* serial solvers; vi_bench makes one call, MaxSolves = 1.)                *)
(*                                                                         *)
(* A column is a map cell (ix,iy); a state is <<column, theta>>.  Worker   *)
(* threads claim blocks of the candidate list from a shared cursor and     *)
(* lower the values of their columns in place while the others read them.  *)
(* Two barriers per round bracket the leader, which rebuilds the candidate *)
(* list from the columns that changed.                                     *)
(*                                                                         *)
(* Loads and stores of the value table are Relaxed atomics.  `held[s]` is  *)
(* every value s has had since the last barrier, and a load may return any *)
(* of them: that is all a Relaxed load promises between two barriers.      *)
(* Because `held` only grows until the barrier, a load taken at the moment *)
(* of the store can return whatever an earlier load could, so the loads of *)
(* one evaluation and its store are one action.                            *)
(***************************************************************************)
EXTENDS ViProblem, Sequences

CONSTANTS
  Near,       \* <<d, c>>: column c is within the dilation window of d
  Scan(_, _), \* Scan(S, reverse): the columns of S as a candidate list
  Threads, Leader,
  Block,      \* candidates per claim (16 in the code)
  MaxIter,    \* max_iter of one solve
  MaxSolves   \* calls of the solver the caller may make

Min2(a, b) == IF a < b THEN a ELSE b

\* Operators marked "Broken" are what a slip in the code would make of the
\* definition that follows them; no part of the specification uses them.

\* Broken: the next candidates are the changed columns themselves.
DilateNone(F) == F \intersect Cols

\* Columns whose states may read a state of a column of F.
Dilate(F) == {c \in Cols : \E d \in F : <<d, c>> \in Near}

\* Columns holding a value below MAX_COST in some theta layer.
SeedFrontier(v) == {c \in Cols : \E t \in Thetas : v[<<c, t>>] < MaxCost}

IsScan(q, S) ==
  /\ q \in Seq(S)
  /\ \A c \in S : \E i \in DOMAIN q : q[i] = c
  /\ \A i, j \in DOMAIN q : q[i] = q[j] => i = j

ASSUME SizeAssumption ==
  /\ Block \in Nat \ {0}
  /\ MaxIter \in Nat \ {0}
  /\ MaxSolves \in Nat
  /\ Leader \in Threads

\* A column is in the window of every column it reads: `displacement` is at
\* least the largest step of any transition, and the window is symmetric.
ASSUME WindowAssumption ==
  \A s \in EvalStates : \A k \in Slots(s) : <<Nbr(s, k)[1], s[1]>> \in Near

ASSUME ScanAssumption ==
  \A S \in SUBSET Cols : \A rev \in BOOLEAN : IsScan(Scan(S, rev), S)

VARIABLES
  value,     \* hot[.][0]: total_cost of every state
  held,      \* values of each state a Relaxed load may still return
  cand,      \* candidate columns of this round
  cursor,    \* work-stealing cursor (0-based)
  pc,        \* phase of each worker
  at, lim,   \* next and last candidate (1-based) of the claimed block
  theta,     \* theta layer under evaluation
  moved,     \* cell_changed of the column under evaluation
  changed,   \* changed[w]: columns lowered by w in this round
  round,     \* iter_count of the leader
  done,      \* the leader has ended the solve
  converged, \* converged_out
  solves     \* calls of the solver

shared == <<cand, round, done, converged, solves>>
vars == <<value, held, cand, cursor, pc, at, lim, theta, moved, changed,
          round, done, converged, solves>>

Phases == {"start", "claim", "eval", "b1", "lead", "b2", "exit"}

TypeOK ==
  /\ value \in [States -> Values]
  /\ held \in [States -> SUBSET Values]
  /\ cand \in Seq(Cols)
  /\ cursor \in Nat
  /\ pc \in [Threads -> Phases]
  /\ at \in [Threads -> Nat]
  /\ lim \in [Threads -> Nat]
  /\ theta \in [Threads -> 0 .. NT]
  /\ moved \in [Threads -> BOOLEAN]
  /\ changed \in [Threads -> SUBSET Cols]
  /\ round \in 0 .. MaxIter
  /\ done \in BOOLEAN
  /\ converged \in BOOLEAN
  /\ solves \in Nat
-----------------------------------------------------------------------------
\* The engine is entered with the seed's window as its candidates.
Init ==
  /\ value = Value0
  /\ held = [s \in States |-> {Value0[s]}]
  /\ cand = Scan(Dilate(SeedFrontier(Value0)), FALSE)
  /\ cursor = 0
  /\ pc = [w \in Threads |-> "start"]
  /\ at = [w \in Threads |-> 0]
  /\ lim = [w \in Threads |-> 0]
  /\ theta = [w \in Threads |-> 0]
  /\ moved = [w \in Threads |-> FALSE]
  /\ changed = [w \in Threads |-> {}]
  /\ round = 0
  /\ done = FALSE
  /\ converged = FALSE
  /\ solves = 1

\* The compute phase begins: the worker empties its own changed list.
Start(w) ==
  /\ pc[w] = "start"
  /\ changed' = [changed EXCEPT ![w] = {}]
  /\ pc' = [pc EXCEPT ![w] = "claim"]
  /\ UNCHANGED <<value, held, cursor, at, lim, theta, moved, shared>>

\* Broken: successive blocks overlap in one candidate.
NextCursorShort == cursor + Block - 1
NextCursor == cursor + Block

BlockEnd == Min2(cursor + Block, Len(cand))

\* cursor.fetch_add(BLOCK): a block of candidates, or the end of the list.
Claim(w) ==
  /\ pc[w] = "claim"
  /\ cursor' = NextCursor
  /\ \/ /\ cursor >= Len(cand)
        /\ pc' = [pc EXCEPT ![w] = "b1"]
        /\ UNCHANGED <<at, lim, theta, moved>>
     \/ /\ cursor < Len(cand)
        /\ pc' = [pc EXCEPT ![w] = "eval"]
        /\ at' = [at EXCEPT ![w] = cursor + 1]
        /\ lim' = [lim EXCEPT ![w] = BlockEnd]
        /\ theta' = [theta EXCEPT ![w] = 0]
        /\ moved' = [moved EXCEPT ![w] = FALSE]
  /\ UNCHANGED <<value, held, changed, shared>>

Col(w) == cand[at[w]]
Evaluating(w) == <<Col(w), theta[w]>>

\* Broken: plain 64-bit accesses, whose halves a load may mix.
TornViews(s) ==
  {f \in [Slots(s) -> Values] :
     \A k \in Slots(s) : \E hi, lo \in held[Nbr(s, k)] :
       f[k] = (hi \div 4) * 4 + (lo % 4)}

\* What the loads of s may return, taken together.
Views(s) ==
  {f \in [Slots(s) -> UNION {held[Nbr(s, k)] : k \in Slots(s)}] :
     \A k \in Slots(s) : f[k] \in held[Nbr(s, k)]}

\* Broken: the column is not marked as changed.
StoreSilent(w, s, c) ==
  /\ value' = [value EXCEPT ![s] = c]
  /\ held' = [held EXCEPT ![s] = @ \union {c}]
  /\ UNCHANGED moved

Store(w, s, c) ==
  /\ value' = [value EXCEPT ![s] = c]
  /\ held' = [held EXCEPT ![s] = @ \union {c}]
  /\ moved' = [moved EXCEPT ![w] = TRUE]

\* Broken: an equal value counts as an update.
RelaxEqual(w) ==
  /\ pc[w] = "eval"
  /\ theta[w] < NT
  /\ Evaluating(w) \in EvalStates
  /\ \E before \in held[Evaluating(w)], f \in Views(Evaluating(w)) :
       LET c == Backup(Evaluating(w), f)
       IN  \/ c <= before /\ Store(w, Evaluating(w), c)
           \/ c > before /\ UNCHANGED <<value, held, moved>>
  /\ theta' = [theta EXCEPT ![w] = @ + 1]
  /\ UNCHANGED <<cursor, pc, at, lim, changed, shared>>

\* One theta layer of a claimed column: load it, load the neighbours, store
\* the backup if it is lower.
Relax(w) ==
  /\ pc[w] = "eval"
  /\ theta[w] < NT
  /\ Evaluating(w) \in EvalStates
  /\ \E before \in held[Evaluating(w)], f \in Views(Evaluating(w)) :
       LET c == Backup(Evaluating(w), f)
       IN  \/ c < before /\ Store(w, Evaluating(w), c)
           \/ c >= before /\ UNCHANGED <<value, held, moved>>
  /\ theta' = [theta EXCEPT ![w] = @ + 1]
  /\ UNCHANGED <<cursor, pc, at, lim, changed, shared>>

\* An obstacle or final theta layer is passed over.
Skip(w) ==
  /\ pc[w] = "eval"
  /\ theta[w] < NT
  /\ Evaluating(w) \notin EvalStates
  /\ theta' = [theta EXCEPT ![w] = @ + 1]
  /\ UNCHANGED <<value, held, cursor, pc, at, lim, moved, changed, shared>>

\* All layers done: report the column if it was lowered, take the next one
\* of the block, or go back to the cursor.
EndColumn(w) ==
  /\ pc[w] = "eval"
  /\ theta[w] = NT
  /\ changed' = IF moved[w]
                THEN [changed EXCEPT ![w] = @ \union {Col(w)}] ELSE changed
  /\ at' = [at EXCEPT ![w] = @ + 1]
  /\ theta' = [theta EXCEPT ![w] = 0]
  /\ moved' = [moved EXCEPT ![w] = FALSE]
  /\ pc' = IF at[w] < lim[w] THEN pc ELSE [pc EXCEPT ![w] = "claim"]
  /\ UNCHANGED <<value, held, cursor, lim, shared>>

\* Broken: the leader goes ahead before the other workers have arrived.
Barrier1Early ==
  /\ pc[Leader] = "b1"
  /\ pc' = [w \in Threads |-> IF w = Leader THEN "lead"
                             ELSE IF pc[w] = "b1" THEN "b2" ELSE pc[w]]
  /\ UNCHANGED <<value, held, cursor, at, lim, theta, moved, changed, shared>>

\* barrier B1: every store of the round is visible to every thread.
Barrier1 ==
  /\ \A w \in Threads : pc[w] = "b1"
  /\ held' = [s \in States |-> {value[s]}]
  /\ pc' = [w \in Threads |-> IF w = Leader THEN "lead" ELSE "b2"]
  /\ UNCHANGED <<value, cursor, at, lim, theta, moved, changed, shared>>

\* Broken: the leader reads only its own list.
NewFrontierOwn == changed[Leader]
NewFrontier == UNION {changed[w] : w \in Threads}

Continue == NewFrontier # {} /\ round + 1 < MaxIter

\* The leader alone: next candidates from the changed columns, scanned in the
\* other direction, or the end of the solve.
Lead ==
  /\ pc[Leader] = "lead"
  /\ round' = round + 1
  /\ IF Continue
     THEN /\ cand' = Scan(Dilate(NewFrontier), (round + 1) % 2 = 1)
          /\ cursor' = 0
          /\ UNCHANGED <<done, converged>>
     ELSE /\ done' = TRUE
          /\ converged' = (NewFrontier = {})
          /\ UNCHANGED <<cand, cursor>>
  /\ pc' = [pc EXCEPT ![Leader] = "b2"]
  /\ UNCHANGED <<value, held, at, lim, theta, moved, changed, solves>>

\* barrier B2: the leader's work is visible; leave or start the next round.
Barrier2 ==
  /\ \A w \in Threads : pc[w] = "b2"
  /\ pc' = [w \in Threads |-> IF done THEN "exit" ELSE "start"]
  /\ UNCHANGED <<value, held, cursor, at, lim, theta, moved, changed, shared>>

\* The caller runs the solver again on the table it left, with a seed made of
\* every reached column.
NextChunk ==
  /\ \A w \in Threads : pc[w] = "exit"
  /\ ~converged
  /\ solves < MaxSolves
  /\ solves' = solves + 1
  /\ cand' = Scan(Dilate(SeedFrontier(value)), FALSE)
  /\ cursor' = 0
  /\ pc' = [w \in Threads |-> "start"]
  /\ changed' = [w \in Threads |-> {}]
  /\ round' = 0
  /\ done' = FALSE
  /\ UNCHANGED <<value, held, at, lim, theta, moved, converged>>

Worker(w) == Start(w) \/ Claim(w) \/ Relax(w) \/ Skip(w) \/ EndColumn(w)

Next ==
  \/ \E w \in Threads : Worker(w)
  \/ Barrier1
  \/ Lead
  \/ Barrier2
  \/ NextChunk

\* Every thread is scheduled: the workers are OS threads that only wait at
\* the barriers, and the caller loops until the solver converges.
Fairness ==
  /\ \A w \in Threads : WF_vars(Worker(w))
  /\ WF_vars(Barrier1)
  /\ WF_vars(Lead)
  /\ WF_vars(Barrier2)
  /\ WF_vars(NextChunk)

Spec == Init /\ [][Next]_vars
FairSpec == Spec /\ Fairness
-----------------------------------------------------------------------------
(* Properties *)

Computing(w) == pc[w] = "eval"
InCompute == \A w \in Threads : pc[w] \in {"start", "claim", "eval", "b1"}
AllAt(p) == \A w \in Threads : pc[w] = p

\* Every claim of the work-stealing cursor is exclusive: at any moment a
\* column is evaluated by one worker and is in no other worker's block, so
\* each state has one writer per round.
SingleWriter ==
  \A w, v \in Threads : w # v /\ Computing(w) /\ Computing(v) =>
    \A i \in at[w] .. lim[w], j \in at[v] .. lim[v] : cand[i] # cand[j]

\* The columns this round has reported, or is about to report, as lowered.
Reporting(w) ==
  \/ pc[w] \in {"claim", "eval", "b1", "lead"}
  \/ pc[w] = "b2" /\ pc[Leader] = "lead"
Dirty ==
  (UNION {changed[w] : w \in {v \in Threads : Reporting(v)}})
    \union {Col(w) : w \in {v \in Threads : Computing(v) /\ moved[v]}}

Unclaimed == {cand[i] : i \in cursor + 1 .. Len(cand)}

\* s is still going to be evaluated in this round.
Scheduled(s) ==
  \/ s[1] \in Unclaimed
  \/ \E w \in Threads :
       /\ Computing(w)
       /\ \/ s[1] \in {cand[i] : i \in at[w] + 1 .. lim[w]}
          \/ s[1] = Col(w) /\ s[2] >= theta[w]

Consistent(s) == value[s] <= Backup(s, View(s, value))

\* No lost wake-up: while a solve runs, a state that could still be lowered
\* is either going to be evaluated in this round or reads a column that will
\* be in the next frontier.  This is what lets the leader stop on an empty
\* changed list although the workers read half-updated neighbours.
NoLostUpdate ==
  ~done => \A s \in EvalStates :
    \/ Consistent(s)
    \/ Scheduled(s)
    \/ \E k \in Slots(s) : Nbr(s, k)[1] \in Dirty

\* converged_out means the whole table satisfies the Bellman equation, also
\* for columns the last rounds never looked at.
ConvergedIsFixedPoint ==
  converged => \A s \in EvalStates : value[s] = Backup(s, View(s, value))

\* No interleaving, stale load or repeated chunk takes a value below the
\* solution of the Bellman equation.
AboveReference == LET ref == Reference IN \A s \in States : ref[s] <= value[s]

\* The result is exactly the table of the deterministic solver, whatever the
\* number of threads, the block size and the chunks it was computed in.
ExactAtConvergence == converged => value = Reference

\* A racing store never raises a value that another thread has lowered.
OnlyDecrease == [][\A s \in States : value'[s] <= value[s]]_vars

\* The leader replaces the candidate list only while no worker reads it.
RebuildAlone ==
  [][cand' # cand =>
       \A w \in Threads : pc[w] \in {"lead", "b2", "exit"}]_vars

\* Every step of the engine is a step of asynchronous value iteration: what
\* a worker stores is never below the backup of the table at that moment,
\* although it was computed from stale loads, and the flag that ends the
\* solve is raised only on the exact table.
Result == IF converged THEN "converged" ELSE IF done THEN "stopped" ELSE "running"
Vi == INSTANCE AsyncVi WITH result <- Result
ImplementsAsyncVi == Vi!Spec

-----------------------------------------------------------------------------
(* The inductive invariant behind the properties, part by part. *)

\* The barriers keep the workers in step, and only the leader leads.
PhaseInv ==
  /\ \/ InCompute /\ ~done
     \/ /\ pc[Leader] = "lead" /\ ~done
        /\ \A w \in Threads \ {Leader} : pc[w] = "b2"
     \/ AllAt("b2")
     \/ AllAt("exit") /\ done
  /\ converged => done
  /\ ~done => round < MaxIter

\* Claimed blocks lie behind the cursor and do not overlap; a worker goes to
\* the barrier only when the list is used up.
ClaimInv ==
  /\ \A i, j \in DOMAIN cand : cand[i] = cand[j] => i = j
  /\ \A w \in Threads : Computing(w) =>
       1 <= at[w] /\ at[w] <= lim[w] /\ lim[w] <= Len(cand) /\ lim[w] <= cursor
  /\ \A w, v \in Threads : w # v /\ Computing(w) /\ Computing(v) =>
       lim[w] < at[v] \/ lim[v] < at[w]
  /\ \A w \in Threads : pc[w] \in {"b1", "lead"} => cursor >= Len(cand)

\* A stale value of a state can be loaded only while its column is on its way
\* to the next frontier, and never by the worker that will evaluate it.
HeldInv ==
  \A s \in States :
    /\ value[s] \in held[s]
    /\ \A v \in held[s] : value[s] <= v
    /\ held[s] # {value[s]} => InCompute /\ s[1] \in Dirty
    /\ Scheduled(s) => held[s] = {value[s]}

\* The table lies between its backup and the initial table.
ValueInv ==
  /\ \A s \in EvalStates : Backup(s, View(s, value)) <= value[s]
  /\ \A s \in States : value[s] <= Value0[s]
  /\ \A s \in States \ EvalStates : value[s] = Value0[s]

IInv ==
  /\ TypeOK /\ PhaseInv /\ ClaimInv /\ HeldInv /\ ValueInv
  /\ AboveReference /\ NoLostUpdate /\ ConvergedIsFixedPoint

\* The solve, chunk after chunk, reaches convergence: each round that is not
\* the last lowers some value.
EventuallyConverged == <>converged
=============================================================================
