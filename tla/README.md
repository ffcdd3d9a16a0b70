# Verification of value_iteration_rust in TLA+

This directory holds TLA+ models of the planner in this repository, the TLC
configurations that check them, and the theorems that TLAPS proves about them.
`PROJECT.json` is the index: for every definition the source lines it models,
for every run the properties it checks, for every property a slip in the code
that it catches, for every hazard of the code the properties that would catch
it, and the list of theorems.

    tlc -workers 2 -config MCAsyncGsLong.cfg MCAsyncGs    # a run
    tlapm AsyncGsProofs.tla                               # the proofs of a module

## 1. The system

The repository computes navigation plans by value iteration on a grid of
states (ix, iy, theta).  Every free state gets the cost of the best path to
the goal under probabilistic motions, by applying the Bellman backup until
nothing changes.  The same computation exists many times, in solvers that
promise the same result.

| part | source | state it keeps | operations | models |
|---|---|---|---|---|
| planning problem, deterministic solver | `vi_rs/vi_reference/src/solvers/frontier2d_pad.rs`, `frontier2d_par.rs`, `state_transition.rs` | padded table, frontier | backup, dilation, round | `GridGeom`, `GridMdp` |
| asynchronous parallel solver | `solvers/mod.rs` (`async_gs_engine`), `frontier2d_par_unsafe.rs` | table of atomics, candidate list, cursor, changed lists, barriers | claim, relax, report, rebuild, end | `AsyncGs` |
| fused and sparse parallel solvers | `frontier2d_fused.rs`, `frontier2d_sparse.rs` | cost-plus-penalty words, masks of changed thetas | the same, write-back, final policy | `SparseGs` |
| out-of-core solver | `frontier2d_sparse_compact.rs` | blocks of rows, watermark, counters, masks, sink | wave, finalize, evict | `CompactVi` |
| serial solvers, exact and approximate | `frontier2d.rs`, `frontier3d.rs`, `frontier2d_soa.rs`, `block.rs`, `stack.rs`, `pyramid.rs`, `stream.rs`, `tau.rs`, `topk.rs`, `coarse_theta.rs` | table, frontier | round, visit, stage | `SerialVi` |
| priority solvers | `priority.rs`, `prio_lc.rs` | heap with stale entries | pop, relax | `PriorityVi` |
| `ValueIterator` | `value_iterator.rs`, `state.rs`, `action.rs` | table, actions, sweep orders, status, per-thread progress | set map, set goal, sweep by one or many threads | `ValueIter` |
| local planner | `local.rs` | window around the robot, local penalties | scan, move, local loop | `LocalVi` |
| bitboards | `bitboard/*.rs` | words | set, dilate, combine, enumerate | `Bitboards` |
| ROS 2 node | `vi_ros2/vi_node/src/main.rs`, `sweep_thread.rs` | slot with the sweep handle, cancel flags, channels, threads | goal callback, pump, timers, worker | `ViNode` |
| FPGA driver and kernels | `vi_fpga/driver`, `vi_fpga/hls` | registers, interrupts, shared table | run, wait, sweep by two units | not modelled (section 8) |
| the rest | MATLAB model, PYNQ overlays, `vi_bench`, bridges, file output | | | not modelled (section 8) |

How they interact: the node builds a `ValueIterator`; a worker thread calls
`solve` on it in chunks, and between chunks answers the timers' read requests,
looks at its cancel flag and sends a feedback tick.  A solver is a function call
from outside.  Inside, the parallel ones start threads that share the table.

What is hard:

* the parallel solvers read values while other threads lower them, and stop on
  the evidence of one round's changed lists or masks;
* the fused solvers keep several encodings of one table in step (words, masks,
  candidates, policy), also when a call is cut short;
* the out-of-core solver frees memory that later steps must never read again;
* the priority solvers keep stale heap entries and throw entries away;
* the node passes one handle between the executor, the pumps of several goals
  and the timers; two of them join threads;
* the reference backup wraps in 64 bits, the padded one clamps;
* bitboard rows end inside a word.

What makes each part correct: a solver that reports convergence has the table
every other exact solver has, and a solve that was cut off can be taken up
again; nothing that could still change a state is forgotten by a frontier,
mask or heap; freed memory is never needed; the node never loses a worker,
never waits forever, answers every goal, and drives only by the newest plan.

## 2. The modules

Problem and abstract specifications:

* **ViTable**, **ViProblem** - what a solver is given: columns, headings, the
  states to update, a `Backup` operator with its loads, the initial table, and
  `Reference`, the table the deterministic solver reaches.  `ViProblem` states
  what the solvers rely on as assumptions: the backup is monotone and stays in
  range, a state with only unreached neighbours stays unreached, no state starts
  below its backup, `Reference` is the greatest solution of the Bellman
  equation.
* **Sums**, **GridGeom**, **GridMdp** - the concrete problem: grid, transitions,
  dilation window, row order; padded backup with the clamp of
  `action_cost_pad`, `set_goal`, and the deterministic (Jacobi) solver
  `frontier2d_par` as a function of the number of rounds.
* **AsyncVi** - the promise of an exact solver to its caller: lower one state
  at a time, never below its backup; stop and be resumed; converge only with
  `Reference`.
* **CellSet** - the promise of a bitboard: a set of cells and an iterator that
  returns each once, in order.

Solvers:

* **AsyncGs** - the parallel engine.  One process per thread; `Claim` is the
  `fetch_add` on the cursor, `Relax` one theta layer of `eval`, `EndColumn` the
  push to the changed list, `Barrier1` and `Barrier2` the waits, `Lead` the
  leader's serial part, `NextChunk` a further call on the table it left.
* **SparseGs** - the fused word layout, with and without theta masks: `Build`
  copies `vi.states` into words `cp = total_cost + penalty` with a sentinel,
  workers lower words, `Lead` replaces masks and candidates, `WriteBack` is
  write-back and final policy, `CallAgain` the caller.
* **CompactVi** - blocks of rows, waves up to a threshold relaxed by one thread
  (a scan in place) or by racing threads with masks, `Finalize` with the
  watermark and the sink, eviction, the next threshold.
* **RawVi** - the state table and the backup of `value_iterator.rs`, which wraps
  modulo `Word` (2^64); maps, goals and action lists are variables chosen at the
  start, so one run covers every small map.
* **SerialVi** - twelve solver names as `kind`: what a round visits, the backup,
  the stages.
* **PriorityVi** - the heap as a bag of <<label, state>>; `Settle`, `Discard`,
  `Cut` are the three ways a pop goes on, `Relax` is `relax_cell` on one
  predecessor.
* **ValueIter** - the life of a `ValueIterator`: maps, goals, status, sweeps alone
  (one step) and racing (one step per load and store).
* **LocalVi** - window, scans, local loop; `loops` counts the loops since the last
  other call.
* **Bitboards** - words as sets of bit positions; every operation word by word.
* **ViNode** - the action server.  `exec` is what the single executor thread is
  doing: the steps of the goal callback up to its await, its resumption
  (`Report`), or a timer that waits for an answer.  `slot` is the shared
  `Option<SweepHandle>`.  Worker and pump of each goal are processes.

`MC*` modules give small instances their maps and action lists; `MCMaps` serves
all runs on `RawVi`.  `*Proofs` modules hold theorems (section 5), `RawViProofs`
those about `PriorityVi`, `ValueIter` and `LocalVi`; so that one module can extend
the first two, the definitions of `ValueIter` have names of their own (`IterInit`,
`IterNext`, `IterSpec`, `iterVars`).  `GridFacts` has what those about the grid share: the least-number principle, division, sums
over lists, what the dilation window reaches and what a row order lists.

Operators whose comment starts with "Broken" are slips in the code (a dropped
guard, an off-by-one, a missing reset).  No specification uses them; replacing
the definition that follows by one of them must make TLC report the property
named in `PROJECT.json`.

### Memory model of the parallel solvers

Loads and stores of the shared table are Relaxed atomics.  `held[s]` collects
every value that state s has had since the last barrier, and each load picks
any of them, independently.  This allows more than the hardware does (two
loads by one thread may even go back in time), so what is shown holds for
every weaker or stronger build.  Since `held` only grows between barriers, a
load made at the moment of the store can return whatever an earlier load
could; the loads and the store of one evaluation are therefore one action.
The threads of `ValueIter` share a table without any atomics: there, the loads
of one backup are separate steps, in any order, with other threads' stores in
between.

### Abstractions

* Costs are small integers in units of `PROB_BASE`.  The padded and fused
  solvers do not wrap in the models (their clamp keeps unreached values out of
  sums), so a missing clamp would show in none of their runs; `RawVi` does wrap.  `TopCost`, `Word` and `Reach` are chosen as in the
  code's proportions: a sum over an unreached outcome wraps to a remainder that
  depends on its probability.
* The updates counter, timing, statistics and logging are left out.
* `ViNode`: a worker has no table; one call of `solve` converges or does not.
* `SparseGs`: without snapshots and the low-memory mode, which copy the table.
  Its barriers are those of `AsyncGs`, taken as one step each.
* `CompactVi`: without statistics and the encoding of sink entries.
* `ValueIter`: sweeps begin only once a goal is set.  A new map keeps the old
  sweep orders, as in the code, so a larger or smaller map can make a sweep
  leave the state vector (`Panic`); worker 5 has half of the columns, as in the
  code.
* `LocalVi`: one caller; the background worker of the original cannot be
  started on a borrowed object.

## 3. The runs

| run | instance | what it shows |
|---|---|---|
| `gs_long` | 5 columns, 3 threads, blocks of 1, one solve | claims are exclusive, no update is lost, convergence means the reference table, the list is rebuilt in isolation |
| `gs_turn` | 3 columns x 2 headings, stochastic moves, 2 threads, 2 rounds per call, up to 6 calls | the inductive invariant, the refinement of `AsyncVi`, convergence across chunks |
| `sparse` | 3 columns x 4 headings, 2 threads, both layouts, 4 rounds per call, up to 4 calls | the inductive invariant, no change hidden by masks, policy fits values after a cut, refinement, convergence |
| `compact` | 2 x 9 columns x 3 headings, blocks of 2 rows, 1 and 2 threads | the inductive invariant, safe eviction, exact sink, clean masks, convergence |
| `serial` | every 3x2 map with at most 2 obstacles, ten kinds of solver | steady costs, no frontier forgets a state; the exact kinds end with exact values and policies |
| `priority` | every 3x2 map with at most 1 obstacle, sure, noisy and wide moves, caps of 1 and 20 pops per state | the inductive invariant, steady costs, exact labels, convergence |
| `value_iter` | maps of 3x2 and 2x2, one worker (ids 0, 4, 5) with up to 3 calls in between, or two racing threads | what `finished()` and a zero delta mean, no panic while the map keeps its size, racing threads end exact |
| `local` | 4x2 map, open or with a pocket that the goal cannot be reached from, scans of one or two beams, 2 calls, up to 8 loops between two of them | the window stays in the map, no value that counts as reached is too low, the loops settle wherever a reached value takes part |
| `bitboards` | 4x2 cells, 3 layers, words of 3 bits | spare bits stay zero, the words implement sets of cells, iterations end |
| `node_goals` | 2 goals, patient and pre-empting clients, budget 3 in chunks of 2 | handles are never lost or shared, stale sweeps stop, own verdict for patient clients, every goal is answered |
| `node_verdict` | 2 pre-empting goals | expected violation, section 6 |
| `serial_clamped` | 4x2 maps, the padded solver | expected violation, section 6 |

Bounds.  `gs_long`: column 2 is dear to enter and one action jumps over it, so
a worker that reads a neighbour too early stores a cost that a later round
must lower; five columns are enough for a lowered state to lie outside the
window of the next frontier, and three threads for two followers to race while
the leader reads.  The followers are symmetric.  `MaxIter` 9 is more than any
schedule needs.  `gs_turn` and `sparse`: `MaxIter` is smaller than a solve, so
every call is first ended by the limit, and the number of calls is enough for
every schedule; in `sparse` one heading of four is outside the reach of a
change, so the masks do leave layers out.  `compact`: nine rows are five
blocks, enough for a block to be freed while the frontier is two blocks away,
and one cell is walled in, so one block never fills.  The maps of `RawVi`'s
runs are enumerated; 3x2 columns with two headings hold a detour, a dead end
and a state that can only turn.  `bitboards`: a row of four cells in words of
three bits ends inside its second word.  `node_goals`: budget 3 with chunk 2
gives a full and a shortened chunk; with two goals the pump of the first meets
the handle of the second.  `local`: sums over unreached outcomes wrap, so a state
of a closed pocket gets a finite cost in its first loop and a higher one in each
later loop.  `LoopCap` 8 is enough for a penalty to pass through a window of
three columns and for the values to settle (4 is not), and too few for a pocket's
values to wrap a second time; section 6 says what happens then.  Where the proofs of section 5 exist they remove
these bounds.

Deadlock checking is off in the runs of solvers, which end.  It is on for
`node_goals`, `node_verdict` and `bitboards`.

## 4. Fairness

* `AsyncGs`, `SparseGs`: every worker, the leader and the barriers are OS
  threads that do nothing but run, and the caller loops until the solver
  converges: weak fairness.
* `CompactVi`, `SerialVi`, `PriorityVi`: one program that runs until it ends,
  with threads that are joined: weak fairness of `Next`.
* `ValueIter`: the threads of a call are scheduled, and the owner of several
  threads keeps asking for sweeps; nothing is assumed of single workers.
* `LocalVi`: the planner's loop keeps running, in the model until `LoopCap`.
  `Bitboards`: a `for` loop calls
  the iterator until it ends.
* `ViNode`: worker and pump threads run (weak).  The executor takes up a ready
  goal or resumption although timers keep becoming ready, and a pump that waits
  for the lock gets it although timers take it again and again: strong fairness
  for `TakeOld`, `Report` and `PumpTake`.  A timer's wait ends after two seconds
  at most.  Nothing is assumed about convergence: a worker ends by its budget.

## 5. The proofs

All theorems hold for every value of the constants that satisfies the
assumptions of the modules (`ASSUME`s, which TLC evaluates in the runs).

### AsyncGsProofs: the parallel engine

| theorem | statement |
|---|---|
| `InductiveInvariant` | `Spec => []IInv` |
| `TypeCorrect` | `Spec => []TypeOK` |
| `ExclusiveClaims` | `Spec => []SingleWriter` |
| `UpdatesReachFrontier` | `Spec => []NoLostUpdate` |
| `ConvergenceSound` | `Spec => []ConvergedIsFixedPoint` |
| `NeverBelowReference` | `Spec => []AboveReference` |
| `Exactness` | `Spec => []ExactAtConvergence` |
| `ValuesOnlyDecrease` | `Spec => OnlyDecrease` |
| `RebuildsAlone` | `Spec => RebuildAlone` |
| `ImplementsVi` | `Spec => ImplementsAsyncVi` |

`NoLostUpdate` is the heart: while a solve runs, a state whose value is above
its backup is still going to be evaluated in this round, or it reads a column
that this round has lowered.  It is not inductive alone.  A worker may evaluate
a state with a stale load; the state must then not count as settled, and it
does not, because a stale value can be held only for a column that is dirty
(`HeldInv`), hence on its way into the next frontier.  That a state under
evaluation is not itself stale needs exclusive claims (`ClaimInv`), and these
need the phases (`PhaseInv`).  `ValueInv` (a table is never below its backup)
makes any admissible load give a backup not below the current one.  At the end
of a round without changes nothing is dirty or scheduled, so the table is a
fixed point; it is not below `Reference` by `AboveReference` and not above it
because `Reference` is the greatest solution.  The control part (`CtlInv`) is
proved by itself; the data part (`DataInv`) uses it.

### SparseGsProofs: the problem, the deterministic, fused and sparse solvers

| theorem | statement |
|---|---|
| `BackupMonotone` | the padded backup is a monotone function of the loads, stays in range, and leaves a state unreached that reads only unreached ones |
| `JacobiExact` | if the frontier of `frontier2d_par` is empty after n rounds, its table is the greatest solution of the Bellman equation |
| `FusedIsPadded` | on words that stand for values, `action_cost_fused` gives the backup and the best actions of the padded table |
| `SparseInvariant` | `Spec => []IInv` |
| `NoChangeHidden` | `Spec => []NoHiddenChange` |
| `PolicyFitsValues` | `Spec => []PolicyFits` |
| `SparseImplements` | `Spec => ImplementsAsyncVi` |
| `GridIsViProblem` | every problem `GridMdp` defines satisfies the assumptions of `ViProblem` |

`JacobiExact` rests on `RoundSound`, proved to hold after every number of rounds:
values stay above every solution and above their own backup, and a state that
could still be lowered reads a column of the frontier.  Induction over the
number of rounds goes by the least number for which `RoundSound` fails
(`LeastOf` of `GridFacts`), because the library's induction rules take an
operator as parameter.

`IInv` adds to `NoHiddenChange` what it needs: loads return words that stood for
values at least as high (`LoadsSound`); blocks of workers are disjoint
(`ClaimsSound`); a state with an old word in `held` is announced to the next
masks, and a state that is still to come is read as it is (`StaleAnnounced`);
the phases of a call (`Phases`); values stay above `Reference` and their own
backup (`ValuesAbove`).  The refinement maps a worker's fall to `Lower`, the leader
to `Converge`, `Stop` or a stutter, and `CallAgain` to `Resume`; that an empty
candidate list means `Reference` is the lemma `QuietExact`.
`GridIsViProblem` closes the gap between the abstract proofs about `AsyncGs` and
the concrete problem: what they assume is true of every map and action list.
It rests on the module's assumption that `Reference` is the table with which the
deterministic solver ends; `JacobiExact` shows that this is the greatest solution.

### CompactViProofs: the out-of-core solver

| theorem | statement |
|---|---|
| `CompactInvariant` | `Spec => []IInv` |
| `EvictionSafe` | `Spec => []BlocksSafe` |
| `MasksClean` | `Spec => []MasksCleared` |

Why no freed block is read: its counter is exact (`CountersExact`), so its states
and those of the blocks around it are final (`FreedSettled`); final columns are
never relaxed; a column whose goal states are read itself is final before any
block is freed (`GoalsFirst`); what is queued stays near columns that are not
final (`QueueNear`), hence its window reaches no freed block; and it is
built before it is read (`WindowsBuilt`).  The assumptions are those of a map:
the window holds every load, goals are free and cost nothing.

That the watermark is *exact* (`SinkExact`) is only model-checked, and cannot be
proved from these assumptions: `COUPLE_SAFETY` times the largest step cost is a
margin chosen by experience, and with several outcomes per action a value below
the watermark may depend on one far above it.

### RawViProofs: the priority solvers, `ValueIterator`, the local planner

| theorem | statement |
|---|---|
| `PriorityInvariant` | `Spec /\ []CostsSteady => []IInv` |
| `LabelsCovered` | `Spec /\ []CostsSteady => []Covered` |
| `LabelCorrectingFixed` | `Spec /\ []CostsSteady => []FixedAtEnd` |
| `IteratorTyped` | `IterSpec => []IterTypeOK` |
| `IteratorCalls` | `IterSpec => []CallsHold` |
| `QuietReturn` | `IterSpec => QuietIsNear` |
| `LocalWindow` | `L!Spec => []L!WindowInMap`, L being `LocalVi` |

`Covered` says that in `prio_lc` a state whose relaxation would change it is about
to be relaxed, or its best action leads to a state whose *current* label is in
the heap.  So an entry that is thrown away as stale never was the last to carry
its news, and an empty heap means that nothing can change (`FixedAtEnd`).
`NeverRaised` makes it inductive: no label below `Reach` is under its own
relaxation, so a relaxation only lowers labels that count.  The step that matters
is the lemma `RelaxBest`: after one relaxation the best action of any
other state is unchanged, or leads to the relaxed state and that has
just been pushed.

`CostsSteady` is a hypothesis because the code does not guarantee it: with costs
that wrap, whether a sum over an unreached outcome falls below `REACH_THRESH`
depends on the probabilities of the transitions.  It says that a cost below
`Reach` is a sum that did not wrap, has an outcome with a label, and none whose
label is unreached and would rise.  The `priority` run checks it (first part of
`LabelsExact`) together with the conclusions; section 6 shows what happens
without it.

`ValueIter`: any map sizes, any action list, any number of threads, any sequence
of calls, and any interleaving of the threads' loads and stores.  The inductive
invariant `IterInv` says what the code leaves implicit: every sweep order lists
indices of a map of the size it was built for (`OrderFacts`: index and place
determine each other, the halves and the reversed orders stay inside), so a
thread leaves the state vector only if the map has got another size since
(`InBounds`); what a thread holds between a load and a store is in range
(`IterTyped`, the first half of `IterTypeOK`); and who has a report has swept since
the last `set_goal` (`Current`).  From that the reports get their types
(`ReportsKept`).

`QuietReturn` says what it means that a worker sweeping alone reports delta 0,
which in the code is a maximum over the states shifted by `PROB_BASE` once too
often.  The table need not be a fixed point.  But every state whose backup
loads reached values only, whatever the action, is within one step (`PROB_BASE`)
of that backup, and within two after worker 4.  The argument: an order of workers 0 to 3 visits every updatable
state exactly once and that of worker 4 at most twice (`VisitsAll`, `VisitParts`);
no visit changed a value by a whole step (`RunFacts`); between a state's last
visit and the end of the sweep every value it reads changed at most once, or twice
with worker 4 (`OneChange`), so by less than that; and a backup whose
probabilities sum to at most `PROB_BASE` moves by no more than the values it
reads (`CostNear`, `BestNear`).  `Calm` carries the result from the step that
sweeps to the step that returns: a thread that is alone has begun its sweep or
ended it.
Worker 4 needs the second step because it passes over half of the states twice, so
a value may move again after a state that reads it was last visited.

`SumsAssumption` of `ValueIter` is what the code guarantees about these sums: the
probabilities of a list are counts of the 2^18 samples of
`set_state_transitions`, so they sum to `PROB_BASE`; and a reached value plus a
penalty times `PROB_BASE` stays below 2^64, because a reached value is below
10^6 steps of 2^18 and the product would need 2^28 of them.

`LocalVi`: the local window is cut off where the map ends wherever the robot is
(`ClampedInMap`), what a scan touches lies in the window (`TouchedInWindow`), so
once `set_local_window` was called no method leaves the table.  Before that it can,
because the window of a new map is as large as the range and not as the map.

### SerialViProofs: the solvers that work in rounds

| theorem | statement |
|---|---|
| `FrontierForgetsNobody` | `Spec /\ []CostsSteady => []Covered` |
| `ConvergedIsSettled` | `Spec /\ []CostsSteady => []ConvergedSettled`: a converged solve leaves nothing that another visit would lower |

The invariant is `TypeOK`, `Covered`, that only an ended solve has an outcome,
and that a converged one has an empty frontier.
The costs of all kinds are one function `CostBy` of a table: the outcomes an
action uses (all, or the most probable `TopK`), their sum and what it is divided
by.  `ChangeSpreads` is the step that matters: when one value changes, the backup
of another state falls only if that state reads the changed one and the change
was a drop; a rise, which the reference backup also stores, can be ignored as
long as no sum wraps.  Then for each kind of frontier the window around what
fell must contain every state that reads it (`ReadsNear`: the circle of headings,
the layers of `stack`, rounding up to whole blocks), the loops of a round must
visit every candidate (`VisitsFacts`: the order by columns, by layers and by
blocks, also for blocks that the edge of the map cuts), and a fresh seed must
cover whatever a stage that was cut short left behind (`SeedCovers`).

`CostsSteady` of `SerialVi` is the same kind of hypothesis as in `PriorityVi`, and
weaker: a cost below `Reach` is a sum that did not wrap, with an outcome that has
a value.  The `serial` run checks it as part of `TableSound`, and section 6 shows
`Covered` failing without it.

### BitboardsProofs, ViNodeProofs

| theorem | statement |
|---|---|
| `BoardInvariant` | `Spec => []BoardSound` |
| `BoardsAreSets` | `Spec => ImplementsSets` |
| `NodeInvariant` | `Spec => []IInv` |
| `HandleHasOneKeeper` | `Spec => []HandleOwned` |
| `OldSweepsStop` | `Spec => []StaleSweepsStop` |
| `DriveCurrent` | `Spec => DriveOnlyCurrent` |
| `PatientGetOwnVerdict` | `Spec => []OwnVerdict` |

Bitboards: spare bits stay zero (`SpareBitsZero`), which makes shifts with a carry
from the neighbouring word equal to shifts of a set of cells, makes complement under the
row mask the set difference, and lets popcount count cells.  The iterator's
place (layer, row, word) orders the cells; what it still has to return is what
lies behind its place and in its current word.

ViNode: any number of goals (TLC runs two), any budget, both kinds of client.
`IInv` says what the callback, the pumps, the timers and the slot know of each
other: the callback works with an empty slot on the newest goal
(`ExecutorSound`), threads exist from a definite step on (`Spawned`), a pump
holds a handle from taking to joining it (`PumpsSound`), a handle has at most
one keeper and that of a running worker has one (`Owned`), and with patient
clients one goal at a time is in the server (`OneAtATime`).

### Only model-checked

* Liveness: `EventuallyConverged`, `EveryGoalAnswered`, `IterationEnds`,
  `EventuallyExact`, `EventuallySolved`; the prover has no rule for `ENABLED`.
* `SinkExact` of `CompactVi`, for the reason given above.
* Properties that compare with `ExactValue`, the limit of repeated backups in
  unbounded integers: `NeverBelow` and `LabelsExact` of `PriorityVi`, `ParityAtEnd`
  and `NeverBelow` of `SerialVi`, `NoPathInvented` of `ValueIter`, `NeverBelow` of
  `LocalVi`, and with them the `TableSound`s that contain them.  They are not
  invariants of the code for every map: a wrapped sum may be a number between
  `REACH_THRESH` and `MAX_COST`, and a cost below the threshold may be made of
  it.  Whether that happens depends on the remainders of the particular sums;
  steady costs do not exclude it.  Parts of `TableSound` are proved: the types
  and steady costs' consequences (`IteratorTyped`, `FrontierForgetsNobody`) and the
  window (`LocalWindow`).
* The types of `LocalVi`, whose scans and local loop are folds of the community
  modules; no theorem says what these folds return.

## 6. Findings

* `node_verdict` (`main.rs:605`): the feedback pump takes *whatever* handle is
  in the slot.  Goal 2 pre-empts goal 1: the callback takes and cancels sweep 1
  and installs handle 2; pump 1 wakes up, sees its cancel flag, takes handle 2,
  cancels sweep 2 and joins worker 2.  Goal 1 is then answered with worker 2's
  verdict, so `finished` may be true for a sweep that was cancelled, and the
  sweep of the newest goal is cut short.  With clients that wait for their
  result neither can happen (`OwnVerdict`, proved).
* `serial_clamped` (`frontier2d_pad.rs:137`): the clamp makes an action with an
  unreached outcome cost `MAX_COST`.  States that can reach the goal, but only by
  actions with an outcome among themselves, stay unreached in the padded solvers,
  while the reference gives them a finite cost, although the comment there says
  that values agree with the original on reachable states.

Three more things the models show that no line of the repository denies, and
which are therefore not runs.  The first two come from choosing `TopCost` in
`MCSerial.cfg` so that a wrapped sum has another remainder; the properties of the
`serial` run say nothing of such remainders:

* `TopCost` 520, `Kinds = {"frontier3d"}`: a sum over two unreached outcomes is
  as small as a real cost, and the frontier solvers, which visit only what is
  near a drop, miss states that the garbage cost would lower (`Covered` fails).
* `TopCost` 752, `NX` 4, `MaxIter` 30, `Kinds = {"reference"}`,
  `Lists = {{3, 4, 5}}`: reached
  values wait behind values just above `REACH_THRESH`, and the reference solver,
  which stops when no value below the threshold moves, stops too early
  (`ParityAtEnd` fails).
* `LoopCap` 120, `CallCap` 1 in `MCLocal.cfg`: in a window from which no path leads
  to a reached value (a closed free pocket, or the global solver has not come
  since `set_goal`) the first local loop stores MAX_COST * 2^18 mod 2^64, shifted
  back: 194,693,632 steps, less than MAX_COST.  Every further loop adds penalties,
  so these values never settle, and when they have grown by 2^28 - 194,693,632,
  some 73.7 million steps (a laser hit that stays in the window adds 2048 in each
  loop), the sum wraps again, to a cost that looks reached.  `TableSound` then
  fails, after about 80 loops of the model.  `EventuallySolved` therefore speaks only
  of states whose value or backup counts as reached, and both properties only of
  `LoopCap` loops between two calls.  A closed pocket never becomes exact in
  `ValueIter` either; the maps of its racing threads have none.

Also seen: `prio_ls` may pop more entries than there are states, because stale
entries count, so with a cap of one pop per state it can be cut off although
`priority.rs:80` expects at most n pops; `EventuallyConverged` of `PriorityVi`
says so.

## 7. Plan

1. The FPGA driver with two hardware units on one table, late interrupts and
   racing halos, as a further implementation of lowering steps.
2. Exactness of the solvers on `RawVi` under a hypothesis on wrapped sums that
   the code's constants satisfy.

## 8. Not modelled

* FPGA driver, its mock, tile and stream kernels, host tools: another
  implementation of the sweep for hardware; next in the plan.
* State construction (`state.rs`) from an occupancy grid: penalties and
  margins are computed once, before anything else runs; the models take them as
  data.
* Building transitions by sampling, export of maps and policies, the local map
  picture, the geometry of `pos_to_action`.
* `vi_bench` and the scripts only call the solvers and compare files; MATLAB and
  PYNQ repeat kernels and driver in other languages; bridges, `npy.rs` and
  `oracle.rs` convert messages and write files; `vi_core` holds constants.
* In the node: parameters and the wait for the map, which come before anything
  concurrent, and cancel requests of clients, which the server never looks at.
