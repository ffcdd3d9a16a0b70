----------------------------- MODULE ValueIter ------------------------------
(***************************************************************************)
(* The life of a ValueIterator (value_iterator.rs): maps and goals are     *)
(* set, the reference sweeps run, and the owner asks for the robot's       *)
(* action.  The sweeps of one call run on the caller's thread or on        *)
(* ThreadNum threads that read and write one table without atomics; the    *)
(* race can let a thread load the values of one backup in any order, with  *)
(* the stores of others in between.                                        *)
(*                                                                         *)
(* A map of another size is a sub-rectangle of GridCols; a column outside  *)
(* it is as unusable as an obstacle.                                       *)
(***************************************************************************)
EXTENDS RawVi

CONSTANTS
  Setups     \* what a run covers: records
             \*   threads: thread_num
             \*   workers: ids passed to value_iteration_worker directly
             \*   times:   values of times
             \*   sizes:   <<cell_num_x, cell_num_y>> of the maps
             \*   acts:    the action list
             \*   calls:   bound on the calls other than sweeps

\* A call sweeps at least once; threads and workers are numbered from 0.
ASSUME SetupsAssumption ==
  \A r \in Setups :
    /\ r.threads \in Nat \ {0} /\ r.workers \subseteq Nat
    /\ r.times \subseteq Nat \ {0} /\ r.calls \in Nat
    /\ r.sizes \subseteq (1 .. NX) \X (1 .. NY)
    /\ r.acts \subseteq Actions

\* The probs of a list are counts of PROB_BASE samples, and a backup of states
\* that are reached, or nearly so, does not wrap: in the code the product stays
\* below 2^64 as long as a penalty is below 2^28 - 10^6 steps.
ASSUME SumsAssumption ==
  /\ \A a \in Actions, t \in 0 .. NTheta - 1 :
       SumOf([i \in 1 .. Len(Trans[a][t]) |-> Trans[a][t][i].prob]) <= ProbBase
  /\ \A s \in GridStates : (Reach + 2 * ProbBase + Penalty[s]) * ProbBase < Word

VARIABLES
  setup,     \* one of Setups
  size,      \* cell_num_x, cell_num_y
  ordered,   \* the size sweep_orders was made for
  status,
  reports,   \* thread_status: sweep_step, and whether delta is 0
  crew,      \* ids of the sweeping threads; {} between calls
  job,       \* times and stop of the current call
  worker,    \* per thread: what is left of the sweep, loads, result, loud delta
  panicked,
  swept,     \* history: ids whose finished sweeps began after the last goal
  calls      \* calls counted by setup.calls

shape == <<free, goal, size, ordered>>
fixed == <<setup, acts>>
sweep == <<crew, job, worker>>
iterVars == <<fixed, table, shape, status, reports, sweep, panicked, swept, calls>>

MapCols(z) == (0 .. z[1] - 1) \X (0 .. z[2] - 1)

\* to_index and its inverse: theta innermost, then x, then y.
CellIndex(c, t, z) == t + NTheta * (c[1] + z[1] * c[2])
Cell(i) == <<<<(i \div NTheta) % size[1], i \div (NTheta * size[1])>>, i % NTheta>>
CellCount(z) == NTheta * z[1] * z[2]

-----------------------------------------------------------------------------
(* Sweep orders *)

ByRows(z) == [k \in 1 .. CellCount(z) |-> k - 1]
\* Broken: x and y swapped.
ByColsSwapped(z) ==
  [k \in 1 .. CellCount(z) |->
     LET col == (k - 1) \div NTheta
     IN  CellIndex(<<col % z[2], col \div z[2]>>, (k - 1) % NTheta, z)]

ByCols(z) ==
  [k \in 1 .. CellCount(z) |->
     LET col == (k - 1) \div NTheta
     IN  CellIndex(<<col \div z[2], col % z[2]>>, (k - 1) % NTheta, z)]

Backward(q) == [k \in 1 .. Len(q) |-> q[Len(q) + 1 - k]]
FirstHalf(q) == SubSeq(q, 1, Len(q) \div 2)
SecondHalf(q) == SubSeq(q, Len(q) \div 2 + 1, Len(q))

\* Broken: the order of worker 4 without the second half of the rows.
SweepOrdersHalf(z) ==
  LET r == ByRows(z) c == ByCols(z)
  IN  <<r, c, Backward(r), Backward(c), FirstHalf(r) \o SecondHalf(c), FirstHalf(c)>>

\* set_sweep_orders: worker 4 gets all rows and the second half of the columns,
\* worker 5 the first half of the columns.
SweepOrders(z) ==
  LET r == ByRows(z) c == ByCols(z)
  IN  <<r, c, Backward(r), Backward(c), r \o SecondHalf(c), FirstHalf(c)>>

\* Broken: every thread takes the last order.
VisitsLast(id) ==
  Sublist(SweepOrders(ordered)[6],
          {i \in Nat : i >= CellCount(size) \/ Updatable(Cell(i))})

\* The states that a sweep of worker id backs up; an index past the end of the
\* state vector stays in, for Panic.
Visits(id) ==
  Sublist(SweepOrders(ordered)[(id % 6) + 1],
          {i \in Nat : i >= CellCount(size) \/ Updatable(Cell(i))})

-----------------------------------------------------------------------------
(* Maps, goals and status *)

NoJob == [times |-> 0, stop |-> FALSE]
Idle == crew = {} /\ ~panicked

IterInit ==
  /\ setup \in Setups /\ acts = setup.acts
  /\ \E m \in Mazes, z \in setup.sizes :
       m.free \subseteq MapCols(z) /\ free = m.free /\ size = z
  /\ ordered = size
  /\ goal = {}
  /\ value = Cleared({})
  /\ act = [s \in GridStates |-> NoAction]
  /\ status = "init"
  /\ reports = <<>>
  /\ crew = {} /\ job = NoJob /\ worker = <<>>
  /\ panicked = FALSE
  /\ swept = {}
  /\ calls = 0

\* set_map_with_occupancy_grid and set_map_with_cost_grid: new states; sweep
\* orders that exist already are kept, and so are thread_status and status.
SetMap ==
  /\ Idle /\ calls < setup.calls
  /\ \E m \in Mazes, z \in setup.sizes :
       m.free \subseteq MapCols(z) /\ free' = m.free /\ size' = z
  /\ goal' = {}
  /\ value' = Cleared({})
  /\ act' = [s \in GridStates |-> NoAction]
  /\ calls' = calls + 1
  /\ UNCHANGED <<fixed, ordered, status, reports, sweep, panicked, swept>>

\* Broken: thread_status is kept.
AfterGoalKept == reports
AfterGoal == <<>>

SetGoal ==
  /\ Idle /\ calls < setup.calls
  /\ \E m \in Mazes : m.free = free /\ goal' = m.goal
  /\ value' = Cleared(goal')
  /\ act' = [s \in GridStates |-> NoAction]
  /\ reports' = AfterGoal
  /\ status' = "calculating"
  /\ swept' = {}
  /\ calls' = calls + 1
  /\ UNCHANGED <<fixed, free, size, ordered, sweep, panicked>>

SetCancel == Idle /\ status' = "canceled"
SetCalculated == Idle /\ status # "canceled" /\ status' = "calculated"

\* pos_to_action: a robot on a final state has arrived.
PosToAction ==
  /\ Idle
  /\ \E s \in goal : s[1] \in MapCols(size)
  /\ status' = "goal"

SetStatus ==
  /\ calls < setup.calls /\ calls' = calls + 1
  /\ SetCancel \/ SetCalculated \/ PosToAction
  /\ UNCHANGED <<fixed, table, shape, reports, sweep, panicked, swept>>

-----------------------------------------------------------------------------
(* Sweeps *)

Ended == status \in {"canceled", "goal"}

Fresh(id) ==
  [todo |-> Visits(id), sweeps |-> 1, loads |-> <<>>, new |-> <<>>, loud |-> FALSE]

\* Sweeps are asked for once there is a goal.
Start(ids) ==
  /\ Idle /\ goal # {}
  /\ \E n \in setup.times : job' = [times |-> n, stop |-> Ended]
  /\ crew' = ids
  /\ worker' = [id \in ids |-> Fresh(id)]
  /\ UNCHANGED <<fixed, table, shape, status, panicked, swept, calls>>

\* run_value_iteration with one thread, or a direct call of the worker.
RunWorker == \E id \in setup.workers : Start({id}) /\ UNCHANGED reports
RunThreads == setup.threads > 1 /\ Start(0 .. setup.threads - 1) /\ reports' = <<>>

Sweeping(id) == id \in crew /\ ~panicked /\ worker[id].todo # <<>>
Racing(id) == crew # {id}

Panic(id) ==
  /\ Sweeping(id)
  /\ \E k \in DOMAIN worker[id].todo : worker[id].todo[k] >= CellCount(size)
  /\ panicked' = TRUE
  /\ UNCHANGED <<fixed, table, shape, status, reports, sweep, swept, calls>>

InRange(id) == \A k \in DOMAIN worker[id].todo : worker[id].todo[k] < CellCount(size)

\* A sweep of a thread that is alone is one step: the owner of the table waits.
VisitAlone(t, i) ==
  LET s == Cell(i)
      best == Best({<<CostMod(free, t.value, a, s, Word), a>> : a \in acts})
  IN  [value |-> [t.value EXCEPT ![s] = best[1]],
       act |-> [t.act EXCEPT ![s] = best[2]],
       delta |-> Max({t.delta, AbsInt(best[1] - t.value[s])})]

\* The set has TLC evaluate t once.
VisitAloneOnce(t, i) == CHOOSE r \in {VisitAlone(u, i) : u \in {t}} : TRUE

\* The loop of a sweep.
Swept(q) ==
  LET run[n \in 0 .. Len(q)] ==
        IF n = 0 THEN [value |-> value, act |-> act, delta |-> 0]
        ELSE VisitAloneOnce(run[n - 1], q[n])
  IN  run[Len(q)]

SweepAlone(id) ==
  /\ Sweeping(id) /\ InRange(id) /\ ~Racing(id)
  /\ \E t \in {Swept(worker[id].todo)} :
       /\ value' = t.value /\ act' = t.act
       /\ worker' = [worker EXCEPT ![id].todo = <<>>,
                                   ![id].loud = t.delta \div ProbBase > 0]
  /\ UNCHANGED <<fixed, shape, status, reports, crew, job, panicked, swept, calls>>

\* The outcomes that the backup of s loads.
LoadSlots(s) ==
  UNION {{<<a, Target(s[1], tr)>> : tr \in Outcomes(a, s)} :
           a \in {b \in acts : \A tr \in Outcomes(b, s) : Lands(free, s[1], tr)}}

At(id) == Cell(Head(worker[id].todo))

Load(id) ==
  /\ Sweeping(id) /\ InRange(id) /\ Racing(id)
  /\ worker[id].new = <<>>
  /\ \E k \in LoadSlots(At(id)) \ DOMAIN worker[id].loads :
       worker' = [worker EXCEPT ![id].loads =
         [x \in DOMAIN @ \union {k} |-> IF x = k THEN value[k[2]] ELSE @[x]]]
  /\ UNCHANGED <<fixed, table, shape, status, reports, crew, job, panicked, swept, calls>>

\* min_action_cost on the loads, then the store of total_cost over whatever the
\* cell holds by then.
StoreCost(id) ==
  /\ Sweeping(id) /\ InRange(id) /\ Racing(id)
  /\ LET w == worker[id]
         seen(a) == [t \in {k[2] : k \in {x \in DOMAIN w.loads : x[1] = a}} |-> w.loads[<<a, t>>]]
         best == Best({<<CostMod(free, seen(a), a, At(id), Word), a>> : a \in acts})
     IN  /\ w.new = <<>> /\ DOMAIN w.loads = LoadSlots(At(id))
         /\ value' = [value EXCEPT ![At(id)] = best[1]]
         /\ worker' = [worker EXCEPT
              ![id].new = <<best[2]>>,
              ![id].loads = <<>>,
              ![id].loud = @ \/ AbsInt(best[1] - value[At(id)]) \div ProbBase > 0]
  /\ UNCHANGED <<fixed, act, shape, status, reports, crew, job, panicked, swept, calls>>

\* The store of optimal_action ends the visit.
StoreAction(id) ==
  /\ Sweeping(id) /\ worker[id].new # <<>>
  /\ act' = [act EXCEPT ![At(id)] = worker[id].new[1]]
  /\ worker' = [worker EXCEPT ![id].new = <<>>, ![id].todo = Tail(@)]
  /\ UNCHANGED <<fixed, value, shape, status, reports, crew, job, panicked, swept, calls>>

LastSweep(id) == job.stop \/ worker[id].sweeps = job.times

EndSweep(id) ==
  /\ id \in crew /\ ~panicked
  /\ worker[id].todo = <<>> /\ ~LastSweep(id)
  /\ worker' = [worker EXCEPT ![id] = [Fresh(id) EXCEPT !.sweeps = worker[id].sweeps + 1]]
  /\ UNCHANGED <<fixed, table, shape, status, reports, crew, job, panicked, swept, calls>>

\* finished() looks at the first thread_num only.
Reporting == crew \intersect (0 .. setup.threads - 1)

\* The call returns: every thread has ended and left its status.
Return ==
  /\ crew # {} /\ ~panicked
  /\ \A id \in crew : worker[id].todo = <<>> /\ LastSweep(id)
  /\ reports' = [id \in Reporting \union DOMAIN reports |->
                   IF id \in Reporting
                   THEN [sweeps |-> worker[id].sweeps, quiet |-> ~worker[id].loud]
                   ELSE reports[id]]
  /\ swept' = swept \union Reporting
  /\ crew' = {} /\ worker' = <<>> /\ job' = NoJob
  /\ UNCHANGED <<fixed, table, shape, status, panicked, calls>>

Step(id) ==
  \/ SweepAlone(id) \/ Load(id) \/ StoreCost(id) \/ StoreAction(id)
  \/ EndSweep(id) \/ Panic(id)

Running == RunWorker \/ RunThreads \/ Return \/ \E id \in crew : Step(id)
Calls == SetMap \/ SetGoal \/ SetStatus

IterNext == Calls \/ Running

IterSpec == IterInit /\ [][IterNext]_iterVars

\* The threads of a call are scheduled, and an owner of several keeps asking for
\* sweeps.
IterFairSpec == IterSpec /\ WF_iterVars(setup.threads > 1 /\ Running)
-----------------------------------------------------------------------------
(* Properties *)

MapTypeOK ==
  /\ free \subseteq MapCols(size) /\ goal \subseteq GridStates
  /\ value \in [GridStates -> 0 .. TopCost]
  /\ act \in [GridStates -> Actions \union {NoAction}]
  /\ setup \in Setups /\ acts = setup.acts
  /\ {size, ordered} \subseteq setup.sizes
  /\ status \in {"init", "calculating", "calculated", "canceled", "goal"}
  /\ DOMAIN worker = crew
  /\ calls \in 0 .. setup.calls

\* What the orders of the sweeps list, and what a thread holds between its steps.
Indices == 0 .. CellCount(ordered) - 1
ThreadTypeOK(w) ==
  /\ w \in [todo : Seq(Indices), sweeps : Nat \ {0}, loads : {w.loads},
            new : {<<>>} \union {<<a>> : a \in Actions \union {NoAction}}, loud : BOOLEAN]
  /\ DOMAIN w.loads \subseteq Actions \X GridStates
  /\ \A k \in DOMAIN w.loads : w.loads[k] \in 0 .. TopCost

ReportsTypeOK ==
  /\ DOMAIN reports \subseteq Nat /\ swept \subseteq Nat
  /\ \A id \in DOMAIN reports : reports[id] \in [sweeps : Nat \ {0}, quiet : BOOLEAN]
  /\ job \in [times : Nat, stop : BOOLEAN]
  /\ panicked \in BOOLEAN

IterTypeOK ==
  /\ MapTypeOK /\ ReportsTypeOK
  /\ crew \subseteq Nat /\ \A id \in crew : ThreadTypeOK(worker[id])

ReferenceNow == IF goal = {} THEN Cleared({}) ELSE ExactValue

\* However the sweeps of several threads interleave, a value that counts as
\* reached is never below the exact one (where no wrapped sum falls below
\* Reach): stale loads make a path longer, and a store may raise a value, but
\* none invents a path.
NoPathInvented ==
  LET ref == ReferenceNow
  IN  \A s \in GridStates : value[s] < Reach => value[s] >= ref[s]
TableSound == IterTypeOK /\ NoPathInvented

\* As long as the map keeps its size, no sweep leaves the state vector.
InBounds == ordered = size => ~panicked

\* finished() speaks of the current goal: a thread that is reported finished
\* has swept since set_goal, at least once.
FinishedIsCurrent ==
  crew = {} => \A id \in DOMAIN reports : id \in swept /\ reports[id].sweeps >= 1

\* Nothing of an earlier map or goal is left where it matters.
CallsHold == InBounds /\ FinishedIsCurrent

\* What a reported delta of 0 means.  It hides changes below PROB_BASE (it is
\* shifted once more than the costs), so the table need not be a fixed point;
\* but no backup of reached states is off by as much as PROB_BASE, or twice as
\* much after worker 4, which visits half of the states again.  Workers 0 to 4
\* visit every state, worker 5 only half of them.
Backed(s) ==
  IF \E k \in LoadSlots(s) : value[k[2]] >= Reach THEN value[s] ELSE BestRaw(s)[1]
Passes(id) == IF id = 4 THEN 2 ELSE 1
NearFixed(k) ==
  \A s \in GridStates : Updatable(s) => AbsInt(Backed(s) - value[s]) < k * ProbBase
QuietIsNear ==
  [][\A id \in 0 .. 4 :
       (Return /\ crew = {id} /\ ordered = size /\ ~worker[id].loud) =>
          NearFixed(Passes(id))]_iterVars

\* The threads overwrite each other's values with older, dearer ones, but once
\* no new map or goal comes, the table ends up exact and stays so, policy
\* included.
ExactNow ==
  goal # {} =>
    /\ value = ExactValue
    /\ \A s \in GridStates :
         act[s] = IF Updatable(s) THEN BestRaw(s)[2] ELSE NoAction
EventuallyExact == <>[](setup.threads > 1 => ExactNow)
=============================================================================
