------------------------------- MODULE ViNode -------------------------------
(***************************************************************************)
(* vi_node: the ROS action server `vi_controller` (vi_ros2/vi_node/src/    *)
(* main.rs) and the sweep workers it spawns (sweep_thread.rs).             *)
(*                                                                         *)
(* One executor thread runs the goal callbacks up to their await, resumes  *)
(* them, and runs the value_function and cmd_vel timers.  Every accepted   *)
(* goal has a sweep worker thread and a feedback pump thread.  They share  *)
(* one slot, Arc<Mutex<Option<SweepHandle>>>: whoever takes the handle out *)
(* of it cancels that sweep and joins its worker.                          *)
(*                                                                         *)
(* Goals are numbered in the order in which they reach the server; the     *)
(* worker, the pump, the cancel flag and the channels of goal g have index *)
(* g; 0 is "no handle".  A worker's table is left out: `solve` is a step   *)
(* that converges or not (AsyncGs is what it does inside).                 *)
(***************************************************************************)
EXTENDS Naturals, FiniteSets

CONSTANTS
  NGoals,   \* goals that clients send
  Budget,   \* MAX_SOLVER_BUDGET, solver rounds of one worker
  Chunk,    \* CHUNK, rounds of one call of solve
  Patience, \* may clients be patient: a set of Booleans
  Online    \* params.online: there is a cmd_vel timer

ASSUME NodeAssumption ==
  /\ NGoals \in Nat \ {0}
  /\ Budget \in Nat \ {0}
  /\ Chunk \in Nat \ {0}
  /\ Patience \subseteq BOOLEAN
  /\ Online \in BOOLEAN

Goals == 1 .. NGoals
None == 0
Handles == Goals \union {None}
Kinds == {"value", "cmd"}
Less(a, b) == IF a < b THEN a ELSE b

VARIABLES
  patient, \* clients wait for the result before they send the next goal
  sent,    \* goals that clients have sent
  newest,  \* last goal the server has taken up
  exec,    \* what the executor thread is doing: [at, goal, old, kind]
  slot,    \* the shared handle
  cancel,  \* cancel[g]: the flag of SweepHandle
  worker,  \* where worker g is in its loop
  left,    \* remaining: solver rounds worker g may still run
  conv,    \* WorkerStats.converged
  ticks,   \* unread FeedbackTicks in the channel of g
  asked,   \* a live read request waits in the channel of g
  pump,    \* where pump g is
  held,    \* the handle pump g has taken
  answer,  \* done_tx of g: what the pump reports
  result,  \* Vi_Result of g
  drive    \* goal whose policy the last cmd_vel followed, or None

clients == <<patient, sent>>
execVars == <<clients, newest, exec, result, drive>>
workerVars == <<worker, left, conv>>
pumpVars == <<pump, held, answer>>
vars == <<patient, sent, newest, exec, slot, cancel, worker, left, conv, ticks, asked,
          pump, held, answer, result, drive>>

Verdicts == {"none", "finished", "unfinished"}
Idle == [at |-> "idle", goal |-> None, old |-> None, kind |-> "value"]

TypeOK ==
  /\ patient \in Patience
  /\ sent \in 0 .. NGoals /\ newest \in 0 .. NGoals
  /\ exec \in [at : {"idle", "cancel", "join", "build", "install", "wait", "got"},
               goal : Handles, old : Handles, kind : Kinds]
  /\ slot \in Handles
  /\ cancel \in [Goals -> BOOLEAN]
  /\ worker \in [Goals -> {"none", "drain", "check", "solve", "exited"}]
  /\ left \in [Goals -> 0 .. Budget]
  /\ conv \in [Goals -> BOOLEAN]
  /\ ticks \in [Goals -> Nat]
  /\ asked \in [Goals -> BOOLEAN]
  /\ pump \in [Goals -> {"none", "sleep", "drain", "probe", "take", "cancel",
                         "join", "ended"}]
  /\ held \in [Goals -> Handles]
  /\ answer \in [Goals -> Verdicts]
  /\ result \in [Goals -> Verdicts]
  /\ drive \in Handles

Init ==
  /\ patient \in Patience
  /\ sent = 0 /\ newest = 0
  /\ exec = Idle
  /\ slot = None
  /\ cancel = [g \in Goals |-> FALSE]
  /\ worker = [g \in Goals |-> "none"]
  /\ left = [g \in Goals |-> Budget]
  /\ conv = [g \in Goals |-> FALSE]
  /\ ticks = [g \in Goals |-> 0]
  /\ asked = [g \in Goals |-> FALSE]
  /\ pump = [g \in Goals |-> "none"]
  /\ held = [g \in Goals |-> None]
  /\ answer = [g \in Goals |-> "none"]
  /\ result = [g \in Goals |-> "none"]
  /\ drive = None

\* A client sends the next goal.
SendGoal ==
  /\ sent < NGoals
  /\ patient => \A g \in 1 .. sent : result[g] # "none"
  /\ sent' = sent + 1
  /\ UNCHANGED <<patient, newest, exec, slot, cancel, workerVars, ticks, asked, pumpVars,
                 result, drive>>
-----------------------------------------------------------------------------
(* The goal callback, on the executor thread.  The timers hold the slot's   *)
(* lock only while the executor waits for an answer, so the callback never  *)
(* finds it locked by them.                                                 *)

\* Step 1, the slot: take the handle of the sweep in flight.
TakeOld ==
  /\ exec.at = "idle"
  /\ newest < sent
  /\ newest' = newest + 1
  /\ slot' = None
  /\ exec' = [at |-> IF slot = None THEN "build" ELSE "cancel",
              goal |-> newest + 1, old |-> slot, kind |-> "value"]
  /\ UNCHANGED <<clients, cancel, workerVars, ticks, asked, pumpVars, result, drive>>

\* Broken: the old sweep is joined without being told to stop.
CancelOldForgotten ==
  /\ exec.at = "cancel"
  /\ exec' = [exec EXCEPT !.at = "join"]
  /\ UNCHANGED <<clients, newest, slot, cancel, workerVars, ticks, asked, pumpVars, result,
                 drive>>

\* Step 1, the flag.
CancelOld ==
  /\ exec.at = "cancel"
  /\ cancel' = [cancel EXCEPT ![exec.old] = TRUE]
  /\ exec' = [exec EXCEPT !.at = "join"]
  /\ UNCHANGED <<clients, newest, slot, workerVars, ticks, asked, pumpVars,
                 result, drive>>

\* Step 1, the join: the executor blocks until the old worker has exited.
JoinOld ==
  /\ exec.at = "join"
  /\ worker[exec.old] = "exited"
  /\ exec' = [exec EXCEPT !.at = "build", !.old = None]
  /\ UNCHANGED <<clients, newest, slot, cancel, workerVars, ticks, asked, pumpVars,
                 result, drive>>

\* Steps 2 to 5: accept, build the table, spawn the worker.
SpawnWorker ==
  /\ exec.at = "build"
  /\ worker' = [worker EXCEPT ![exec.goal] = "drain"]
  /\ exec' = [exec EXCEPT !.at = "install"]
  /\ UNCHANGED <<clients, newest, slot, cancel, left, conv, ticks, asked, pumpVars,
                 result, drive>>

\* The new handle goes into the slot; the pump starts; the callback awaits.
Install ==
  /\ exec.at = "install"
  /\ slot' = exec.goal
  /\ pump' = [pump EXCEPT ![exec.goal] = "sleep"]
  /\ exec' = Idle
  /\ UNCHANGED <<clients, newest, cancel, workerVars, ticks, asked, held, answer,
                 result, drive>>

\* done_rx resolves: the goal succeeds with what its pump has sent.
Report(g) ==
  /\ exec.at = "idle"
  /\ answer[g] # "none" /\ result[g] = "none"
  /\ result' = [result EXCEPT ![g] = answer[g]]
  /\ UNCHANGED <<clients, newest, exec, slot, cancel, workerVars, ticks, asked,
                 pumpVars, drive>>
-----------------------------------------------------------------------------
(* The timers, on the executor thread.                                      *)

Publish(kind, g) == IF kind = "cmd" THEN drive' = g ELSE UNCHANGED drive

\* No handle, or its worker is gone: nothing to draw, zero velocity.
TimerIdle(kind) ==
  /\ exec.at = "idle"
  /\ kind = "cmd" => Online
  /\ slot # None => worker[slot] = "exited"
  /\ Publish(kind, None)
  /\ UNCHANGED <<clients, newest, exec, slot, cancel, workerVars, ticks, asked,
                 pumpVars, result>>

\* Send a request with a channel of its own and wait, holding the lock.
TimerAsk(kind) ==
  /\ exec.at = "idle"
  /\ kind = "cmd" => Online
  /\ slot # None /\ worker[slot] # "exited"
  /\ asked' = [asked EXCEPT ![slot] = TRUE]
  /\ exec' = [at |-> "wait", goal |-> slot, old |-> None, kind |-> kind]
  /\ UNCHANGED <<clients, newest, slot, cancel, workerVars, ticks, pumpVars,
                 result, drive>>

\* The answer: an action to drive by, or none for the cell of the robot.
TimerGot ==
  /\ exec.at = "got"
  /\ \E g \in {exec.goal, None} : Publish(exec.kind, g)
  /\ exec' = Idle
  /\ UNCHANGED <<clients, newest, slot, cancel, workerVars, ticks, asked,
                 pumpVars, result>>

\* Two seconds are over, or the worker has dropped the request.  A request
\* that is still queued is answered later to nobody.
TimerGivesUp ==
  /\ exec.at = "wait"
  /\ asked' = [asked EXCEPT ![exec.goal] = FALSE]
  /\ Publish(exec.kind, None)
  /\ exec' = Idle
  /\ UNCHANGED <<clients, newest, slot, cancel, workerVars, ticks, pumpVars,
                 result>>

\* Broken: the timer works on a copy of the handle's channel, without the lock.
LockedNever == FALSE
Locked == exec.at \in {"wait", "got"}
-----------------------------------------------------------------------------
(* The sweep worker.                                                        *)

\* Answer the queued requests.
WorkerDrain(g) ==
  /\ worker[g] = "drain"
  /\ worker' = [worker EXCEPT ![g] = "check"]
  /\ asked' = [asked EXCEPT ![g] = FALSE]
  /\ exec' = IF asked[g] THEN [exec EXCEPT !.at = "got"] ELSE exec
  /\ UNCHANGED <<clients, newest, slot, cancel, left, conv, ticks, pumpVars,
                 result, drive>>

MayStop(g) == cancel[g] \/ left[g] = 0

\* Leave the loop if cancelled or out of budget.
WorkerCheck(g) ==
  /\ worker[g] = "check"
  /\ worker' = [worker EXCEPT ![g] = IF MayStop(g) THEN "exited" ELSE "solve"]
  /\ asked' = [asked EXCEPT ![g] = IF MayStop(g) THEN FALSE ELSE @]
  /\ UNCHANGED <<execVars, slot, cancel, left, conv, ticks, pumpVars>>

\* Broken: the last chunk is not cut to what is left.
ChunkFull(g) == Chunk
ChunkOf(g) == Less(left[g], Chunk)

\* One chunk of the solver, one tick, and the end if it has converged.
WorkerSolve(g) ==
  /\ worker[g] = "solve"
  /\ left' = [left EXCEPT ![g] = @ - ChunkOf(g)]
  /\ ticks' = [ticks EXCEPT ![g] = @ + 1]
  /\ \/ /\ worker' = [worker EXCEPT ![g] = "exited"]
        /\ conv' = [conv EXCEPT ![g] = TRUE]
        /\ asked' = [asked EXCEPT ![g] = FALSE]
     \/ /\ worker' = [worker EXCEPT ![g] = "drain"]
        /\ UNCHANGED <<conv, asked>>
  /\ UNCHANGED <<execVars, slot, cancel, pumpVars>>
-----------------------------------------------------------------------------
(* The feedback pump.                                                       *)

\* 100 ms are over: stop if this goal's sweep has been cancelled.
PumpWake(g) ==
  /\ pump[g] = "sleep"
  /\ pump' = [pump EXCEPT ![g] = IF cancel[g] THEN "take" ELSE "drain"]
  /\ UNCHANGED <<execVars, slot, cancel, workerVars, ticks, asked, held, answer>>

\* Read every tick and publish the last.
PumpDrain(g) ==
  /\ pump[g] = "drain"
  /\ ticks' = [ticks EXCEPT ![g] = 0]
  /\ pump' = [pump EXCEPT ![g] = "probe"]
  /\ UNCHANGED <<execVars, slot, cancel, workerVars, asked, held, answer>>

\* Broken: an empty channel is taken for a closed one.
PumpProbeEmpty(g) ==
  /\ pump[g] = "probe"
  /\ ticks' = [ticks EXCEPT ![g] = IF @ > 0 THEN @ - 1 ELSE 0]
  /\ pump' = [pump EXCEPT ![g] = IF ticks[g] = 0 THEN "take" ELSE "sleep"]
  /\ UNCHANGED <<execVars, slot, cancel, workerVars, asked, held, answer>>

\* Broken: the handle keeps a sender, so the channel never closes.
PumpProbeOpen(g) ==
  /\ pump[g] = "probe"
  /\ ticks' = [ticks EXCEPT ![g] = IF @ > 0 THEN @ - 1 ELSE 0]
  /\ pump' = [pump EXCEPT ![g] = "sleep"]
  /\ UNCHANGED <<execVars, slot, cancel, workerVars, asked, held, answer>>

\* try_recv again: a tick that came in between is swallowed; an empty channel
\* without a sender means that the worker has exited.
PumpProbe(g) ==
  /\ pump[g] = "probe"
  /\ ticks' = [ticks EXCEPT ![g] = IF @ > 0 THEN @ - 1 ELSE 0]
  /\ pump' = [pump EXCEPT ![g] =
                IF ticks[g] = 0 /\ worker[g] = "exited" THEN "take" ELSE "sleep"]
  /\ UNCHANGED <<execVars, slot, cancel, workerVars, asked, held, answer>>

\* Broken: the handle is cloned and stays in the slot.
SlotAfterTakeLeft == slot
SlotAfterTake == None

\* Step 7: take whatever handle is in the slot.
PumpTake(g) ==
  /\ pump[g] = "take"
  /\ ~Locked
  /\ slot' = SlotAfterTake
  /\ held' = [held EXCEPT ![g] = slot]
  /\ \/ /\ slot # None
        /\ pump' = [pump EXCEPT ![g] = "cancel"]
        /\ UNCHANGED answer
     \/ /\ slot = None
        /\ pump' = [pump EXCEPT ![g] = "ended"]
        /\ answer' = [answer EXCEPT ![g] = "unfinished"]
  /\ UNCHANGED <<execVars, cancel, workerVars, ticks, asked>>

PumpCancel(g) ==
  /\ pump[g] = "cancel"
  /\ cancel' = [cancel EXCEPT ![held[g]] = TRUE]
  /\ pump' = [pump EXCEPT ![g] = "join"]
  /\ UNCHANGED <<execVars, slot, workerVars, ticks, asked, held, answer>>

\* Broken: a worker that could be joined counts as finished.
PumpJoinAny(g) ==
  /\ pump[g] = "join"
  /\ worker[held[g]] = "exited"
  /\ answer' = [answer EXCEPT ![g] = "finished"]
  /\ held' = [held EXCEPT ![g] = None]
  /\ pump' = [pump EXCEPT ![g] = "ended"]
  /\ UNCHANGED <<execVars, slot, cancel, workerVars, ticks, asked>>

\* Join that worker and send its verdict as this goal's.
PumpJoin(g) ==
  /\ pump[g] = "join"
  /\ worker[held[g]] = "exited"
  /\ answer' = [answer EXCEPT ![g] =
                  IF conv[held[g]] THEN "finished" ELSE "unfinished"]
  /\ held' = [held EXCEPT ![g] = None]
  /\ pump' = [pump EXCEPT ![g] = "ended"]
  /\ UNCHANGED <<execVars, slot, cancel, workerVars, ticks, asked>>
-----------------------------------------------------------------------------
Callback == TakeOld \/ CancelOld \/ JoinOld \/ SpawnWorker \/ Install
TimerEnds == TimerGot \/ TimerGivesUp
Timer == (\E k \in Kinds : TimerIdle(k) \/ TimerAsk(k)) \/ TimerEnds
Worker(g) == WorkerDrain(g) \/ WorkerCheck(g) \/ WorkerSolve(g)
PumpRuns(g) ==
  PumpWake(g) \/ PumpDrain(g) \/ PumpProbe(g) \/ PumpCancel(g) \/ PumpJoin(g)
Pump(g) == PumpRuns(g) \/ PumpTake(g)

Next ==
  \/ SendGoal
  \/ Callback
  \/ Timer
  \/ \E g \in Goals : Report(g) \/ Worker(g) \/ Pump(g)

\* The executor drains its queue of ready tasks and waits at most two seconds
\* for a timer's answer; threads run; a thread that waits for the lock gets it
\* although timers take it again and again.
Fairness ==
  /\ SF_vars(TakeOld)
  /\ WF_vars(CancelOld \/ JoinOld \/ SpawnWorker \/ Install)
  /\ WF_vars(TimerEnds)
  /\ \A g \in Goals :
       /\ SF_vars(Report(g))
       /\ WF_vars(Worker(g))
       /\ WF_vars(PumpRuns(g))
       /\ SF_vars(PumpTake(g))

Spec == Init /\ [][Next]_vars
FairSpec == Spec /\ Fairness
-----------------------------------------------------------------------------
(* Properties *)

Running(g) == worker[g] \in {"drain", "check", "solve"}

\* Who holds the handle of g.
Keepers(g) ==
  {k \in ({"slot", "callback"} \X {None}) \union ({"pump"} \X Goals) :
     \/ k[1] = "slot" /\ slot = g
     \/ k[1] = "callback" /\ (exec.old = g \/ (exec.at = "install" /\ exec.goal = g))
     \/ k[1] = "pump" /\ held[k[2]] = g}

\* No sweep is orphaned and none is joined twice: the handle of a running
\* worker is in the slot, with the callback or with one pump, and nowhere else.
HandleOwned == \A g \in Goals : Running(g) => Cardinality(Keepers(g)) = 1

\* When the server has taken up a newer goal, the sweeps of the older ones are
\* cancelled, or whoever holds their handle is about to do it.
StaleSweepsStop ==
  \A g \in Goals : Running(g) /\ g < newest =>
    \/ cancel[g]
    \/ exec.at = "cancel" /\ exec.old = g
    \/ \E p \in Goals : pump[p] = "cancel" /\ held[p] = g

\* The robot follows a policy only of the newest goal, and only while that
\* goal has no verdict: not of a plan that was given up while the timer waited.
DriveOnlyCurrent ==
  [][exec.at = "got" /\ drive' # drive /\ drive' # None =>
       drive' = newest /\ answer[drive'] = "none"]_vars

\* With clients that wait for their result, a sweep is never cut short, and the
\* result of a goal is the verdict of its own worker, which has exited by then.
OwnVerdict ==
  patient => \A g \in Goals :
    /\ Running(g) => ~cancel[g]
    /\ result[g] # "none" => worker[g] = "exited" /\ (result[g] = "finished" <=> conv[g])

\* Every goal gets a result, whatever the clients do: no thread waits forever
\* for a lock, a worker or a channel.
EveryGoalAnswered == \A g \in Goals : (sent >= g) ~> (result[g] # "none")

\* "finished = converged" (main.rs): a goal that is reported as finished has a
\* sweep that converged.
FinishedMeansConverged ==
  \A g \in Goals : result[g] = "finished" => conv[g]
-----------------------------------------------------------------------------
(* The inductive invariant: what the callback, the pumps and the slot know  *)
(* about each other.                                                        *)

Closing == {"cancel", "join"}
Waiting == {"sleep", "drain", "probe", "take"}

\* The callback works on the newest goal with the slot empty; a timer waits
\* for the handle in the slot, which is the newest goal's.
ExecutorSound ==
  /\ newest <= sent
  /\ exec.at \in Closing \union {"build", "install"} =>
       exec.goal = newest /\ newest # None /\ slot = None
  /\ exec.at \in {"wait", "got"} => slot # None /\ exec.goal = slot
  /\ exec.at \in Closing => exec.old # None /\ exec.old < newest
  /\ exec.at \notin Closing => exec.old = None
  /\ exec.at = "join" => cancel[exec.old]
  /\ slot # None => slot = newest /\ pump[slot] \in Waiting

\* Worker and pump of a goal start in its callback; only the worker that a
\* timer waits for has a request in its channel.
Spawned ==
  \A g \in Goals :
    /\ worker[g] = "none" <=>
         \/ g > newest
         \/ g = newest /\ exec.at \in Closing \union {"build"}
    /\ pump[g] = "none" <=>
         \/ g > newest
         \/ g = newest /\ exec.at \in Closing \union {"build", "install"}
    /\ asked[g] => exec.at = "wait" /\ exec.goal = g

\* A pump holds a handle from taking it to joining its worker, and answers last.
PumpsSound ==
  \A g \in Goals :
    /\ held[g] # None <=> pump[g] \in Closing
    /\ held[g] # None => pump[held[g]] # "none"
    /\ pump[g] = "join" => cancel[held[g]]
    /\ answer[g] # "none" <=> pump[g] = "ended"
    /\ result[g] # "none" => result[g] = answer[g]

\* A handle has at most one keeper, the handle of a running worker has one.
Owned ==
  /\ \A p \in Goals : held[p] # None => held[p] # slot /\ held[p] # exec.old
  /\ \A p, q \in Goals : held[p] # None /\ held[p] = held[q] => p = q
  /\ \A g \in Goals : Running(g) =>
       \/ slot = g
       \/ exec.old = g
       \/ exec.at = "install" /\ exec.goal = g
       \/ \E p \in Goals : held[p] = g

\* With patient clients one goal at a time is in the server, and its pump
\* takes its own handle, after its worker has exited.
OneAtATime ==
  patient =>
    /\ exec.at \notin Closing
    /\ \A g \in Goals :
         /\ g < sent => result[g] # "none"
         /\ pump[g] \in Waiting => slot = g
         /\ pump[g] = "take" => worker[g] = "exited"
         /\ held[g] # None => held[g] = g /\ worker[g] = "exited"
         /\ cancel[g] => worker[g] = "exited"
         /\ answer[g] # "none" =>
              worker[g] = "exited" /\ (answer[g] = "finished" <=> conv[g])

IInv == TypeOK /\ ExecutorSound /\ Spawned /\ PumpsSound /\ Owned /\ OneAtATime
=============================================================================
