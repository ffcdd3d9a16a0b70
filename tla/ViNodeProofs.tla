----------------------------- MODULE ViNodeProofs -----------------------------
(***************************************************************************)
(* Theorems about ViNode for any number of goals, budget and chunk, with   *)
(* patient and impatient clients, with and without the cmd_vel timer.      *)
(***************************************************************************)
EXTENDS ViNode, FiniteSetTheorems, TLAPS

USE NodeAssumption DEF NodeAssumption, Goals, None, Handles, Verdicts

-----------------------------------------------------------------------------
(* Type correctness. *)

\* The first state has the right types.
LEMMA InitTyped == Init => TypeOK
BY DEF Init, TypeOK, Idle, Kinds

\* A chunk never takes more rounds than are left.
LEMMA ChunkFits ==
  ASSUME TypeOK, NEW g \in Goals
  PROVE  left[g] - ChunkOf(g) \in 0 .. Budget
BY SMTT(30) DEF TypeOK, ChunkOf, Less

\* Every step keeps the types.
LEMMA NextTyped == TypeOK /\ [Next]_vars => TypeOK'
<1> SUFFICES ASSUME TypeOK, [Next]_vars PROVE TypeOK'
  OBVIOUS
<1> USE DEF TypeOK
<1>1. CASE SendGoal
  BY <1>1 DEF SendGoal, workerVars, pumpVars
<1>2. CASE TakeOld
  BY <1>2 DEF TakeOld, clients, workerVars, pumpVars, Kinds
<1>3. CASE CancelOld
  BY <1>3 DEF CancelOld, clients, workerVars, pumpVars
<1>4. CASE JoinOld
  BY <1>4 DEF JoinOld, clients, workerVars, pumpVars
<1>5. CASE SpawnWorker
  BY <1>5 DEF SpawnWorker, clients, pumpVars
<1>6. CASE Install
  BY <1>6 DEF Install, clients, workerVars, Idle, Kinds
<1>7. ASSUME NEW k \in Kinds, TimerIdle(k) PROVE TypeOK'
  BY <1>7 DEF TimerIdle, Publish, clients, workerVars, pumpVars
<1>8. ASSUME NEW k \in Kinds, TimerAsk(k) PROVE TypeOK'
  BY <1>8 DEF TimerAsk, clients, workerVars, pumpVars
<1>9. CASE TimerGot
  BY <1>9, SMTT(30) DEF TimerGot, Publish, clients, workerVars, pumpVars, Idle, Kinds
<1>10. CASE TimerGivesUp
  BY <1>10 DEF TimerGivesUp, Publish, clients, workerVars, pumpVars, Idle, Kinds
<1>11. ASSUME NEW g \in Goals, Report(g) PROVE TypeOK'
  BY <1>11 DEF Report, clients, workerVars, pumpVars
<1>12. ASSUME NEW g \in Goals, WorkerDrain(g) PROVE TypeOK'
  BY <1>12 DEF WorkerDrain, clients, pumpVars
<1>13. ASSUME NEW g \in Goals, WorkerCheck(g) PROVE TypeOK'
  BY <1>13 DEF WorkerCheck, execVars, clients, pumpVars
<1>14. ASSUME NEW g \in Goals, WorkerSolve(g) PROVE TypeOK'
  <2>1. left' \in [Goals -> 0 .. Budget]
    BY <1>14, ChunkFits DEF WorkerSolve
  <2>2. ticks' \in [Goals -> Nat]
    BY <1>14 DEF WorkerSolve
  <2>3. /\ worker' \in [Goals -> {"none", "drain", "check", "solve", "exited"}]
        /\ conv' \in [Goals -> BOOLEAN]
        /\ asked' \in [Goals -> BOOLEAN]
    <3>1. \/ /\ worker' = [worker EXCEPT ![g] = "exited"] /\ conv' = [conv EXCEPT ![g] = TRUE]
             /\ asked' = [asked EXCEPT ![g] = FALSE]
          \/ worker' = [worker EXCEPT ![g] = "drain"] /\ conv' = conv /\ asked' = asked
      BY <1>14 DEF WorkerSolve
    <3>2. /\ worker \in [Goals -> {"none", "drain", "check", "solve", "exited"}]
          /\ conv \in [Goals -> BOOLEAN] /\ asked \in [Goals -> BOOLEAN]
      OBVIOUS
    <3> HIDE DEF TypeOK
    <3>3. worker' \in [Goals -> {"none", "drain", "check", "solve", "exited"}]
      BY <3>1, <3>2
    <3>4. conv' \in [Goals -> BOOLEAN]
      BY <3>1, <3>2
    <3>5. asked' \in [Goals -> BOOLEAN]
      BY <3>1, <3>2
    <3>6. QED
      BY <3>3, <3>4, <3>5
  <2>4. QED
    BY <1>14, <2>1, <2>2, <2>3 DEF WorkerSolve, execVars, clients, pumpVars
<1>15. ASSUME NEW g \in Goals, PumpWake(g) PROVE TypeOK'
  BY <1>15 DEF PumpWake, execVars, clients, workerVars
<1>16. ASSUME NEW g \in Goals, PumpDrain(g) PROVE TypeOK'
  BY <1>16 DEF PumpDrain, execVars, clients, workerVars
<1>17. ASSUME NEW g \in Goals, PumpProbe(g) PROVE TypeOK'
  BY <1>17, SMTT(30) DEF PumpProbe, execVars, clients, workerVars
<1>18. ASSUME NEW g \in Goals, PumpTake(g) PROVE TypeOK'
  <2>1. /\ slot' = None /\ held' = [held EXCEPT ![g] = slot]
        /\ UNCHANGED <<execVars, cancel, workerVars, ticks, asked>>
    BY <1>18 DEF PumpTake, SlotAfterTake
  <2>2. \/ pump' = [pump EXCEPT ![g] = "cancel"] /\ answer' = answer
        \/ pump' = [pump EXCEPT ![g] = "ended"] /\ answer' = [answer EXCEPT ![g] = "unfinished"]
    BY <1>18 DEF PumpTake
  <2>3. pump' \in [Goals -> {"none", "sleep", "drain", "probe", "take", "cancel", "join",
                             "ended"}]
    BY <2>2
  <2>4. answer' \in [Goals -> Verdicts]
    BY <2>2
  <2>5. QED
    BY <2>1, <2>3, <2>4 DEF execVars, clients, workerVars
<1>19. ASSUME NEW g \in Goals, PumpCancel(g) PROVE TypeOK'
  BY <1>19 DEF PumpCancel, execVars, clients, workerVars
<1>20. ASSUME NEW g \in Goals, PumpJoin(g) PROVE TypeOK'
  BY <1>20 DEF PumpJoin, execVars, clients, workerVars
<1>21. CASE UNCHANGED vars
  BY <1>21 DEF vars
<1>22. QED
  BY <1>1, <1>2, <1>3, <1>4, <1>5, <1>6, <1>7, <1>8, <1>9, <1>10, <1>11, <1>12, <1>13,
     <1>14, <1>15, <1>16, <1>17, <1>18, <1>19, <1>20, <1>21
  DEF Next, Callback, Timer, TimerEnds, Worker, Pump, PumpRuns

-----------------------------------------------------------------------------
(* The inductive invariant. *)

\* It holds in the first state.
LEMMA InitSound == Init => IInv
<1> SUFFICES ASSUME Init PROVE IInv
  OBVIOUS
<1>1. TypeOK
  BY InitTyped
<1>2. /\ ExecutorSound /\ Spawned /\ PumpsSound /\ OneAtATime
  BY <1>1 DEF Init, Idle, TypeOK, ExecutorSound, Spawned, PumpsSound, OneAtATime, Closing,
              Waiting
<1>3. Owned
  BY DEF Init, Idle, Owned, Running
<1>4. QED
  BY <1>1, <1>2, <1>3 DEF IInv

\* What a chunk of the solver does to the variables of the other threads.
SolveStep(h) ==
  /\ worker[h] = "solve" /\ worker'[h] \in {"drain", "exited"}
  /\ \A g \in Goals \ {h} : worker'[g] = worker[g] /\ conv'[g] = conv[g]
  /\ \A g \in Goals : asked'[g] => asked[g]

\* WorkerSolve does that.
LEMMA SolveEffect ==
  ASSUME TypeOK, NEW h \in Goals, WorkerSolve(h)
  PROVE  SolveStep(h)
<1> USE DEF TypeOK, SolveStep
<1>1. CASE /\ worker' = [worker EXCEPT ![h] = "exited"]
           /\ conv' = [conv EXCEPT ![h] = TRUE]
           /\ asked' = [asked EXCEPT ![h] = FALSE]
  <2>1. \A g \in Goals : asked'[g] => asked[g]
    BY <1>1
  <2>2. \A g \in Goals \ {h} : worker'[g] = worker[g] /\ conv'[g] = conv[g]
    BY <1>1
  <2>3. worker[h] = "solve" /\ worker'[h] = "exited"
    BY <1>1 DEF WorkerSolve
  <2>4. QED
    BY <2>1, <2>2, <2>3
<1>2. CASE worker' = [worker EXCEPT ![h] = "drain"] /\ conv' = conv /\ asked' = asked
  BY <1>2 DEF WorkerSolve
<1>3. QED
  BY <1>1, <1>2 DEF WorkerSolve

\* What taking the handle does to the pumps.
TakeStep(h) ==
  /\ pump[h] = "take"
  /\ \A g \in Goals \ {h} :
       held'[g] = held[g] /\ pump'[g] = pump[g] /\ answer'[g] = answer[g]
  /\ held'[h] = slot
  /\ slot # None => pump'[h] = "cancel" /\ answer'[h] = answer[h]
  /\ slot = None => pump'[h] = "ended" /\ answer'[h] = "unfinished"

\* PumpTake does that.
LEMMA TakeEffect ==
  ASSUME TypeOK, NEW h \in Goals, PumpTake(h)
  PROVE  TakeStep(h)
<1> USE DEF TypeOK, TakeStep
<1>1. pump[h] = "take" /\ held' = [held EXCEPT ![h] = slot]
  BY DEF PumpTake
<1>2. CASE slot # None
  <2>1. pump' = [pump EXCEPT ![h] = "cancel"] /\ answer' = answer
    BY <1>2 DEF PumpTake
  <2>2. QED
    BY <1>1, <1>2, <2>1
<1>3. CASE slot = None
  <2>1. pump' = [pump EXCEPT ![h] = "ended"] /\ answer' = [answer EXCEPT ![h] = "unfinished"]
    BY <1>3 DEF PumpTake
  <2>2. QED
    BY <1>1, <1>3, <2>1
<1>4. QED
  BY <1>2, <1>3

\* Every step keeps what the callback and the timers know of the slot.
LEMMA NextExecutor == IInv /\ [Next]_vars => ExecutorSound'
<1> SUFFICES ASSUME IInv, [Next]_vars PROVE ExecutorSound'
  OBVIOUS
<1> USE DEF IInv, TypeOK, ExecutorSound, Spawned, Closing, Waiting
<1>1. CASE SendGoal
  BY <1>1 DEF SendGoal, workerVars, pumpVars
<1>2. CASE TakeOld
  BY <1>2 DEF TakeOld, clients, workerVars, pumpVars
<1>3. CASE CancelOld
  BY <1>3 DEF CancelOld, clients, workerVars, pumpVars
<1>4. CASE JoinOld
  BY <1>4 DEF JoinOld, clients, workerVars, pumpVars
<1>5. CASE SpawnWorker
  BY <1>5 DEF SpawnWorker, clients, pumpVars
<1>6. CASE Install
  BY <1>6 DEF Install, clients, workerVars, Idle
<1>7. ASSUME NEW k \in Kinds, TimerIdle(k) PROVE ExecutorSound'
  BY <1>7 DEF TimerIdle, Publish, clients, workerVars, pumpVars
<1>8. ASSUME NEW k \in Kinds, TimerAsk(k) PROVE ExecutorSound'
  BY <1>8 DEF TimerAsk, clients, workerVars, pumpVars
<1>9. CASE TimerGot
  BY <1>9 DEF TimerGot, Publish, clients, workerVars, pumpVars, Idle
<1>10. CASE TimerGivesUp
  BY <1>10 DEF TimerGivesUp, Publish, clients, workerVars, pumpVars, Idle
<1>11. ASSUME NEW h \in Goals, Report(h) PROVE ExecutorSound'
  BY <1>11 DEF Report, clients, workerVars, pumpVars
<1>12. ASSUME NEW h \in Goals, WorkerDrain(h) PROVE ExecutorSound'
  BY <1>12 DEF WorkerDrain, clients, pumpVars
<1>13. ASSUME NEW h \in Goals, WorkerCheck(h) PROVE ExecutorSound'
  BY <1>13 DEF WorkerCheck, MayStop, execVars, clients, pumpVars
<1>14. ASSUME NEW h \in Goals, WorkerSolve(h) PROVE ExecutorSound'
  <2>1. UNCHANGED <<sent, newest, exec, slot, cancel, pump>>
    BY <1>14 DEF WorkerSolve, execVars, clients, pumpVars
  <2>2. QED
    BY <2>1
<1>15. ASSUME NEW h \in Goals, PumpWake(h) PROVE ExecutorSound'
  BY <1>15 DEF PumpWake, execVars, clients, workerVars
<1>16. ASSUME NEW h \in Goals, PumpDrain(h) PROVE ExecutorSound'
  BY <1>16 DEF PumpDrain, execVars, clients, workerVars
<1>17. ASSUME NEW h \in Goals, PumpProbe(h) PROVE ExecutorSound'
  BY <1>17 DEF PumpProbe, execVars, clients, workerVars
<1>18. ASSUME NEW h \in Goals, PumpTake(h) PROVE ExecutorSound'
  <2>1. /\ slot' = None
        /\ UNCHANGED <<sent, newest, exec, cancel>>
        /\ exec.at \notin {"wait", "got"}
    BY <1>18 DEF PumpTake, Locked, SlotAfterTake, execVars, clients, workerVars
  <2>2. QED
    BY <2>1
<1>19. ASSUME NEW h \in Goals, PumpCancel(h) PROVE ExecutorSound'
  BY <1>19, SMTT(30) DEF PumpCancel, execVars, clients, workerVars
<1>20. ASSUME NEW h \in Goals, PumpJoin(h) PROVE ExecutorSound'
  BY <1>20 DEF PumpJoin, execVars, clients, workerVars
<1>21. CASE UNCHANGED vars
  BY <1>21 DEF vars
<1>22. QED
  BY <1>1, <1>2, <1>3, <1>4, <1>5, <1>6, <1>7, <1>8, <1>9, <1>10, <1>11, <1>12,
     <1>13, <1>14, <1>15, <1>16, <1>17, <1>18, <1>19, <1>20, <1>21
  DEF Next, Callback, Timer, TimerEnds, Worker, Pump, PumpRuns

\* Workers and pumps exist from their place in the callback on, and requests
\* wait only for a timer that waits for them.
LEMMA NextSpawned == IInv /\ [Next]_vars => Spawned'
<1> SUFFICES ASSUME IInv, [Next]_vars PROVE Spawned'
  OBVIOUS
<1>s. \A h \in Goals : WorkerSolve(h) => SolveStep(h)
  BY SolveEffect DEF IInv
<1> USE DEF IInv, TypeOK, ExecutorSound, Spawned, Closing
<1>1. CASE SendGoal
  BY <1>1 DEF SendGoal, workerVars, pumpVars
<1>2. CASE TakeOld
  BY <1>2 DEF TakeOld, clients, workerVars, pumpVars
<1>3. CASE CancelOld
  BY <1>3 DEF CancelOld, clients, workerVars, pumpVars
<1>4. CASE JoinOld
  BY <1>4 DEF JoinOld, clients, workerVars, pumpVars
<1>5. CASE SpawnWorker
  BY <1>5 DEF SpawnWorker, clients, pumpVars
<1>6. CASE Install
  BY <1>6 DEF Install, clients, workerVars, Idle
<1>7. ASSUME NEW k \in Kinds, TimerIdle(k) PROVE Spawned'
  BY <1>7 DEF TimerIdle, Publish, clients, workerVars, pumpVars
<1>8. ASSUME NEW k \in Kinds, TimerAsk(k) PROVE Spawned'
  BY <1>8 DEF TimerAsk, clients, workerVars, pumpVars
<1>9. CASE TimerGot
  BY <1>9 DEF TimerGot, Publish, clients, workerVars, pumpVars, Idle
<1>10. CASE TimerGivesUp
  BY <1>10 DEF TimerGivesUp, Publish, clients, workerVars, pumpVars, Idle
<1>11. ASSUME NEW h \in Goals, Report(h) PROVE Spawned'
  BY <1>11 DEF Report, clients, workerVars, pumpVars
<1>12. ASSUME NEW h \in Goals, WorkerDrain(h) PROVE Spawned'
  BY <1>12, SMTT(30) DEF WorkerDrain, clients, pumpVars
<1>13. ASSUME NEW h \in Goals, WorkerCheck(h) PROVE Spawned'
  BY <1>13 DEF WorkerCheck, MayStop, execVars, clients, pumpVars
<1>14. ASSUME NEW h \in Goals, WorkerSolve(h) PROVE Spawned'
  <2>1. UNCHANGED <<newest, exec, pump>>
    BY <1>14 DEF WorkerSolve, execVars, clients, pumpVars
  <2>2. \A g \in Goals : worker'[g] = "none" <=> worker[g] = "none"
    BY <1>14, <1>s DEF SolveStep
  <2>3. \A g \in Goals : asked'[g] => asked[g]
    BY <1>14, <1>s DEF SolveStep
  <2>4. QED
    BY <2>1, <2>2, <2>3
<1>15. ASSUME NEW h \in Goals, PumpWake(h) PROVE Spawned'
  BY <1>15 DEF PumpWake, execVars, clients, workerVars
<1>16. ASSUME NEW h \in Goals, PumpDrain(h) PROVE Spawned'
  <2>1. UNCHANGED <<newest, exec, worker, asked>>
    BY <1>16 DEF PumpDrain, execVars, clients, workerVars
  <2>2. \A g \in Goals : pump'[g] = "none" <=> pump[g] = "none"
    BY <1>16 DEF PumpDrain, execVars, clients, workerVars
  <2>3. QED
    BY <2>1, <2>2
<1>17. ASSUME NEW h \in Goals, PumpProbe(h) PROVE Spawned'
  BY <1>17 DEF PumpProbe, execVars, clients, workerVars
<1>18. ASSUME NEW h \in Goals, PumpTake(h) PROVE Spawned'
  <2>1. UNCHANGED <<newest, exec, worker, asked>>
    BY <1>18 DEF PumpTake, Locked, SlotAfterTake, execVars, clients, workerVars
  <2>2. \A g \in Goals : pump'[g] = "none" <=> pump[g] = "none"
    BY <1>18, SMTT(30) DEF PumpTake, Locked, SlotAfterTake, execVars, clients, workerVars
  <2>3. QED
    BY <2>1, <2>2
<1>19. ASSUME NEW h \in Goals, PumpCancel(h) PROVE Spawned'
  BY <1>19, SMTT(30) DEF PumpCancel, execVars, clients, workerVars
<1>20. ASSUME NEW h \in Goals, PumpJoin(h) PROVE Spawned'
  BY <1>20 DEF PumpJoin, execVars, clients, workerVars
<1>21. CASE UNCHANGED vars
  BY <1>21 DEF vars
<1>22. QED
  BY <1>1, <1>2, <1>3, <1>4, <1>5, <1>6, <1>7, <1>8, <1>9, <1>10, <1>11, <1>12,
     <1>13, <1>14, <1>15, <1>16, <1>17, <1>18, <1>19, <1>20, <1>21
  DEF Next, Callback, Timer, TimerEnds, Worker, Pump, PumpRuns

\* A pump that holds a handle is closing it, and one that has answered has ended.
LEMMA NextPumps == IInv /\ [Next]_vars => PumpsSound'
<1> SUFFICES ASSUME IInv, [Next]_vars PROVE PumpsSound'
  OBVIOUS
<1>t. \A h \in Goals : PumpTake(h) => TakeStep(h)
  BY TakeEffect DEF IInv
<1> USE DEF IInv, TypeOK, ExecutorSound, Spawned, PumpsSound, Closing, Waiting
<1>1. CASE SendGoal
  BY <1>1 DEF SendGoal, workerVars, pumpVars
<1>2. CASE TakeOld
  BY <1>2 DEF TakeOld, clients, workerVars, pumpVars
<1>3. CASE CancelOld
  <2>1. UNCHANGED <<pump, held, answer, result>>
    BY <1>3 DEF CancelOld, clients, workerVars, pumpVars
  <2>2. \A g \in Goals : cancel[g] => cancel'[g]
    BY <1>3 DEF CancelOld, clients, workerVars, pumpVars
  <2>3. QED
    BY <2>1, <2>2, SMTT(30)
<1>4. CASE JoinOld
  BY <1>4 DEF JoinOld, clients, workerVars, pumpVars
<1>5. CASE SpawnWorker
  BY <1>5 DEF SpawnWorker, clients, pumpVars
<1>6. CASE Install
  BY <1>6 DEF Install, clients, workerVars, Idle
<1>7. ASSUME NEW k \in Kinds, TimerIdle(k) PROVE PumpsSound'
  BY <1>7 DEF TimerIdle, Publish, clients, workerVars, pumpVars
<1>8. ASSUME NEW k \in Kinds, TimerAsk(k) PROVE PumpsSound'
  BY <1>8 DEF TimerAsk, clients, workerVars, pumpVars
<1>9. CASE TimerGot
  BY <1>9 DEF TimerGot, Publish, clients, workerVars, pumpVars, Idle
<1>10. CASE TimerGivesUp
  BY <1>10 DEF TimerGivesUp, Publish, clients, workerVars, pumpVars, Idle
<1>11. ASSUME NEW h \in Goals, Report(h) PROVE PumpsSound'
  BY <1>11 DEF Report, clients, workerVars, pumpVars
<1>12. ASSUME NEW h \in Goals, WorkerDrain(h) PROVE PumpsSound'
  BY <1>12 DEF WorkerDrain, clients, pumpVars
<1>13. ASSUME NEW h \in Goals, WorkerCheck(h) PROVE PumpsSound'
  BY <1>13 DEF WorkerCheck, MayStop, execVars, clients, pumpVars
<1>14. ASSUME NEW h \in Goals, WorkerSolve(h) PROVE PumpsSound'
  BY <1>14 DEF WorkerSolve, execVars, clients, pumpVars
<1>15. ASSUME NEW h \in Goals, PumpWake(h) PROVE PumpsSound'
  BY <1>15, SMTT(30) DEF PumpWake, execVars, clients, workerVars
<1>16. ASSUME NEW h \in Goals, PumpDrain(h) PROVE PumpsSound'
  BY <1>16, SMTT(30) DEF PumpDrain, execVars, clients, workerVars
<1>17. ASSUME NEW h \in Goals, PumpProbe(h) PROVE PumpsSound'
  BY <1>17, SMTT(30) DEF PumpProbe, execVars, clients, workerVars
<1>18. ASSUME NEW h \in Goals, PumpTake(h) PROVE PumpsSound'
  <2>1. UNCHANGED <<cancel, result>> /\ pump[h] = "take" /\ slot \in Handles
    BY <1>18 DEF PumpTake, Locked, SlotAfterTake, execVars, clients, workerVars
  <2>2. answer[h] = "none" /\ result[h] = "none"
    BY <2>1
  <2>3. \A g \in Goals : pump[g] # "none" => pump'[g] # "none"
    BY <1>18, <1>t, SMTT(30) DEF TakeStep
  <2>4. ASSUME NEW g \in Goals, held'[g] # None PROVE pump'[held'[g]] # "none"
    <3>1. held'[g] \in Goals /\ pump[held'[g]] # "none"
      <4>1. CASE g = h
        BY <1>18, <2>1, <2>4, <4>1, <1>t, SMTT(30) DEF TakeStep
      <4>2. CASE g # h
        <5>1. held'[g] = held[g]
          BY <1>18, <4>2, <1>t DEF TakeStep
        <5>2. QED
          BY <2>4, <5>1
      <4>3. QED
        BY <4>1, <4>2
    <3>2. QED
      BY <3>1, <2>3
  <2>5. ASSUME NEW g \in Goals
        PROVE  /\ held'[g] # None <=> pump'[g] \in Closing
               /\ pump'[g] = "join" => cancel'[held'[g]]
               /\ answer'[g] # "none" <=> pump'[g] = "ended"
               /\ result'[g] # "none" => result'[g] = answer'[g]
    <3>1. CASE g # h
      BY <1>18, <2>1, <3>1, <1>t, SMTT(30) DEF TakeStep
    <3>2. CASE g = h
      BY <1>18, <2>1, <2>2, <3>2, <1>t DEF TakeStep
    <3>3. QED
      BY <3>1, <3>2
  <2>6. QED
    BY <2>4, <2>5
<1>19. ASSUME NEW h \in Goals, PumpCancel(h) PROVE PumpsSound'
  BY <1>19, SMTT(30) DEF PumpCancel, execVars, clients, workerVars
<1>20. ASSUME NEW h \in Goals, PumpJoin(h) PROVE PumpsSound'
  BY <1>20, SMTT(30) DEF PumpJoin, execVars, clients, workerVars
<1>21. CASE UNCHANGED vars
  BY <1>21 DEF vars
<1>22. QED
  BY <1>1, <1>2, <1>3, <1>4, <1>5, <1>6, <1>7, <1>8, <1>9, <1>10, <1>11, <1>12,
     <1>13, <1>14, <1>15, <1>16, <1>17, <1>18, <1>19, <1>20, <1>21
  DEF Next, Callback, Timer, TimerEnds, Worker, Pump, PumpRuns

\* A step that moves no handle and starts no worker keeps their owners.
LEMMA OwnedFrame ==
  ASSUME TypeOK, Owned, exec.at # "install",
         UNCHANGED <<slot, held>>, exec'.old = exec.old \/ exec'.old = None,
         \A g \in Goals : Running(g)' => Running(g) /\ (exec.old = g => exec'.old = g)
  PROVE  Owned'
<1>1. \A p \in Goals : held'[p] # None => held'[p] # slot' /\ held'[p] # exec'.old
  BY DEF Owned
<1>2. \A p, q \in Goals : held'[p] # None /\ held'[p] = held'[q] => p = q
  BY DEF Owned
<1>3. \A g \in Goals : Running(g)' =>
        slot' = g \/ exec'.old = g \/ \E p \in Goals : held'[p] = g
  BY DEF Owned
<1>4. QED
  BY <1>1, <1>2, <1>3 DEF Owned

\* No step loses a running worker's handle or leaves it with two keepers.
LEMMA NextOwned == IInv /\ [Next]_vars => Owned'
<1> SUFFICES ASSUME IInv, [Next]_vars PROVE Owned'
  OBVIOUS
<1> USE DEF IInv, TypeOK, ExecutorSound, Closing
<1>1. CASE SendGoal
  BY <1>1 DEF SendGoal, workerVars, pumpVars, Owned, Running
<1>2. CASE TakeOld
  <2>1. /\ UNCHANGED <<held, worker>>
        /\ slot' = None /\ exec'.old = slot
        /\ exec.old = None /\ exec.at # "install"
    BY <1>2 DEF TakeOld, clients, workerVars, pumpVars
  <2>2. QED
    BY <2>1 DEF Owned, Running
<1>3. CASE CancelOld
  BY <1>3 DEF CancelOld, clients, workerVars, pumpVars, Owned, Running
<1>4. CASE JoinOld
  <2>1. UNCHANGED <<slot, held, worker>> /\ exec'.old = None /\ exec.at # "install"
    BY <1>4 DEF JoinOld, clients, workerVars, pumpVars
  <2>2. \A g \in Goals : Running(g)' => Running(g) /\ exec.old # g
    BY <1>4, <2>1 DEF JoinOld, Running
  <2>3. QED
    BY <2>1, <2>2, OwnedFrame
<1>5. CASE SpawnWorker
  BY <1>5 DEF SpawnWorker, clients, pumpVars, Owned, Running
<1>6. CASE Install
  <2>1. /\ UNCHANGED <<held, worker>>
        /\ slot = None /\ slot' = exec.goal /\ slot' = newest
        /\ exec.old = None /\ exec'.old = None
    BY <1>6 DEF Install, clients, workerVars, Idle
  <2>2. \A p \in Goals : held[p] # None => held[p] # newest
    BY <1>6 DEF Install, Spawned, PumpsSound
  <2>3. QED
    BY <2>1, <2>2 DEF Owned, Running
<1>7. ASSUME NEW k \in Kinds, TimerIdle(k) PROVE Owned'
  BY <1>7 DEF TimerIdle, Publish, clients, workerVars, pumpVars, Owned, Running
<1>8. ASSUME NEW k \in Kinds, TimerAsk(k) PROVE Owned'
  <2>1. UNCHANGED <<slot, held, worker>> /\ exec'.old = exec.old /\ exec.at # "install"
    BY <1>8 DEF TimerAsk, clients, workerVars, pumpVars
  <2>2. QED
    BY <2>1, OwnedFrame DEF Running
<1>9. CASE TimerGot
  <2>1. UNCHANGED <<slot, held, worker>> /\ exec'.old = exec.old /\ exec.at # "install"
    BY <1>9 DEF TimerGot, Publish, clients, workerVars, pumpVars, Idle
  <2>2. QED
    BY <2>1, OwnedFrame DEF Running
<1>10. CASE TimerGivesUp
  <2>1. UNCHANGED <<slot, held, worker>> /\ exec'.old = exec.old /\ exec.at # "install"
    BY <1>10 DEF TimerGivesUp, Publish, clients, workerVars, pumpVars, Idle
  <2>2. QED
    BY <2>1, OwnedFrame DEF Running
<1>11. ASSUME NEW h \in Goals, Report(h) PROVE Owned'
  BY <1>11 DEF Report, clients, workerVars, pumpVars, Owned, Running
<1>12. ASSUME NEW h \in Goals, WorkerDrain(h) PROVE Owned'
  <2>1. UNCHANGED <<slot, held>> /\ exec'.old = exec.old
    BY <1>12 DEF WorkerDrain, clients, pumpVars
  <2>2. \A g \in Goals : Running(g)' => Running(g)
    BY <1>12 DEF WorkerDrain, clients, pumpVars, Running
  <2>3. exec'.at = "install" <=> exec.at = "install"
    BY <1>12 DEF WorkerDrain, Spawned
  <2>4. exec'.goal = exec.goal
    BY <1>12 DEF WorkerDrain
  <2>5. QED
    BY <2>1, <2>2, <2>3, <2>4 DEF Owned
<1>13. ASSUME NEW h \in Goals, WorkerCheck(h) PROVE Owned'
  BY <1>13 DEF WorkerCheck, MayStop, execVars, clients, pumpVars, Owned, Running
<1>14. ASSUME NEW h \in Goals, WorkerSolve(h) PROVE Owned'
  <2>1. UNCHANGED <<slot, held, exec>>
    BY <1>14 DEF WorkerSolve, execVars, clients, pumpVars
  <2>2. \A g \in Goals : Running(g)' => Running(g)
    BY <1>14 DEF WorkerSolve, execVars, clients, pumpVars, Running
  <2>3. QED
    BY <2>1, <2>2 DEF Owned
<1>15. ASSUME NEW h \in Goals, PumpWake(h) PROVE Owned'
  BY <1>15 DEF PumpWake, execVars, clients, workerVars, Owned, Running
<1>16. ASSUME NEW h \in Goals, PumpDrain(h) PROVE Owned'
  BY <1>16 DEF PumpDrain, execVars, clients, workerVars, Owned, Running
<1>17. ASSUME NEW h \in Goals, PumpProbe(h) PROVE Owned'
  BY <1>17 DEF PumpProbe, execVars, clients, workerVars, Owned, Running
<1>18. ASSUME NEW h \in Goals, PumpTake(h) PROVE Owned'
  <2>1. /\ UNCHANGED <<exec, worker>>
        /\ slot' = None /\ held' = [held EXCEPT ![h] = slot]
    BY <1>18 DEF PumpTake, Locked, SlotAfterTake, execVars, clients, workerVars
  <2>2. held[h] = None
    BY <1>18 DEF PumpTake, PumpsSound
  <2>3. slot # None => exec.old = None
    OBVIOUS
  <2>4. /\ \A p \in Goals : held'[p] # None => held'[p] # slot' /\ held'[p] # exec'.old
        /\ \A p, q \in Goals : held'[p] # None /\ held'[p] = held'[q] => p = q
    BY <2>1, <2>3, SMTT(30) DEF Owned
  <2>5. ASSUME NEW g \in Goals, Running(g)'
        PROVE  \/ slot' = g \/ exec'.old = g
               \/ exec'.at = "install" /\ exec'.goal = g
               \/ \E p \in Goals : held'[p] = g
    <3>1. Running(g)
      BY <2>1, <2>5 DEF Running
    <3>2. CASE slot = g
      BY <2>1, <3>2
    <3>3. CASE \E p \in Goals : held[p] = g
      BY <2>1, <2>2, <3>3
    <3>4. QED
      BY <2>1, <3>1, <3>2, <3>3 DEF Owned
  <2>6. QED
    BY <2>4, <2>5 DEF Owned
<1>19. ASSUME NEW h \in Goals, PumpCancel(h) PROVE Owned'
  BY <1>19 DEF PumpCancel, execVars, clients, workerVars, Owned, Running
<1>20. ASSUME NEW h \in Goals, PumpJoin(h) PROVE Owned'
  <2>1. /\ UNCHANGED <<slot, exec, worker>>
        /\ held' = [held EXCEPT ![h] = None] /\ worker[held[h]] = "exited"
    BY <1>20 DEF PumpJoin, execVars, clients, workerVars
  <2>2. /\ \A p \in Goals : held'[p] # None => held'[p] # slot' /\ held'[p] # exec'.old
        /\ \A p, q \in Goals : held'[p] # None /\ held'[p] = held'[q] => p = q
    BY <2>1, SMTT(30) DEF Owned
  <2>3. ASSUME NEW g \in Goals, Running(g)'
        PROVE  \/ slot' = g \/ exec'.old = g
               \/ exec'.at = "install" /\ exec'.goal = g
               \/ \E p \in Goals : held'[p] = g
    <3>1. Running(g) /\ held[h] # g
      BY <2>1, <2>3 DEF Running
    <3>2. CASE \E p \in Goals : held[p] = g
      BY <2>1, <3>1, <3>2
    <3>3. QED
      BY <2>1, <3>1, <3>2 DEF Owned
  <2>4. QED
    BY <2>2, <2>3 DEF Owned
<1>21. CASE UNCHANGED vars
  BY <1>21 DEF vars, Owned, Running
<1>22. QED
  BY <1>1, <1>2, <1>3, <1>4, <1>5, <1>6, <1>7, <1>8, <1>9, <1>10, <1>11, <1>12,
     <1>13, <1>14, <1>15, <1>16, <1>17, <1>18, <1>19, <1>20, <1>21
  DEF Next, Callback, Timer, TimerEnds, Worker, Pump, PumpRuns

\* Clients that wait for their result keep one goal at a time in the server.
LEMMA NextOneAtATime == IInv /\ [Next]_vars => OneAtATime'
<1> SUFFICES ASSUME IInv, [Next]_vars PROVE OneAtATime'
  OBVIOUS
<1>s. \A h \in Goals : WorkerSolve(h) => SolveStep(h)
  BY SolveEffect DEF IInv
<1>t. \A h \in Goals : PumpTake(h) => TakeStep(h)
  BY TakeEffect DEF IInv
<1> USE DEF IInv, TypeOK, ExecutorSound, Spawned, PumpsSound, OneAtATime, Closing, Waiting
<1>1. CASE SendGoal
  BY <1>1 DEF SendGoal, workerVars, pumpVars
<1>2. CASE TakeOld
  BY <1>2 DEF TakeOld, clients, workerVars, pumpVars
<1>3. CASE CancelOld
  BY <1>3 DEF CancelOld, clients, workerVars, pumpVars
<1>4. CASE JoinOld
  BY <1>4 DEF JoinOld, clients, workerVars, pumpVars
<1>5. CASE SpawnWorker
  BY <1>5 DEF SpawnWorker, clients, pumpVars
<1>6. CASE Install
  BY <1>6 DEF Install, clients, workerVars, Idle
<1>7. ASSUME NEW k \in Kinds, TimerIdle(k) PROVE OneAtATime'
  BY <1>7 DEF TimerIdle, Publish, clients, workerVars, pumpVars
<1>8. ASSUME NEW k \in Kinds, TimerAsk(k) PROVE OneAtATime'
  BY <1>8 DEF TimerAsk, clients, workerVars, pumpVars
<1>9. CASE TimerGot
  BY <1>9 DEF TimerGot, Publish, clients, workerVars, pumpVars, Idle
<1>10. CASE TimerGivesUp
  BY <1>10 DEF TimerGivesUp, Publish, clients, workerVars, pumpVars, Idle
<1>11. ASSUME NEW h \in Goals, Report(h) PROVE OneAtATime'
  BY <1>11 DEF Report, clients, workerVars, pumpVars
<1>12. ASSUME NEW h \in Goals, WorkerDrain(h) PROVE OneAtATime'
  BY <1>12 DEF WorkerDrain, clients, pumpVars
<1>13. ASSUME NEW h \in Goals, WorkerCheck(h) PROVE OneAtATime'
  BY <1>13 DEF WorkerCheck, MayStop, execVars, clients, pumpVars
<1>14. ASSUME NEW h \in Goals, WorkerSolve(h) PROVE OneAtATime'
  <2>1. UNCHANGED <<patient, sent, exec, slot, cancel, pump, held, answer, result>>
    BY <1>14 DEF WorkerSolve, execVars, clients, pumpVars
  <2>2. \A g \in Goals : worker[g] = "exited" =>
          worker'[g] = "exited" /\ conv'[g] = conv[g]
    BY <1>14, <1>s, SMTT(30) DEF SolveStep
  <2>3. QED
    BY <2>1, <2>2
<1>15. ASSUME NEW h \in Goals, PumpWake(h) PROVE OneAtATime'
  BY <1>15 DEF PumpWake, execVars, clients, workerVars
<1>16. ASSUME NEW h \in Goals, PumpDrain(h) PROVE OneAtATime'
  BY <1>16 DEF PumpDrain, execVars, clients, workerVars
<1>17. ASSUME NEW h \in Goals, PumpProbe(h) PROVE OneAtATime'
  BY <1>17 DEF PumpProbe, execVars, clients, workerVars
<1>18. ASSUME NEW h \in Goals, PumpTake(h) PROVE OneAtATime'
  <2>1. /\ UNCHANGED <<patient, sent, exec, cancel, worker, conv, result>>
        /\ slot' = None
    BY <1>18 DEF PumpTake, SlotAfterTake, execVars, clients, workerVars
  <2>2. patient => slot = h /\ worker[h] = "exited"
    BY <1>18, <1>t DEF TakeStep
  <2>3. patient => pump'[h] = "cancel" /\ held'[h] = h /\ answer'[h] = "none"
    BY <1>18, <2>2, <1>t DEF TakeStep
  <2>4. ASSUME NEW g \in Goals \ {h}, patient
        PROVE  /\ held'[g] = held[g] /\ pump'[g] = pump[g] /\ answer'[g] = answer[g]
               /\ pump[g] \notin Waiting
    BY <1>18, <2>2, <2>4, <1>t DEF TakeStep
  <2>5. ASSUME patient', NEW g \in Goals
        PROVE  /\ g < sent' => result'[g] # "none"
               /\ pump'[g] \in Waiting => slot' = g
               /\ pump'[g] = "take" => worker'[g] = "exited"
               /\ held'[g] # None => held'[g] = g /\ worker'[g] = "exited"
               /\ cancel'[g] => worker'[g] = "exited"
               /\ answer'[g] # "none" =>
                    worker'[g] = "exited" /\ (answer'[g] = "finished" <=> conv'[g])
    <3>1. CASE g = h
      BY <2>1, <2>2, <2>3, <2>5, <3>1
    <3>2. CASE g # h
      BY <2>1, <2>4, <2>5, <3>2
    <3>3. QED
      BY <3>1, <3>2
  <2>6. QED
    BY <2>1, <2>5
<1>19. ASSUME NEW h \in Goals, PumpCancel(h) PROVE OneAtATime'
  BY <1>19 DEF PumpCancel, execVars, clients, workerVars
<1>20. ASSUME NEW h \in Goals, PumpJoin(h) PROVE OneAtATime'
  BY <1>20 DEF PumpJoin, execVars, clients, workerVars
<1>21. CASE UNCHANGED vars
  BY <1>21 DEF vars
<1>22. QED
  BY <1>1, <1>2, <1>3, <1>4, <1>5, <1>6, <1>7, <1>8, <1>9, <1>10, <1>11, <1>12,
     <1>13, <1>14, <1>15, <1>16, <1>17, <1>18, <1>19, <1>20, <1>21
  DEF Next, Callback, Timer, TimerEnds, Worker, Pump, PumpRuns

\* Every step keeps the inductive invariant.
LEMMA NextSound == IInv /\ [Next]_vars => IInv'
BY NextTyped, NextExecutor, NextSpawned, NextPumps, NextOwned, NextOneAtATime DEF IInv

\* The callback, the pumps, the timers and the slot agree in every state.
THEOREM NodeInvariant == Spec => []IInv
<1>1. Init => IInv
  BY InitSound
<1>2. IInv /\ [Next]_vars => IInv'
  BY NextSound
<1>3. QED
  BY <1>1, <1>2, PTL DEF Spec

-----------------------------------------------------------------------------
(* What follows from it. *)

\* A set with one member has cardinality 1.
LEMMA OneKeeper ==
  ASSUME NEW S, NEW k \in S, \A j \in S : j = k
  PROVE  Cardinality(S) = 1
<1>1. S = {k}
  OBVIOUS
<1>2. QED
  BY <1>1, FS_Singleton

\* The handle of a running worker is in exactly one place: no sweep is
\* orphaned and no worker is joined twice, however goals pre-empt each other.
THEOREM HandleHasOneKeeper == Spec => []HandleOwned
<1>1. IInv => HandleOwned
  <2> SUFFICES ASSUME IInv, NEW g \in Goals, Running(g)
               PROVE  Cardinality(Keepers(g)) = 1
    BY DEF HandleOwned
  <2> USE DEF IInv, TypeOK, ExecutorSound, Owned, Closing
  <2>1. CASE slot = g
    <3>1. <<"slot", None>> \in Keepers(g)
      BY <2>1 DEF Keepers
    <3>2. /\ exec.old # g /\ ~(exec.at = "install" /\ exec.goal = g)
          /\ \A p \in Goals : held[p] # g
      BY <2>1
    <3>3. ASSUME NEW k \in Keepers(g) PROVE k = <<"slot", None>>
      <4>1. k \in {"slot"} \X {None}
        BY <3>2, <3>3, SMTT(30) DEF Keepers
      <4>2. QED
        BY <4>1
    <3>4. QED
      BY <3>1, <3>3, OneKeeper
  <2>2. CASE exec.old = g \/ (exec.at = "install" /\ exec.goal = g)
    <3>1. \A p \in Goals : held[p] # g
      BY <2>2 DEF Spawned, PumpsSound
    <3>2. <<"callback", None>> \in Keepers(g) /\ slot # g
      BY <2>2 DEF Keepers
    <3>3. ASSUME NEW k \in Keepers(g) PROVE k = <<"callback", None>>
      <4>1. k \in {"callback"} \X {None}
        BY <3>1, <3>2, <3>3 DEF Keepers
      <4>2. QED
        BY <4>1
    <3>4. QED
      BY <3>2, <3>3, OneKeeper
  <2>3. ASSUME NEW p \in Goals, held[p] = g
        PROVE  Cardinality(Keepers(g)) = 1
    <3>1. \A q \in Goals : held[q] = g => q = p
      BY <2>3
    <3>2. slot # g /\ exec.old # g /\ ~(exec.at = "install" /\ exec.goal = g)
      BY <2>3, SMTT(30) DEF Spawned, PumpsSound
    <3>3. <<"pump", p>> \in Keepers(g)
      BY <2>3 DEF Keepers
    <3>4. ASSUME NEW k \in Keepers(g) PROVE k = <<"pump", p>>
      <4>1. k \in {"pump"} \X Goals /\ held[k[2]] = g
        BY <3>2, <3>4 DEF Keepers
      <4>2. QED
        BY <3>1, <4>1
    <3>5. QED
      BY <3>3, <3>4, OneKeeper
  <2>4. QED
    BY <2>1, <2>2, <2>3
<1>2. QED
  BY NodeInvariant, <1>1, PTL

\* However many goals pre-empt each other, the sweep of an older one is told
\* to stop, or is about to be.
THEOREM OldSweepsStop == Spec => []StaleSweepsStop
<1>1. IInv => StaleSweepsStop
  <2> SUFFICES ASSUME IInv, NEW g \in Goals, Running(g), g < newest, ~cancel[g]
               PROVE  \/ exec.at = "cancel" /\ exec.old = g
                      \/ \E p \in Goals : pump[p] = "cancel" /\ held[p] = g
    BY DEF StaleSweepsStop
  <2>1. exec.old = g \/ \E p \in Goals : held[p] = g
    BY DEF IInv, TypeOK, ExecutorSound, Owned
  <2>2. exec.old = g => exec.at = "cancel"
    BY DEF IInv, ExecutorSound, Closing
  <2>3. \A p \in Goals : held[p] = g => pump[p] = "cancel"
    BY DEF IInv, PumpsSound, Closing
  <2>4. QED
    BY <2>1, <2>2, <2>3
<1>2. QED
  BY NodeInvariant, <1>1, PTL

\* The robot is driven by the newest goal's policy only, and only before that
\* goal's pump has answered.
THEOREM DriveCurrent == Spec => DriveOnlyCurrent
<1> DEFINE A == exec.at = "got" /\ drive' # drive /\ drive' # None =>
                  drive' = newest /\ answer[drive'] = "none"
<1>1. IInv /\ [Next]_vars => [A]_vars
  <2> SUFFICES ASSUME IInv, [Next]_vars, exec.at = "got", drive' # drive, drive' # None
               PROVE  drive' = newest /\ answer[drive'] = "none"
    OBVIOUS
  <2>1. TimerGot
    BY DEF Next, Callback, Timer, TimerEnds, Worker, Pump, PumpRuns, vars, execVars, SendGoal,
           TakeOld, CancelOld, JoinOld, SpawnWorker, Install, TimerIdle, TimerAsk, TimerGivesUp,
           Report, WorkerDrain, WorkerCheck, WorkerSolve, PumpWake, PumpDrain, PumpProbe,
           PumpTake, PumpCancel, PumpJoin
  <2>2. drive' = exec.goal /\ exec.goal = slot
    BY <2>1 DEF IInv, ExecutorSound, TimerGot, Publish
  <2>3. QED
    BY <2>2 DEF IInv, TypeOK, ExecutorSound, PumpsSound, Waiting
<1>2. QED
  BY NodeInvariant, <1>1, PTL DEF Spec, DriveOnlyCurrent

\* A patient client's sweep is never cut short, and the result it gets is the
\* verdict of its own worker.
THEOREM PatientGetOwnVerdict == Spec => []OwnVerdict
<1>1. IInv => OwnVerdict
  BY DEF IInv, TypeOK, PumpsSound, OneAtATime, OwnVerdict, Running
<1>2. QED
  BY NodeInvariant, <1>1, PTL
=============================================================================
