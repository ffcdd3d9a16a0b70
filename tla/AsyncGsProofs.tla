--------------------------- MODULE AsyncGsProofs ----------------------------
(***************************************************************************)
(* Theorems about AsyncGs for every map, action list, number of threads,   *)
(* block size, max_iter and number of chunks that satisfy the assumptions  *)
(* of ViProblem and AsyncGs.                                               *)
(***************************************************************************)
EXTENDS AsyncGs, TLAPS

USE ShapeAssumption, SizeAssumption DEF ShapeAssumption, SizeAssumption

-----------------------------------------------------------------------------
(* Facts about the operators. *)

\* A sequence over a set is a sequence over every larger set.
LEMMA SeqSubset ==
  ASSUME NEW S, NEW T, S \subseteq T, NEW q \in Seq(S)
  PROVE  q \in Seq(T)
OBVIOUS

\* The dilation of any set of columns, and the seed of a table, are columns.
LEMMA FrontierColumns ==
  /\ \A F : Dilate(F) \in SUBSET Cols
  /\ \A v : SeedFrontier(v) \in SUBSET Cols
BY DEF Dilate, SeedFrontier

\* A candidate list holds each column of its set exactly once.
LEMMA ScanFacts ==
  ASSUME NEW F, NEW rev \in BOOLEAN
  PROVE  LET q == Scan(Dilate(F), rev)
         IN  /\ q \in Seq(Cols)
             /\ \A c \in Dilate(F) : \E i \in 1 .. Len(q) : q[i] = c
             /\ \A i, j \in DOMAIN q : q[i] = q[j] => i = j
<1> DEFINE S == Dilate(F)
           q == Scan(S, rev)
<1>1. S \in SUBSET Cols
  BY FrontierColumns
<1>2. IsScan(q, S)
  BY <1>1, ScanAssumption DEF ScanAssumption
<1>3. q \in Seq(Cols)
  BY <1>1, <1>2, SeqSubset DEF IsScan
<1> HIDE DEF S, q
<1>4. DOMAIN q = 1 .. Len(q)
  BY <1>3
<1>5. /\ \A c \in S : \E i \in 1 .. Len(q) : q[i] = c
      /\ \A i, j \in DOMAIN q : q[i] = q[j] => i = j
  BY <1>2, <1>4 DEF IsScan
<1>6. QED
  BY <1>3, <1>5 DEF S, q

\* What a state's loads return are values, one of those held by each state
\* it reads.
LEMMA ViewsFacts ==
  ASSUME TypeOK, NEW s \in EvalStates, NEW f \in Views(s)
  PROVE  /\ f \in [Slots(s) -> Values]
         /\ \A k \in Slots(s) : f[k] \in held[Nbr(s, k)]
         /\ Backup(s, f) \in Values
<1>1. \A k \in Slots(s) : f[k] \in held[Nbr(s, k)]
  BY DEF Views
<1>2. \A k \in Slots(s) : held[Nbr(s, k)] \subseteq Values
  BY DEF TypeOK
<1>3. f \in [Slots(s) -> UNION {held[Nbr(s, k)] : k \in Slots(s)}]
  BY DEF Views
<1>4. f \in [Slots(s) -> Values]
  BY <1>1, <1>2, <1>3
<1>5. QED
  BY <1>1, <1>4, BackupAssumption DEF BackupAssumption

-----------------------------------------------------------------------------
(* Control: types, phases and claims. *)

CtlInv == TypeOK /\ PhaseInv /\ ClaimInv

\* The engine is entered with every worker at the start and no claims.
LEMMA CtlInit == Init => CtlInv
<1> SUFFICES ASSUME Init PROVE CtlInv
  OBVIOUS
<1>1. /\ cand \in Seq(Cols)
      /\ \A i, j \in DOMAIN cand : cand[i] = cand[j] => i = j
  BY ScanFacts DEF Init
<1>2. TypeOK
  <2>1. /\ value \in [States -> Values]
        /\ held \in [States -> SUBSET Values]
    BY Value0Assumption DEF Value0Assumption, Init
  <2>2. cursor \in Nat /\ solves \in Nat /\ round \in 0 .. MaxIter
    BY DEF Init
  <2>5. done \in BOOLEAN /\ converged \in BOOLEAN
    BY DEF Init
  <2>3. /\ pc \in [Threads -> Phases]
        /\ at \in [Threads -> Nat] /\ lim \in [Threads -> Nat]
        /\ theta \in [Threads -> 0 .. NT]
        /\ moved \in [Threads -> BOOLEAN]
        /\ changed \in [Threads -> SUBSET Cols]
    BY DEF Init, Phases
  <2>4. QED
    BY <1>1, <2>1, <2>2, <2>3, <2>5 DEF TypeOK
<1>3. PhaseInv
  BY DEF Init, PhaseInv, InCompute
<1>4. ClaimInv
  BY <1>1 DEF Init, ClaimInv, Computing
<1>5. QED
  BY <1>2, <1>3, <1>4 DEF CtlInv

\* A worker that is at a column is inside the candidate list.
LEMMA ColumnFacts ==
  ASSUME CtlInv, NEW w \in Threads, Computing(w)
  PROVE  /\ at[w] \in DOMAIN cand /\ at[w] \in Nat /\ lim[w] \in Nat
         /\ Len(cand) \in Nat
         /\ Col(w) \in Cols
         /\ theta[w] < NT => Evaluating(w) \in States
BY DEF CtlInv, TypeOK, ClaimInv, Computing, Col, Evaluating, States, Thetas

\* No step of a worker, a barrier, the leader or the caller breaks the
\* types, the phases or the claims.
LEMMA CtlStep == CtlInv /\ [Next]_vars => CtlInv'
<1> SUFFICES ASSUME CtlInv, [Next]_vars PROVE CtlInv'
  OBVIOUS
<1> USE DEF CtlInv
<1>1. ASSUME NEW w \in Threads, Start(w) PROVE CtlInv'
  <2>1. TypeOK'
    BY <1>1 DEF Start, TypeOK, Phases, shared
  <2>2. PhaseInv'
    BY <1>1 DEF Start, PhaseInv, InCompute, AllAt, shared, TypeOK
  <2>3. ClaimInv'
    BY <1>1 DEF Start, ClaimInv, Computing, shared, TypeOK
  <2> QED BY <2>1, <2>2, <2>3
<1>2. ASSUME NEW w \in Threads, Claim(w) PROVE CtlInv'
  <2>0. /\ Len(cand) \in Nat
        /\ Min2(cursor + Block, Len(cand)) \in Nat
        /\ cursor \in Nat /\ cursor' \in Nat
        /\ cursor >= Len(cand) \/ cursor < Len(cand)
    BY <1>2 DEF TypeOK, Min2, Claim, NextCursor
  <2>1. TypeOK'
    <3>1. pc' \in [Threads -> Phases]
      BY <1>2 DEF Claim, NextCursor, BlockEnd, TypeOK, Phases
    <3>2. /\ at' \in [Threads -> Nat] /\ lim' \in [Threads -> Nat]
          /\ theta' \in [Threads -> 0 .. NT]
      <4>1. CASE cursor >= Len(cand)
        BY <1>2, <2>0, <4>1 DEF Claim, NextCursor, BlockEnd, TypeOK
      <4>2. CASE cursor < Len(cand)
        <5>1. /\ at' = [at EXCEPT ![w] = cursor + 1]
              /\ lim' = [lim EXCEPT ![w] = Min2(cursor + Block, Len(cand))]
              /\ theta' = [theta EXCEPT ![w] = 0]
          BY <1>2, <2>0, <4>2 DEF Claim, NextCursor, BlockEnd
        <5> QED
          BY <2>0, <5>1 DEF TypeOK
      <4> QED BY <2>0, <4>1, <4>2
    <3>3. moved' \in [Threads -> BOOLEAN]
      BY <1>2 DEF Claim, NextCursor, BlockEnd, TypeOK
    <3> QED
      BY <1>2, <2>0, <3>1, <3>2, <3>3 DEF Claim, NextCursor, BlockEnd, TypeOK, shared
  <2>2. PhaseInv'
    BY <1>2 DEF Claim, NextCursor, BlockEnd, PhaseInv, InCompute, AllAt, shared, TypeOK
  <2>3. ClaimInv'
    <3>1. CASE cursor >= Len(cand)
      <4>1. /\ cand' = cand /\ cursor' = cursor + Block
            /\ pc' = [pc EXCEPT ![w] = "b1"]
            /\ at' = at /\ lim' = lim
        BY <1>2, <2>0, <3>1 DEF Claim, NextCursor, BlockEnd, shared
      <4>2. cursor' >= Len(cand) /\ cursor' >= cursor
        BY <2>0, <3>1, <4>1
      <4>3. \A v \in Threads : Computing(v)' => v # w /\ Computing(v)
        BY <2>0, <4>1 DEF Computing, TypeOK
      <4>4. \A v \in Threads : Computing(v) => lim[v] <= cursor'
        BY <2>0, <4>2, <3>1 DEF ClaimInv, TypeOK
      <4>5. /\ \A i, j \in DOMAIN cand' : cand'[i] = cand'[j] => i = j
            /\ \A v \in Threads : Computing(v)' =>
                 1 <= at'[v] /\ at'[v] <= lim'[v] /\ lim'[v] <= Len(cand') /\ lim'[v] <= cursor'
            /\ \A v, u \in Threads : v # u /\ Computing(v)' /\ Computing(u)' =>
                 lim'[v] < at'[u] \/ lim'[u] < at'[v]
        BY <2>0, <4>1, <4>3, <4>4 DEF ClaimInv
      <4>6. \A v \in Threads : pc'[v] \in {"b1", "lead"} => cursor' >= Len(cand')
        BY <4>1, <4>2
      <4> QED
        BY <4>5, <4>6 DEF ClaimInv
    <3>2. CASE cursor < Len(cand)
      <4>1. /\ cand' = cand /\ cursor' = cursor + Block
            /\ pc' = [pc EXCEPT ![w] = "eval"]
            /\ at' = [at EXCEPT ![w] = cursor + 1]
            /\ lim' = [lim EXCEPT ![w] = Min2(cursor + Block, Len(cand))]
        BY <1>2, <2>0, <3>2 DEF Claim, NextCursor, BlockEnd, shared, TypeOK
      <4>2. /\ cursor + 1 <= Min2(cursor + Block, Len(cand))
            /\ Min2(cursor + Block, Len(cand)) <= Len(cand)
            /\ Min2(cursor + Block, Len(cand)) <= cursor + Block
        BY <2>0, <3>2 DEF Min2, TypeOK
      <4> DEFINE m == Min2(cursor + Block, Len(cand))
      <4>3. /\ m \in Nat /\ m <= cursor' /\ cursor <= cursor'
            /\ \A v \in Threads : at[v] \in Nat /\ lim[v] \in Nat
        BY <2>0, <4>1, <4>2 DEF TypeOK
      <4>4. at'[w] = cursor + 1 /\ lim'[w] = m
        BY <4>1 DEF TypeOK
      <4>5. \A v \in Threads : v # w =>
              at'[v] = at[v] /\ lim'[v] = lim[v] /\ pc'[v] = pc[v]
        BY <4>1 DEF TypeOK
      <4>6. pc'[w] = "eval"
        BY <4>1 DEF TypeOK
      <4> HIDE DEF m
      <4>7. \A v \in Threads : Computing(v)' =>
              /\ 1 <= at'[v] /\ at'[v] <= lim'[v]
              /\ lim'[v] <= Len(cand') /\ lim'[v] <= cursor'
        <5> SUFFICES ASSUME NEW v \in Threads, Computing(v)'
                     PROVE  /\ 1 <= at'[v] /\ at'[v] <= lim'[v]
                            /\ lim'[v] <= Len(cand') /\ lim'[v] <= cursor'
          OBVIOUS
        <5>1. CASE v = w
          BY <2>0, <4>1, <4>2, <4>3, <4>4, <5>1 DEF m
        <5>2. CASE v # w
          BY <2>0, <4>1, <4>3, <4>5, <5>2 DEF ClaimInv, Computing
        <5> QED BY <5>1, <5>2
      <4>8. \A v \in Threads : v # w /\ Computing(v)' => lim'[v] < at'[w]
        BY <2>0, <4>3, <4>4, <4>5 DEF ClaimInv, Computing
      <4>9. \A v, u \in Threads : v # u /\ Computing(v)' /\ Computing(u)' =>
              lim'[v] < at'[u] \/ lim'[u] < at'[v]
        BY <4>5, <4>8 DEF ClaimInv, Computing
      <4>10. \A v \in Threads : pc'[v] \in {"b1", "lead"} => cursor' >= Len(cand')
        BY <2>0, <4>1, <4>3, <4>5, <4>6 DEF ClaimInv
      <4> QED
        BY <4>1, <4>7, <4>9, <4>10 DEF ClaimInv
    <3> QED BY <2>0, <3>1, <3>2
  <2> QED BY <2>1, <2>2, <2>3
<1>3. ASSUME NEW w \in Threads, Relax(w) PROVE CtlInv'
  <2>1. TypeOK'
    <3>1. /\ theta' \in [Threads -> 0 .. NT]
          /\ UNCHANGED <<cursor, pc, at, lim, changed, shared>>
      BY <1>3 DEF Relax, TypeOK
    <3>2. PICK before \in held[Evaluating(w)], f \in Views(Evaluating(w)) :
            LET c == Backup(Evaluating(w), f)
            IN  \/ c < before /\ Store(w, Evaluating(w), c)
                \/ c >= before /\ UNCHANGED <<value, held, moved>>
      BY <1>3 DEF Relax
    <3>3. /\ Evaluating(w) \in EvalStates
          /\ Backup(Evaluating(w), f) \in Values
      BY <1>3, ViewsFacts DEF Relax
    <3>4. /\ value' \in [States -> Values]
          /\ held' \in [States -> SUBSET Values]
          /\ moved' \in [Threads -> BOOLEAN]
      <4>1. CASE UNCHANGED <<value, held, moved>>
        BY <4>1 DEF TypeOK
      <4>2. CASE Store(w, Evaluating(w), Backup(Evaluating(w), f))
        <5>1. value' \in [States -> Values] /\ held' \in [States -> SUBSET Values]
          BY <3>3, <4>2 DEF Store, TypeOK
        <5>2. moved' \in [Threads -> BOOLEAN]
          BY <4>2 DEF Store, TypeOK
        <5> QED BY <5>1, <5>2
      <4> QED BY <3>2, <4>1, <4>2
    <3> QED BY <3>1, <3>4 DEF TypeOK, shared
  <2>2. PhaseInv'
    BY <1>3 DEF Relax, PhaseInv, InCompute, AllAt, shared, TypeOK
  <2>3. ClaimInv'
    BY <1>3 DEF Relax, ClaimInv, Computing, shared, TypeOK
  <2> QED BY <2>1, <2>2, <2>3
<1>4. ASSUME NEW w \in Threads, Skip(w) PROVE CtlInv'
  <2>1. TypeOK'
    BY <1>4 DEF Skip, TypeOK, shared
  <2>2. PhaseInv'
    BY <1>4 DEF Skip, PhaseInv, InCompute, AllAt, shared, TypeOK
  <2>3. ClaimInv'
    BY <1>4 DEF Skip, ClaimInv, Computing, shared, TypeOK
  <2> QED BY <2>1, <2>2, <2>3
<1>5. ASSUME NEW w \in Threads, EndColumn(w) PROVE CtlInv'
  <2>0. Col(w) \in Cols
    BY <1>5, ColumnFacts DEF EndColumn, Computing
  <2>1. TypeOK'
    BY <1>5, <2>0 DEF EndColumn, TypeOK, Phases, shared
  <2>2. PhaseInv'
    BY <1>5 DEF EndColumn, PhaseInv, InCompute, AllAt, shared, TypeOK
  <2>3. ClaimInv'
    BY <1>5 DEF EndColumn, ClaimInv, Computing, shared, TypeOK
  <2> QED BY <2>1, <2>2, <2>3
<1>6. CASE Barrier1
  <2>1. TypeOK'
    BY <1>6 DEF Barrier1, TypeOK, Phases, shared
  <2>2. PhaseInv'
    BY <1>6 DEF Barrier1, PhaseInv, InCompute, AllAt, shared, TypeOK
  <2>3. ClaimInv'
    BY <1>6 DEF Barrier1, ClaimInv, Computing, shared, TypeOK
  <2> QED BY <2>1, <2>2, <2>3
<1>7. CASE Lead
  <2>1. \A rev \in BOOLEAN :
          LET q == Scan(Dilate(NewFrontier), rev)
          IN  q \in Seq(Cols) /\ \A i, j \in DOMAIN q : q[i] = q[j] => i = j
    BY ScanFacts
  <2>2. /\ cand' \in Seq(Cols)
        /\ \A i, j \in DOMAIN cand' : cand'[i] = cand'[j] => i = j
    BY <1>7, <2>1 DEF Lead, Continue, TypeOK, ClaimInv
  <2>3. TypeOK'
    <3>1. round \in 0 .. MaxIter /\ round' = round + 1
      BY <1>7 DEF Lead, Continue, TypeOK
    <3>2. round' \in 0 .. MaxIter
      BY <1>7, <3>1 DEF Lead, Continue, PhaseInv, AllAt, InCompute
    <3>3. QED
      <4>1. cursor' \in Nat /\ pc' \in [Threads -> Phases]
        BY <1>7 DEF Lead, Continue, TypeOK, Phases
      <4>2. done' \in BOOLEAN /\ converged' \in BOOLEAN
        BY <1>7 DEF Lead, Continue, TypeOK
      <4> QED
        BY <1>7, <2>2, <3>2, <4>1, <4>2 DEF Lead, Continue, TypeOK
  <2>4. PhaseInv'
    BY <1>7 DEF Lead, Continue, PhaseInv, InCompute, AllAt, TypeOK
  <2>5. ClaimInv'
    BY <1>7, <2>2, <2>4 DEF Lead, Continue, ClaimInv, Computing, PhaseInv, AllAt, InCompute, TypeOK
  <2> QED BY <2>3, <2>4, <2>5
<1>8. CASE Barrier2
  <2>1. TypeOK'
    BY <1>8 DEF Barrier2, TypeOK, Phases, shared
  <2>2. PhaseInv'
    BY <1>8 DEF Barrier2, PhaseInv, InCompute, AllAt, shared, TypeOK
  <2>3. ClaimInv'
    BY <1>8 DEF Barrier2, ClaimInv, Computing, shared, TypeOK
  <2> QED BY <2>1, <2>2, <2>3
<1>9. CASE NextChunk
  <2>1. /\ cand' \in Seq(Cols)
        /\ \A i, j \in DOMAIN cand' : cand'[i] = cand'[j] => i = j
    BY <1>9, ScanFacts DEF NextChunk
  <2>2. TypeOK'
    <3>1. /\ changed' \in [Threads -> SUBSET Cols]
          /\ pc' \in [Threads -> Phases]
      BY <1>9 DEF NextChunk, TypeOK, Phases
    <3>2. solves' \in Nat /\ round' \in 0 .. MaxIter /\ cursor' \in Nat
      BY <1>9 DEF NextChunk, TypeOK
    <3>3. done' \in BOOLEAN
      BY <1>9 DEF NextChunk
    <3>4. QED
      BY <1>9, <2>1, <3>1, <3>2, <3>3 DEF NextChunk, TypeOK
  <2>3. PhaseInv'
    BY <1>9 DEF NextChunk, PhaseInv, InCompute, TypeOK
  <2>4. ClaimInv'
    BY <1>9, <2>1 DEF NextChunk, ClaimInv, Computing, TypeOK
  <2> QED BY <2>2, <2>3, <2>4
<1>10. CASE UNCHANGED vars
  BY <1>10 DEF vars, TypeOK, PhaseInv, InCompute, AllAt, ClaimInv, Computing
<1>11. QED
  BY <1>1, <1>2, <1>3, <1>4, <1>5, <1>6, <1>7, <1>8, <1>9, <1>10
     DEF Next, Worker

\* Types, phases and claims hold throughout a run.
LEMMA Control == Spec => []CtlInv
<1>1. CtlInv /\ [Next]_vars => CtlInv'
  BY CtlStep
<1>2. QED
  BY CtlInit, <1>1, PTL DEF Spec

-----------------------------------------------------------------------------
(* Data: what the workers' steps do to the schedule and to the table. *)

DataInv ==
  /\ HeldInv /\ ValueInv /\ AboveReference
  /\ NoLostUpdate /\ ConvergedIsFixedPoint

\* A step that leaves the table alone and loses neither a scheduled state nor
\* a dirty column keeps the data invariant.
LEMMA TableUnchanged ==
  ASSUME DataInv,
         value' = value, held' = held,
         done' = done, converged' = converged,
         InCompute => InCompute',
         Dirty' = Dirty,
         \A s \in States : Scheduled(s)' => Scheduled(s),
         \A s \in EvalStates : Scheduled(s) => Scheduled(s)'
  PROVE  DataInv'
<1>1. HeldInv'
  BY DEF DataInv, HeldInv
<1>2. ValueInv' /\ AboveReference' /\ ConvergedIsFixedPoint'
  BY DEF DataInv, ValueInv, AboveReference, ConvergedIsFixedPoint, View
<1>3. NoLostUpdate'
  BY DEF DataInv, NoLostUpdate, Consistent, View
<1>4. QED
  BY <1>1, <1>2, <1>3 DEF DataInv

\* A dirty column is in a worker's changed list or under its hands.
LEMMA DirtyFacts ==
  \A c : c \in Dirty <=>
    \/ \E v \in Threads : Reporting(v) /\ c \in changed[v]
    \/ \E v \in Threads : Computing(v) /\ moved[v] /\ c = Col(v)
<1> TAKE c
<1> DEFINE A == {v \in Threads : Reporting(v)}
           B == {v \in Threads : Computing(v) /\ moved[v]}
<1>1. c \in UNION {changed[v] : v \in A} <=> \E v \in A : c \in changed[v]
  OBVIOUS
<1>2. c \in {Col(v) : v \in B} <=> \E v \in B : c = Col(v)
  OBVIOUS
<1>3. QED
  BY <1>1, <1>2 DEF Dirty

\* DirtyFacts in the state after a step.
LEMMA DirtyFactsNext ==
  (\A c : c \in Dirty <=>
    \/ \E v \in Threads : Reporting(v) /\ c \in changed[v]
    \/ \E v \in Threads : Computing(v) /\ moved[v] /\ c = Col(v))'
BY DirtyFacts, PTL

\* A worker that is computing is not past a barrier, and neither is another.
LEMMA ComputePhase ==
  ASSUME CtlInv, NEW w \in Threads, pc[w] \in {"start", "claim", "eval", "b1"}
  PROVE  InCompute /\ ~done /\ pc[Leader] # "lead"
BY DEF CtlInv, PhaseInv, AllAt, InCompute

\* Emptying the changed list of a worker loses nothing: what it reported has
\* become the candidates.
LEMMA StartData ==
  ASSUME CtlInv, DataInv, NEW w \in Threads, Start(w)
  PROVE  DataInv'
<1>1. /\ pc' = [pc EXCEPT ![w] = "claim"]
      /\ changed' = [changed EXCEPT ![w] = {}]
      /\ pc[w] = "start"
      /\ UNCHANGED <<value, held, cand, cursor, at, lim, theta, moved, done, converged>>
  BY DEF Start, shared
<1>2. InCompute /\ pc[Leader] # "lead"
  BY <1>1, ComputePhase
<1>3. InCompute' /\ pc'[Leader] # "lead"
  BY <1>1, <1>2 DEF InCompute, CtlInv, TypeOK
<1>4. \A v \in Threads : Computing(v)' <=> Computing(v)
  BY <1>1 DEF Computing, CtlInv, TypeOK
<1>5. \A v \in Threads : v # w =>
        (Reporting(v)' <=> Reporting(v)) /\ changed'[v] = changed[v]
  BY <1>1, <1>2, <1>3 DEF Reporting, CtlInv, TypeOK
<1>6. ~Reporting(w) /\ changed'[w] = {}
  BY <1>1 DEF Reporting, CtlInv, TypeOK
<1>7. Dirty' = Dirty
  <2>1. UNION {changed'[v] : v \in {u \in Threads : Reporting(u)'}} =
        UNION {changed[v] : v \in {u \in Threads : Reporting(u)}}
    BY <1>5, <1>6
  <2>2. {Col(v)' : v \in {u \in Threads : Computing(u)' /\ moved'[u]}} =
        {Col(v) : v \in {u \in Threads : Computing(u) /\ moved[u]}}
    BY <1>1, <1>4 DEF Col
  <2>3. QED
    BY <2>1, <2>2 DEF Dirty
<1>8. \A s \in States : Scheduled(s)' <=> Scheduled(s)
  BY <1>1, <1>4 DEF Scheduled, Unclaimed, Col
<1>9. QED
  BY <1>1, <1>3, <1>7, <1>8, TableUnchanged

\* Passing over an obstacle or final layer leaves every claim as it was.
LEMMA SkipData ==
  ASSUME CtlInv, DataInv, NEW w \in Threads, Skip(w)
  PROVE  DataInv'
<1>1. /\ pc' = pc /\ pc[w] = "eval"
      /\ theta' = [theta EXCEPT ![w] = @ + 1]
      /\ Evaluating(w) \notin EvalStates
      /\ UNCHANGED <<value, held, cand, cursor, at, lim, moved, changed, done, converged>>
  BY DEF Skip, shared
<1>2. InCompute'
  BY <1>1, ComputePhase DEF InCompute
<1>3. Dirty' = Dirty
  BY <1>1 DEF Dirty, Reporting, Computing, Col
<1>4. theta[w] \in Nat /\ theta'[w] = theta[w] + 1
      /\ \A v \in Threads : v # w => theta'[v] = theta[v]
  BY <1>1 DEF CtlInv, TypeOK
<1>5. \A v \in Threads : (Computing(v)' <=> Computing(v)) /\ Col(v)' = Col(v)
  BY <1>1 DEF Computing, Col
<1>6. ASSUME NEW s \in States, Scheduled(s)'
      PROVE  Scheduled(s)
  <2>1. s[2] \in Nat
    BY DEF States, Thetas
  <2>2. QED
    BY <1>1, <1>4, <1>5, <1>6, <2>1 DEF Scheduled, Unclaimed
<1>7. ASSUME NEW s \in EvalStates, Scheduled(s)
      PROVE  Scheduled(s)'
  <2>1. s[2] \in Nat /\ s = <<s[1], s[2]>>
    BY DEF States, Thetas
  <2>2. ~(s[1] = Col(w) /\ s[2] = theta[w])
    BY <1>1, <2>1 DEF Evaluating
  <2>3. QED
    BY <1>1, <1>4, <1>5, <1>7, <2>1, <2>2 DEF Scheduled, Unclaimed
<1>8. QED
  BY <1>1, <1>2, <1>3, <1>6, <1>7, TableUnchanged

\* A claim moves columns from the cursor to a worker: they stay scheduled.
LEMMA ClaimData ==
  ASSUME CtlInv, DataInv, NEW w \in Threads, Claim(w)
  PROVE  DataInv'
<1>1. /\ pc[w] = "claim" /\ cursor' = cursor + Block
      /\ UNCHANGED <<value, held, cand, changed, done, converged>>
  BY DEF Claim, NextCursor, BlockEnd, shared
<1>2. InCompute /\ pc[Leader] # "lead"
  BY <1>1, ComputePhase
<1>3. /\ cursor \in Nat /\ Len(cand) \in Nat /\ cursor' \in Nat
      /\ cursor >= Len(cand) \/ cursor < Len(cand)
  BY <1>1 DEF CtlInv, TypeOK
<1>4. InCompute' /\ pc'[Leader] # "lead"
  BY <1>2 DEF Claim, NextCursor, BlockEnd, InCompute, CtlInv, TypeOK
<1>5. \A v \in Threads : v # w =>
        /\ pc'[v] = pc[v] /\ at'[v] = at[v] /\ lim'[v] = lim[v]
        /\ theta'[v] = theta[v] /\ moved'[v] = moved[v]
  BY DEF Claim, NextCursor, BlockEnd, CtlInv, TypeOK
<1>6. \A v \in Threads : v # w =>
        (Computing(v)' <=> Computing(v)) /\ Col(v)' = Col(v)
  BY <1>1, <1>5 DEF Computing, Col
<1>7. ~Computing(w) /\ (Computing(w)' => ~moved'[w])
  BY DEF Claim, NextCursor, BlockEnd, Computing, CtlInv, TypeOK
<1>8. Dirty' = Dirty
  <2>1. \A v \in Threads : Reporting(v)' <=> Reporting(v)
    <3>1. pc'[w] \in {"eval", "b1"}
      BY DEF Claim, NextCursor, BlockEnd, CtlInv, TypeOK
    <3>2. QED
      BY <1>1, <1>2, <1>4, <1>5, <3>1 DEF Reporting
  <2>2. {v \in Threads : Computing(v)' /\ moved'[v]} =
        {v \in Threads : Computing(v) /\ moved[v]}
    BY <1>5, <1>6, <1>7
  <2>3. {Col(v)' : v \in {u \in Threads : Computing(u)' /\ moved'[u]}} =
        {Col(v) : v \in {u \in Threads : Computing(u) /\ moved[u]}}
    BY <2>2, <1>6, <1>7
  <2>4. QED
    BY <1>1, <2>1, <2>3 DEF Dirty
<1>9. ASSUME NEW s \in States
      PROVE  Scheduled(s)' <=> Scheduled(s)
  <2>1. CASE cursor >= Len(cand)
    <3>1. ~Computing(w)'
      BY <2>1, <1>3 DEF Claim, NextCursor, BlockEnd, Computing, CtlInv, TypeOK
    <3>2. Unclaimed = {} /\ Unclaimed' = {}
      BY <1>1, <1>3, <2>1 DEF Unclaimed, SizeAssumption
    <3>3. QED
      BY <1>1, <1>5, <1>6, <1>7, <3>1, <3>2 DEF Scheduled
  <2>2. CASE cursor < Len(cand)
    <3> DEFINE m == Min2(cursor + Block, Len(cand))
    <3>1. Computing(w)' /\ at'[w] = cursor + 1 /\ lim'[w] = m /\ theta'[w] = 0
      BY <2>2, <1>3 DEF Claim, NextCursor, BlockEnd, Computing, CtlInv, TypeOK
    <3>2. m \in Nat /\ cursor + 1 <= m /\ m <= Len(cand) /\ m <= cursor'
          /\ (m = cursor' \/ m = Len(cand))
      BY <1>1, <1>3, <2>2 DEF Min2, SizeAssumption
    <3> HIDE DEF m
    <3>3. Col(w)' = cand[cursor + 1]
      BY <1>1, <3>1 DEF Col
    <3>4. s[2] >= theta'[w]
      BY <3>1 DEF States, Thetas
    <3>5. s[1] \in Unclaimed <=>
            \/ s[1] \in Unclaimed'
            \/ s[1] \in {cand'[i] : i \in at'[w] + 1 .. lim'[w]}
            \/ s[1] = Col(w)'
      <4>1. \A i \in Nat : i \in cursor + 1 .. Len(cand) <=>
              \/ i \in cursor' + 1 .. Len(cand)
              \/ i \in cursor + 2 .. m
              \/ i = cursor + 1
        <5> SUFFICES ASSUME NEW i \in Nat
                     PROVE  i \in cursor + 1 .. Len(cand) <=>
                              \/ i \in cursor' + 1 .. Len(cand)
                              \/ i \in cursor + 2 .. m
                              \/ i = cursor + 1
          OBVIOUS
        <5> DEFINE n == Len(cand)
                   d == cursor'
        <5>1. n \in Nat /\ d \in Nat /\ cursor \in Nat /\ m \in Nat
              /\ cursor + 1 <= m /\ m <= n /\ m <= d /\ (m = d \/ m = n)
          BY <1>3, <3>2
        <5> HIDE DEF n, d
        <5>2. i \in cursor + 1 .. n <=>
                i \in d + 1 .. n \/ i \in cursor + 2 .. m \/ i = cursor + 1
          BY <5>1
        <5> QED BY <5>2 DEF n, d
      <4>2. cand' = cand /\ at'[w] + 1 = cursor + 2
        BY <1>1, <1>3, <3>1
      <4>3. /\ s[1] \in Unclaimed <=>
                 \E i \in Nat : i \in cursor + 1 .. Len(cand) /\ s[1] = cand[i]
            /\ s[1] \in Unclaimed' <=>
                 \E i \in Nat : i \in cursor' + 1 .. Len(cand) /\ s[1] = cand[i]
        <5>1. \A a, b \in Nat : \A i \in a + 1 .. b : i \in Nat
          OBVIOUS
        <5>2. cursor \in Nat /\ cursor' \in Nat /\ Len(cand) \in Nat /\ cand' = cand
          BY <1>1, <1>3, SizeAssumption
        <5>3. Unclaimed = {cand[i] : i \in cursor + 1 .. Len(cand)}
              /\ Unclaimed' = {cand[i] : i \in cursor' + 1 .. Len(cand)}
          BY <5>2 DEF Unclaimed
        <5> QED BY <5>1, <5>2, <5>3
      <4>4. s[1] \in {cand'[i] : i \in at'[w] + 1 .. lim'[w]} <=>
              \E i \in Nat : i \in cursor + 2 .. m /\ s[1] = cand[i]
        BY <1>3, <3>1, <3>2, <4>2
      <4>5. \A i \in Nat : i \in cursor' + 1 .. Len(cand) \/ i \in cursor + 2 .. m
              \/ i = cursor + 1 => i \in cursor + 1 .. Len(cand)
        BY <4>1
      <4>6. cursor + 1 \in Nat
        BY <1>3
      <4> DEFINE P == s[1] \in Unclaimed
                 Q == s[1] \in Unclaimed'
                 R == s[1] \in {cand'[i] : i \in at'[w] + 1 .. lim'[w]}
      <4>7. ASSUME P PROVE Q \/ R \/ s[1] = Col(w)'
        <5>1. PICK i \in Nat : i \in cursor + 1 .. Len(cand) /\ s[1] = cand[i]
          BY <4>3, <4>7
        <5> QED
          BY <3>3, <4>1, <4>3, <4>4, <5>1
      <4>8. ASSUME Q PROVE P
        BY <4>3, <4>5, <4>8
      <4>9. ASSUME R PROVE P
        BY <4>3, <4>4, <4>5, <4>9
      <4>10. ASSUME s[1] = Col(w)' PROVE P
        BY <3>3, <4>3, <4>5, <4>6, <4>10
      <4>11. QED
        BY <4>7, <4>8, <4>9, <4>10
    <3>6. QED
      BY <1>1, <1>5, <1>6, <1>7, <3>1, <3>4, <3>5 DEF Scheduled
  <2>3. QED
    BY <1>3, <2>1, <2>2
<1>10. QED
  BY <1>1, <1>4, <1>8, <1>9, TableUnchanged

\* At its end a lowered column goes from the worker's hands to its list.
LEMMA EndColumnData ==
  ASSUME CtlInv, DataInv, NEW w \in Threads, EndColumn(w)
  PROVE  DataInv'
<1>1. /\ Computing(w) /\ theta[w] = NT
      /\ UNCHANGED <<value, held, cand, cursor, lim, done, converged>>
      /\ pc[w] = "eval"
  BY DEF EndColumn, shared, Computing
<1>2. InCompute /\ pc[Leader] # "lead"
  BY <1>1, ComputePhase
<1>3. InCompute' /\ pc'[Leader] # "lead"
  BY <1>2 DEF EndColumn, InCompute, CtlInv, TypeOK
<1>4. \A v \in Threads : v # w =>
        /\ pc'[v] = pc[v] /\ at'[v] = at[v] /\ theta'[v] = theta[v]
        /\ moved'[v] = moved[v] /\ changed'[v] = changed[v]
  BY DEF EndColumn, CtlInv, TypeOK
<1>5. \A v \in Threads : v # w =>
        (Computing(v)' <=> Computing(v)) /\ Col(v)' = Col(v)
  BY <1>1, <1>4 DEF Computing, Col
<1>6. /\ at'[w] = at[w] + 1 /\ theta'[w] = 0 /\ ~moved'[w]
      /\ pc'[w] = IF at[w] < lim[w] THEN "eval" ELSE "claim"
      /\ changed'[w] = IF moved[w] THEN changed[w] \union {Col(w)} ELSE changed[w]
  BY <1>1 DEF EndColumn, CtlInv, TypeOK
<1>7. Dirty' = Dirty
  <2>1. \A v \in Threads : Reporting(v)' <=> Reporting(v)
    BY <1>1, <1>2, <1>3, <1>4, <1>6 DEF Reporting
  <2>2. Reporting(w)
    BY <1>1 DEF Reporting
  <2>3. \A c : c \in Dirty <=>
          \/ \E v \in Threads : Reporting(v) /\ c \in changed[v]
          \/ \E v \in Threads : Computing(v) /\ moved[v] /\ c = Col(v)
    BY DirtyFacts
  <2>4. (\A c : c \in Dirty <=>
           \/ \E v \in Threads : Reporting(v) /\ c \in changed[v]
           \/ \E v \in Threads : Computing(v) /\ moved[v] /\ c = Col(v))'
    BY DirtyFactsNext
  <2>5. \A c : c \in Dirty <=> c \in Dirty'
    BY <1>1, <1>4, <1>5, <1>6, <2>1, <2>2, <2>3, <2>4
  <2>6. QED
    BY <2>5
<1>8. ASSUME NEW s \in States
      PROVE  Scheduled(s)' <=> Scheduled(s)
  <2>1. s[2] \in Nat /\ s[2] >= 0 /\ ~(s[2] >= theta[w])
    BY <1>1 DEF States, Thetas
  <2>2. at[w] \in Nat /\ lim[w] \in Nat /\ at[w] <= lim[w]
    BY <1>1 DEF CtlInv, TypeOK, ClaimInv
  <2>3. CASE at[w] < lim[w]
    <3>1. Computing(w)' /\ Col(w)' = cand[at[w] + 1] /\ s[2] >= theta'[w]
      BY <1>1, <1>6, <2>1, <2>3 DEF Computing, Col
    <3>2. s[1] \in {cand[i] : i \in at[w] + 1 .. lim[w]} <=>
            \/ s[1] = Col(w)'
            \/ s[1] \in {cand'[i] : i \in at'[w] + 1 .. lim'[w]}
      <4>1. \A i \in Nat : i \in at[w] + 1 .. lim[w] <=>
              i = at[w] + 1 \/ i \in at[w] + 2 .. lim[w]
        BY <2>2, <2>3
      <4>2. at'[w] + 1 = at[w] + 2 /\ lim' = lim /\ cand' = cand
        BY <1>1, <1>6, <2>2
      <4>3. QED
        BY <2>2, <3>1, <4>1, <4>2
    <3>3. QED
      BY <1>1, <1>4, <1>5, <2>1, <3>1, <3>2 DEF Scheduled, Unclaimed
  <2>4. CASE ~(at[w] < lim[w])
    <3>1. ~Computing(w)' /\ {cand[i] : i \in at[w] + 1 .. lim[w]} = {}
      BY <1>6, <2>2, <2>4 DEF Computing
    <3>2. QED
      BY <1>1, <1>4, <1>5, <2>1, <3>1 DEF Scheduled, Unclaimed
  <2>5. QED
    BY <2>3, <2>4
<1>9. QED
  BY <1>1, <1>3, <1>7, <1>8, TableUnchanged

-----------------------------------------------------------------------------
(* Relax: the step that matters. *)

\* The reference table: values, its backups, and that it starts below Value0.
LEMMA ReferenceFacts ==
  /\ Reference \in [States -> Values]
  /\ \A s \in EvalStates : Reference[s] = Backup(s, View(s, Reference))
  /\ \A s \in States \ EvalStates : Reference[s] = Value0[s]
  /\ \A s \in States : Reference[s] <= Value0[s]
<1>1. PICK g \in [EvalStates -> Values] : Reference = Completed(g)
  BY ReferenceAssumption DEF ReferenceAssumption
<1>2. Value0 \in [States -> Values]
  BY Value0Assumption DEF Value0Assumption
<1>3. Reference \in [States -> Values]
  BY <1>1, <1>2 DEF Completed
<1>4. \A s \in EvalStates :
        Reference[s] <= Value0[s] /\ Reference[s] = Backup(s, View(s, Reference))
  BY ReferenceAssumption DEF ReferenceAssumption, Solves
<1>5. \A s \in States \ EvalStates : Reference[s] = Value0[s]
  BY <1>1 DEF Completed
<1>6. \A s \in States \ EvalStates : Reference[s] <= Value0[s]
  BY <1>2, <1>5 DEF Values
<1>7. QED
  BY <1>3, <1>4, <1>5, <1>6

\* A table of values seen through the loads of a state, and the backup of a
\* lower table.
LEMMA ViewFacts ==
  ASSUME NEW u \in [States -> Values], NEW s \in EvalStates
  PROVE  /\ View(s, u) \in [Slots(s) -> Values]
         /\ Backup(s, View(s, u)) \in Values
         /\ \A k \in Slots(s) : View(s, u)[k] = u[Nbr(s, k)]
<1>1. View(s, u) \in [Slots(s) -> Values]
  BY DEF View
<1>2. QED
  BY <1>1, BackupAssumption DEF BackupAssumption, View

\* The backup is monotone in the loads.
LEMMA BackupMonotone ==
  ASSUME NEW s \in EvalStates,
         NEW f \in [Slots(s) -> Values], NEW g \in [Slots(s) -> Values],
         \A k \in Slots(s) : f[k] <= g[k]
  PROVE  Backup(s, f) <= Backup(s, g)
BY BackupAssumption DEF BackupAssumption

\* The state under evaluation was still to come, and is not any more; nothing
\* else leaves the schedule.
LEMMA RelaxSchedule ==
  ASSUME CtlInv, NEW w \in Threads, Relax(w), NEW e \in States, e = Evaluating(w)
  PROVE  /\ Scheduled(e) /\ ~Scheduled(e)'
         /\ \A s \in States : Scheduled(s)' => Scheduled(s)
         /\ \A s \in States : s # e /\ Scheduled(s) => Scheduled(s)'
<1>1. /\ pc' = pc /\ Computing(w)
      /\ UNCHANGED <<cand, cursor, at, lim>>
  BY DEF Relax, shared, Computing
<1>2. /\ theta[w] \in Nat /\ theta'[w] = theta[w] + 1
      /\ \A v \in Threads : v # w => theta'[v] = theta[v]
  BY DEF Relax, CtlInv, TypeOK
<1>3. \A v \in Threads : (Computing(v)' <=> Computing(v)) /\ Col(v)' = Col(v)
  BY <1>1 DEF Computing, Col
<1>4. e[1] = Col(w) /\ e[2] = theta[w]
  BY DEF Evaluating
<1>5. Scheduled(e)
  BY <1>1, <1>2, <1>4 DEF Scheduled
<1>6. ASSUME NEW s \in States, Scheduled(s)'
      PROVE  Scheduled(s)
  <2>1. s[2] \in Nat
    BY DEF States, Thetas
  <2>2. QED
    BY <1>1, <1>2, <1>3, <1>6, <2>1 DEF Scheduled, Unclaimed
<1>7. ASSUME NEW s \in States, s # e, Scheduled(s)
      PROVE  Scheduled(s)'
  <2>1. s[2] \in Nat /\ s = <<s[1], s[2]>>
    BY DEF States, Thetas
  <2>2. ~(s[1] = Col(w) /\ s[2] = theta[w])
    BY <1>7, <2>1 DEF Evaluating
  <2>3. QED
    BY <1>1, <1>2, <1>3, <1>7, <2>1, <2>2 DEF Scheduled, Unclaimed
<1>8. ~Scheduled(e)'
  <2>1. /\ at[w] \in DOMAIN cand /\ at[w] \in Nat /\ lim[w] \in Nat
        /\ Len(cand) \in Nat /\ cursor \in Nat
        /\ 1 <= at[w] /\ at[w] <= lim[w] /\ lim[w] <= cursor /\ lim[w] <= Len(cand)
        /\ DOMAIN cand = 1 .. Len(cand)
    BY <1>1, ColumnFacts DEF CtlInv, ClaimInv, TypeOK
  <2>2. \A i \in DOMAIN cand : cand[i] = Col(w) => i = at[w]
    BY <2>1 DEF Col, CtlInv, ClaimInv
  <2>3. Col(w) \notin Unclaimed'
    BY <1>1, <2>1, <2>2 DEF Unclaimed
  <2>4. ASSUME NEW v \in Threads, Computing(v)
        PROVE  Col(w) \notin {cand[i] : i \in at[v] + 1 .. lim[v]}
    <3>1. /\ at[v] \in Nat /\ lim[v] \in Nat /\ 1 <= at[v] /\ lim[v] <= Len(cand)
          /\ v # w => lim[v] < at[w] \/ lim[w] < at[v]
      BY <1>1, <2>4 DEF CtlInv, ClaimInv, TypeOK
    <3>2. QED
      BY <2>1, <2>2, <3>1
  <2>5. ASSUME NEW v \in Threads, Computing(v), v # w
        PROVE  Col(w) # Col(v)
    <3>1. /\ at[v] \in DOMAIN cand /\ at[v] \in Nat /\ lim[v] \in Nat
          /\ at[v] <= lim[v]
          /\ lim[v] < at[w] \/ lim[w] < at[v]
      BY <1>1, <2>5, ColumnFacts DEF CtlInv, ClaimInv
    <3>2. QED
      BY <2>1, <2>2, <3>1 DEF Col
  <2>6. ~(e[2] >= theta'[w])
    BY <1>2, <1>4
  <2>7. ASSUME NEW v \in Threads, Computing(v)'
        PROVE  /\ Col(w) \notin {cand'[i] : i \in at'[v] + 1 .. lim'[v]}
               /\ ~(Col(w) = Col(v)' /\ e[2] >= theta'[v])
    BY <1>1, <1>3, <2>4, <2>5, <2>6, <2>7
  <2>8. QED
    BY <1>4, <2>3, <2>7 DEF Scheduled
<1>9. QED
  BY <1>5, <1>6, <1>7, <1>8

\* What an evaluation of e computes: never below the backup of the table nor
\* below the reference, and exactly the backup when no stale value is in reach.
LEMMA EvaluationFacts ==
  ASSUME CtlInv, HeldInv, AboveReference, NEW e \in EvalStates, NEW f \in Views(e)
  PROVE  /\ Backup(e, f) \in Values
         /\ Backup(e, View(e, value)) <= Backup(e, f)
         /\ Reference[e] <= Backup(e, f)
         /\ (\A k \in Slots(e) : Nbr(e, k)[1] \notin Dirty) =>
              Backup(e, f) = Backup(e, View(e, value))
<1>1. /\ value \in [States -> Values]
      /\ f \in [Slots(e) -> Values]
      /\ Backup(e, f) \in Values
      /\ \A k \in Slots(e) : f[k] \in held[Nbr(e, k)]
  BY ViewsFacts DEF CtlInv, TypeOK
<1>2. /\ View(e, value) \in [Slots(e) -> Values]
      /\ \A k \in Slots(e) : View(e, value)[k] = value[Nbr(e, k)]
  BY <1>1, ViewFacts
<1>3. /\ View(e, Reference) \in [Slots(e) -> Values]
      /\ \A k \in Slots(e) : View(e, Reference)[k] = Reference[Nbr(e, k)]
      /\ Reference[e] = Backup(e, View(e, Reference))
  BY ReferenceFacts, ViewFacts
<1>4. \A k \in Slots(e) : value[Nbr(e, k)] <= f[k]
  BY <1>1 DEF HeldInv
<1>5. Backup(e, View(e, value)) <= Backup(e, f)
  BY <1>1, <1>2, <1>4, BackupMonotone
<1>6. \A k \in Slots(e) : Reference[Nbr(e, k)] <= f[k]
  <2> SUFFICES ASSUME NEW k \in Slots(e) PROVE Reference[Nbr(e, k)] <= f[k]
    OBVIOUS
  <2>1. /\ Nbr(e, k) \in States
        /\ Reference[Nbr(e, k)] <= value[Nbr(e, k)] /\ value[Nbr(e, k)] <= f[k]
    BY <1>4 DEF AboveReference
  <2>2. /\ Reference[Nbr(e, k)] \in Nat /\ value[Nbr(e, k)] \in Nat /\ f[k] \in Nat
    BY <1>1, <2>1, ReferenceFacts DEF Values
  <2>3. QED
    BY <2>1, <2>2
<1>7. Reference[e] <= Backup(e, f)
  BY <1>1, <1>3, <1>6, BackupMonotone
<1>8. ASSUME \A k \in Slots(e) : Nbr(e, k)[1] \notin Dirty
      PROVE  Backup(e, f) = Backup(e, View(e, value))
  <2>1. \A k \in Slots(e) : f[k] = value[Nbr(e, k)]
    BY <1>1, <1>8 DEF HeldInv
  <2>2. f = View(e, value)
    BY <1>1, <1>2, <2>1
  <2>3. QED
    BY <2>2
<1>9. QED
  BY <1>1, <1>5, <1>7, <1>8

\* A lower value of e leaves the backups of the states that do not read it
\* as they were, and raises none.
LEMMA LowerFacts ==
  ASSUME CtlInv, NEW e \in States, NEW c \in Values, c <= value[e],
         value' = [value EXCEPT ![e] = c], NEW s \in EvalStates
  PROVE  /\ Backup(s, View(s, value')) \in Values
         /\ Backup(s, View(s, value)) \in Values
         /\ Backup(s, View(s, value')) <= Backup(s, View(s, value))
         /\ (\A k \in Slots(s) : Nbr(s, k) # e) =>
              View(s, value') = View(s, value)
<1>1. value \in [States -> Values] /\ value' \in [States -> Values]
  BY DEF CtlInv, TypeOK
<1>2. \A x \in States : value'[x] <= value[x] /\ (x # e => value'[x] = value[x])
  BY <1>1 DEF Values
<1>3. \A k \in Slots(s) : View(s, value')[k] <= View(s, value)[k]
  <2>1. \A k \in Slots(s) : Nbr(s, k) \in States
    OBVIOUS
  <2>2. \A k \in Slots(s) : value'[Nbr(s, k)] <= value[Nbr(s, k)]
    BY <1>2, <2>1
  <2>3. QED
    BY <2>2 DEF View
<1>4. Backup(s, View(s, value')) <= Backup(s, View(s, value))
  BY <1>1, <1>3, ViewFacts, BackupMonotone
<1>5. ASSUME \A k \in Slots(s) : Nbr(s, k) # e
      PROVE  View(s, value') = View(s, value)
  BY <1>2, <1>5 DEF View
<1>6. QED
  BY <1>1, <1>4, <1>5, ViewFacts

\* One evaluation, with any loads the memory order allows, keeps the data
\* invariant.
LEMMA RelaxData ==
  ASSUME CtlInv, DataInv, NEW w \in Threads, Relax(w)
  PROVE  DataInv'
<1>1. PICK e \in EvalStates : e = Evaluating(w)
  BY DEF Relax
<1>2. PICK before \in held[e], f \in Views(e) :
        \/ Backup(e, f) < before /\ Store(w, e, Backup(e, f))
        \/ Backup(e, f) >= before /\ UNCHANGED <<value, held, moved>>
  BY <1>1 DEF Relax
<1> DEFINE new == Backup(e, f)
<1>3. /\ pc' = pc /\ Computing(w) /\ pc[w] = "eval"
      /\ UNCHANGED <<cand, cursor, at, lim, changed, done, converged>>
  BY DEF Relax, shared, Computing
<1>4. InCompute /\ InCompute' /\ ~done /\ ~converged
  BY <1>3, ComputePhase DEF InCompute, CtlInv, PhaseInv
<1>5. /\ Scheduled(e) /\ ~Scheduled(e)'
      /\ \A s \in States : Scheduled(s)' => Scheduled(s)
      /\ \A s \in States : s # e /\ Scheduled(s) => Scheduled(s)'
  BY <1>1, RelaxSchedule
<1>6. held[e] = {value[e]} /\ before = value[e]
  BY <1>2, <1>5 DEF DataInv, HeldInv
<1>7. /\ new \in Values
      /\ Backup(e, View(e, value)) <= new
      /\ Reference[e] <= new
      /\ (\A k \in Slots(e) : Nbr(e, k)[1] \notin Dirty) =>
           new = Backup(e, View(e, value))
  BY EvaluationFacts DEF DataInv
<1>8. value \in [States -> Values] /\ e \in States
  BY DEF CtlInv, TypeOK
<1>9. e[1] = Col(w)
  BY <1>1 DEF Evaluating
<1> HIDE DEF new
<1>10. CASE new >= value[e] /\ UNCHANGED <<value, held, moved>>
  <2>1. Dirty' = Dirty
    BY <1>3, <1>10 DEF Dirty, Reporting, Computing, Col
  <2>2. HeldInv'
    BY <1>4, <1>5, <1>10, <2>1 DEF DataInv, HeldInv
  <2>3. ValueInv' /\ AboveReference' /\ ConvergedIsFixedPoint'
    BY <1>3, <1>10 DEF DataInv, ValueInv, AboveReference, ConvergedIsFixedPoint, View
  <2>4. ASSUME \A k \in Slots(e) : Nbr(e, k)[1] \notin Dirty
        PROVE  Consistent(e)
    BY <1>7, <1>8, <1>10, <2>4 DEF Consistent, Values
  <2>5. \A s \in EvalStates : Consistent(s)' <=> Consistent(s)
    BY <1>10 DEF Consistent, View
  <2>6. NoLostUpdate'
    BY <1>4, <1>5, <2>1, <2>4, <2>5 DEF DataInv, NoLostUpdate
  <2>7. QED
    BY <2>2, <2>3, <2>6 DEF DataInv
<1>11. CASE new < value[e] /\ Store(w, e, new)
  <2>1. /\ value' = [value EXCEPT ![e] = new]
        /\ held' = [held EXCEPT ![e] = @ \union {new}]
        /\ moved' = [moved EXCEPT ![w] = TRUE]
    BY <1>11 DEF Store
  <2>2. \A v \in Threads : /\ Computing(v)' <=> Computing(v)
                           /\ Reporting(v)' <=> Reporting(v)
                           /\ Col(v)' = Col(v)
                           /\ moved[v] => moved'[v]
    BY <1>3, <2>1 DEF Computing, Reporting, Col, CtlInv, TypeOK
  <2>3. e[1] \in Dirty' /\ \A x : x \in Dirty => x \in Dirty'
    <3>1. moved'[w]
      BY <2>1 DEF CtlInv, TypeOK
    <3>2. (\A c : c \in Dirty <=>
             \/ \E v \in Threads : Reporting(v) /\ c \in changed[v]
             \/ \E v \in Threads : Computing(v) /\ moved[v] /\ c = Col(v))'
      BY DirtyFactsNext
    <3>3. QED
      BY <1>3, <1>9, <2>2, <3>1, <3>2, DirtyFacts
  <2>4. HeldInv'
    <3> SUFFICES ASSUME NEW s \in States
                 PROVE  /\ value'[s] \in held'[s]
                        /\ \A v \in held'[s] : value'[s] <= v
                        /\ held'[s] # {value'[s]} => InCompute' /\ s[1] \in Dirty'
                        /\ Scheduled(s)' => held'[s] = {value'[s]}
      BY DEF HeldInv
    <3>1. CASE s = e
      <4>1. value'[e] = new /\ held'[e] = {value[e], new}
        BY <1>6, <1>8, <2>1 DEF CtlInv, TypeOK
      <4>2. new <= new /\ new <= value[e]
        BY <1>7, <1>8, <1>11 DEF Values
      <4>3. QED
        BY <1>4, <1>5, <2>3, <3>1, <4>1, <4>2
    <3>2. CASE s # e
      <4>1. value'[s] = value[s] /\ held'[s] = held[s]
        BY <2>1, <3>2 DEF CtlInv, TypeOK
      <4>2. QED
        BY <1>4, <1>5, <2>3, <4>1 DEF DataInv, HeldInv
    <3>3. QED
      BY <3>1, <3>2
  <2>5. value[e] \in Nat /\ new \in Nat /\ new <= value[e]
    BY <1>7, <1>8, <1>11 DEF Values
  <2>6. value'[e] = new /\ \A s \in States : s # e => value'[s] = value[s]
    BY <1>8, <2>1
  <2>7. \A s \in States : value'[s] <= value[s] /\ value'[s] \in Nat /\ value[s] \in Nat
    BY <1>7, <1>8, <2>1, <2>5 DEF Values
  <2>8. ValueInv'
    <3>1. ASSUME NEW s \in EvalStates
          PROVE  Backup(s, View(s, value')) <= value'[s]
      <4>1. /\ Backup(s, View(s, value')) \in Nat
            /\ Backup(s, View(s, value)) \in Nat
            /\ Backup(s, View(s, value')) <= Backup(s, View(s, value))
        <5>1. /\ Backup(s, View(s, value')) \in Values
              /\ Backup(s, View(s, value)) \in Values
              /\ Backup(s, View(s, value')) <= Backup(s, View(s, value))
          BY <1>7, <1>8, <2>1, <2>5, LowerFacts
        <5>2. QED
          BY <5>1 DEF Values
      <4>2. Backup(s, View(s, value)) <= value'[s]
        BY <1>7, <2>6 DEF DataInv, ValueInv
      <4>3. QED
        BY <2>7, <4>1, <4>2
    <3>2. ASSUME NEW s \in States
          PROVE  value'[s] <= Value0[s]
      <4>1. Value0[s] \in Nat /\ value[s] <= Value0[s]
        BY Value0Assumption DEF Value0Assumption, Values, DataInv, ValueInv
      <4>2. QED
        BY <2>7, <4>1
    <3>3. ASSUME NEW s \in States \ EvalStates
          PROVE  value'[s] = Value0[s]
      BY <2>6 DEF DataInv, ValueInv
    <3>4. QED
      BY <3>1, <3>2, <3>3 DEF ValueInv
  <2>9. AboveReference'
    BY <1>7, <2>6 DEF DataInv, AboveReference
  <2>10. NoLostUpdate'
    <3> SUFFICES ASSUME NEW s \in EvalStates
                 PROVE  \/ Consistent(s)'
                        \/ Scheduled(s)'
                        \/ \E k \in Slots(s) : Nbr(s, k)[1] \in Dirty'
      BY DEF NoLostUpdate
    <3>1. CASE \E k \in Slots(s) : Nbr(s, k) = e
      BY <2>3, <3>1
    <3>2. CASE \A k \in Slots(s) : Nbr(s, k) # e
      <4>1. View(s, value') = View(s, value)
        BY <1>7, <1>8, <2>1, <2>5, <3>2, LowerFacts
      <4>2. CASE s = e
        <5>1. CASE \A k \in Slots(e) : Nbr(e, k)[1] \notin Dirty
          <6>1. value'[e] = Backup(e, View(e, value'))
            BY <1>7, <2>6, <4>1, <4>2, <5>1
          <6>2. Consistent(e)'
            BY <1>8, <2>7, <6>1 DEF Consistent
          <6>3. QED
            BY <4>2, <6>2
        <5>2. QED
          BY <2>3, <4>2, <5>1
      <4>3. CASE s # e
        <5>1. s \in States
          OBVIOUS
        <5>2. Consistent(s) => Consistent(s)'
          BY <2>6, <4>1, <4>3, <5>1 DEF Consistent
        <5>3. QED
          BY <1>4, <1>5, <2>3, <4>3, <5>1, <5>2 DEF DataInv, NoLostUpdate
      <4>4. QED
        BY <4>2, <4>3
    <3>3. QED
      BY <3>1, <3>2
  <2>11. ConvergedIsFixedPoint'
    BY <1>3, <1>4 DEF ConvergedIsFixedPoint
  <2>12. QED
    BY <2>4, <2>8, <2>9, <2>10, <2>11 DEF DataInv
<1>12. QED
  BY <1>2, <1>6, <1>10, <1>11 DEF new

-----------------------------------------------------------------------------
(* The barriers and the leader. *)

\* At the first barrier the loads become exact; nothing is lost.
LEMMA Barrier1Data ==
  ASSUME CtlInv, DataInv, Barrier1
  PROVE  DataInv'
<1>1. /\ \A w \in Threads : pc[w] = "b1"
      /\ held' = [s \in States |-> {value[s]}]
      /\ pc' = [w \in Threads |-> IF w = Leader THEN "lead" ELSE "b2"]
      /\ UNCHANGED <<value, cursor, at, lim, theta, moved, changed, cand, done, converged>>
  BY DEF Barrier1, shared
<1>2. \A w \in Threads : Reporting(w) /\ Reporting(w)'
                        /\ ~Computing(w) /\ ~Computing(w)'
  BY <1>1 DEF Reporting, Computing
<1>3. Dirty' = Dirty
  <2>1. {w \in Threads : Reporting(w)} = {w \in Threads : Reporting(w)'}
    BY <1>2
  <2>2. /\ {w \in Threads : Computing(w) /\ moved[w]} = {}
        /\ {w \in Threads : Computing(w)' /\ moved'[w]} = {}
    BY <1>2
  <2>3. QED
    BY <1>1, <2>1, <2>2 DEF Dirty
<1>4. \A s \in States : Scheduled(s)' <=> Scheduled(s)
  BY <1>1, <1>2 DEF Scheduled, Unclaimed
<1>5. HeldInv'
  <2>1. \A s \in States : held'[s] = {value'[s]} /\ value'[s] <= value'[s]
    BY <1>1 DEF CtlInv, TypeOK, Values
  <2>2. QED
    BY <2>1 DEF HeldInv
<1>6. ValueInv' /\ AboveReference' /\ ConvergedIsFixedPoint'
  BY <1>1 DEF DataInv, ValueInv, AboveReference, ConvergedIsFixedPoint, View
<1>7. NoLostUpdate'
  BY <1>1, <1>3, <1>4 DEF DataInv, NoLostUpdate, Consistent, View
<1>8. QED
  BY <1>5, <1>6, <1>7 DEF DataInv

\* The second barrier changes only phases.
LEMMA Barrier2Data ==
  ASSUME CtlInv, DataInv, Barrier2
  PROVE  DataInv'
<1>1. /\ \A w \in Threads : pc[w] = "b2"
      /\ pc' = [w \in Threads |-> IF done THEN "exit" ELSE "start"]
      /\ UNCHANGED <<value, held, cursor, at, lim, theta, moved, changed, cand, done, converged>>
  BY DEF Barrier2, shared
<1>2. \A w \in Threads : ~Reporting(w) /\ ~Reporting(w)'
                        /\ ~Computing(w) /\ ~Computing(w)'
  BY <1>1 DEF Reporting, Computing
<1>3. Dirty' = Dirty
  BY <1>1, <1>2, DirtyFacts, DirtyFactsNext
<1>4. \A s \in States : Scheduled(s)' <=> Scheduled(s)
  BY <1>1, <1>2 DEF Scheduled, Unclaimed
<1>5. ~InCompute
  BY <1>1 DEF InCompute
<1>6. QED
  BY <1>1, <1>3, <1>4, <1>5, TableUnchanged

\* A new candidate list, read from its start, schedules every column it was
\* made of.
LEMMA ScanCovers ==
  ASSUME NEW F, NEW rev \in BOOLEAN, NEW q, NEW n,
         q = Scan(Dilate(F), rev), n = 0
  PROVE  \A c \in Dilate(F) : c \in {q[i] : i \in n + 1 .. Len(q)}
<1> TAKE c \in Dilate(F)
<1>1. PICK i \in 1 .. Len(q) : q[i] = c
  BY ScanFacts
<1>2. n + 1 = 1
  OBVIOUS
<1>3. QED
  BY <1>1, <1>2

\* A state reads only columns whose dilation holds it.
LEMMA WindowFacts ==
  ASSUME NEW s \in EvalStates, NEW k \in Slots(s), NEW F, Nbr(s, k)[1] \in F
  PROVE  s[1] \in Dilate(F)
BY WindowAssumption DEF WindowAssumption, Dilate, States

\* A state that the whole table would lower reads a reached column.
LEMMA SeedFacts ==
  ASSUME NEW u \in [States -> Values], NEW s \in EvalStates,
         s[1] \notin Dilate(SeedFrontier(u))
  PROVE  u[s] <= Backup(s, View(s, u))
<1>1. \A k \in Slots(s) : u[Nbr(s, k)] = MaxCost
  <2> SUFFICES ASSUME NEW k \in Slots(s), u[Nbr(s, k)] # MaxCost
               PROVE  FALSE
    OBVIOUS
  <2>1. Nbr(s, k) \in States /\ u[Nbr(s, k)] \in Values
    OBVIOUS
  <2>2. u[Nbr(s, k)] < MaxCost
    BY <2>1 DEF Values
  <2>3. /\ Nbr(s, k)[1] \in Cols /\ Nbr(s, k)[2] \in Thetas
        /\ Nbr(s, k) = <<Nbr(s, k)[1], Nbr(s, k)[2]>>
    BY <2>1 DEF States
  <2>4. Nbr(s, k)[1] \in SeedFrontier(u)
    BY <2>2, <2>3 DEF SeedFrontier
  <2>5. QED
    BY <2>4, WindowFacts
<1>2. View(s, u) = [k \in Slots(s) |-> MaxCost]
  BY <1>1 DEF View
<1>3. Backup(s, View(s, u)) = MaxCost
  BY <1>2, BackupAssumption DEF BackupAssumption
<1>4. u[s] \in Values
  OBVIOUS
<1>5. QED
  BY <1>3, <1>4 DEF Values

\* The leader's new candidates schedule every state that reads a changed
\* column, and an empty list of changes means a fixed point.
LEMMA LeadData ==
  ASSUME CtlInv, DataInv, Lead
  PROVE  DataInv'
<1>1. /\ pc[Leader] = "lead" /\ pc' = [pc EXCEPT ![Leader] = "b2"]
      /\ UNCHANGED <<value, held, at, lim, theta, moved, changed>>
  BY DEF Lead, Continue
<1>2. /\ ~done /\ ~InCompute
      /\ \A w \in Threads : pc[w] = IF w = Leader THEN "lead" ELSE "b2"
      /\ cursor >= Len(cand) /\ cursor \in Nat /\ Len(cand) \in Nat
  <2>1. ~InCompute
    BY <1>1 DEF InCompute
  <2>2. ~done /\ \A w \in Threads \ {Leader} : pc[w] = "b2"
    BY <1>1, <2>1 DEF CtlInv, PhaseInv, AllAt
  <2>3. \A w \in Threads : pc[w] = IF w = Leader THEN "lead" ELSE "b2"
    BY <1>1, <2>2
  <2>4. cursor >= Len(cand) /\ cursor \in Nat /\ Len(cand) \in Nat
    BY <1>1 DEF CtlInv, TypeOK, ClaimInv
  <2>5. QED
    BY <2>1, <2>2, <2>3, <2>4
<1>3. \A w \in Threads : pc'[w] = "b2"
  BY <1>1, <1>2 DEF CtlInv, TypeOK
<1>4. \A w \in Threads : Reporting(w) /\ ~Computing(w)
  BY <1>2 DEF Reporting, Computing
<1>5. Dirty = NewFrontier
  <2>1. \A c : c \in Dirty <=> \E v \in Threads : c \in changed[v]
    BY <1>4, DirtyFacts
  <2>2. QED
    BY <2>1 DEF NewFrontier
<1>6. \A s \in States : ~Scheduled(s) /\ held[s] = {value[s]}
  <2>1. Unclaimed = {}
    BY <1>2 DEF Unclaimed
  <2>2. \A s \in States : ~Scheduled(s)
    BY <1>4, <2>1 DEF Scheduled
  <2>3. QED
    BY <1>2, <2>2 DEF DataInv, HeldInv
<1>7. \A s \in EvalStates :
        Consistent(s) \/ \E k \in Slots(s) : Nbr(s, k)[1] \in NewFrontier
  BY <1>2, <1>5, <1>6 DEF DataInv, NoLostUpdate
<1>8. HeldInv'
  BY <1>1, <1>6 DEF DataInv, HeldInv
<1>9. ValueInv' /\ AboveReference'
  BY <1>1 DEF DataInv, ValueInv, AboveReference, View
<1>10. \A s \in EvalStates : Consistent(s)' <=> Consistent(s)
  BY <1>1 DEF Consistent, View
<1>11. CASE NewFrontier # {} /\ round + 1 < MaxIter
  <2>1. /\ cand' = Scan(Dilate(NewFrontier), (round + 1) % 2 = 1)
        /\ cursor' = 0 /\ converged' = converged /\ done' = done
    BY <1>11 DEF Lead, Continue
  <2>2. ((round + 1) % 2 = 1) \in BOOLEAN
    OBVIOUS
  <2>3. \A c \in Dilate(NewFrontier) : c \in Unclaimed'
    <3> DEFINE F == NewFrontier
               rev == (round + 1) % 2 = 1
    <3>1. rev \in BOOLEAN /\ cand' = Scan(Dilate(F), rev)
      BY <2>1, <2>2
    <3> HIDE DEF F, rev
    <3>2. \A c \in Dilate(F) : c \in {cand'[i] : i \in cursor' + 1 .. Len(cand')}
      BY <2>1, <3>1, ScanCovers
    <3>3. QED
      BY <3>2 DEF Unclaimed, F
  <2>4. NoLostUpdate'
    BY <1>7, <1>10, <2>3, WindowFacts DEF NoLostUpdate, Scheduled
  <2>5. ConvergedIsFixedPoint'
    BY <1>1, <2>1 DEF DataInv, ConvergedIsFixedPoint, View
  <2>6. QED
    BY <1>8, <1>9, <2>4, <2>5 DEF DataInv
<1>12. CASE ~(NewFrontier # {} /\ round + 1 < MaxIter)
  <2>1. done' /\ (converged' => NewFrontier = {})
    BY <1>12 DEF Lead, Continue
  <2>2. NoLostUpdate'
    BY <2>1 DEF NoLostUpdate
  <2>3. ASSUME converged', NEW s \in EvalStates
        PROVE  value[s] = Backup(s, View(s, value))
    <3>1. value[s] <= Backup(s, View(s, value))
      BY <1>7, <2>1, <2>3 DEF Consistent
    <3>2. Backup(s, View(s, value)) <= value[s]
      BY DEF DataInv, ValueInv
    <3>3. value \in [States -> Values] /\ s \in States
      BY DEF CtlInv, TypeOK
    <3>4. value[s] \in Nat /\ Backup(s, View(s, value)) \in Nat
      BY <3>3, ViewFacts DEF Values
    <3>5. QED
      BY <3>1, <3>2, <3>4
  <2>4. ConvergedIsFixedPoint'
    BY <1>1, <2>3 DEF ConvergedIsFixedPoint, View
  <2>5. QED
    BY <1>8, <1>9, <2>2, <2>4 DEF DataInv
<1>13. QED
  BY <1>11, <1>12

\* A new call of the solver schedules every state that could be lowered.
LEMMA NextChunkData ==
  ASSUME CtlInv, DataInv, NextChunk
  PROVE  DataInv'
<1>1. /\ \A w \in Threads : pc[w] = "exit"
      /\ cand' = Scan(Dilate(SeedFrontier(value)), FALSE) /\ cursor' = 0
      /\ ~converged /\ converged' = converged
      /\ UNCHANGED <<value, held>>
  BY DEF NextChunk
<1>2. \A s \in States : held[s] = {value[s]}
  BY <1>1 DEF DataInv, HeldInv, InCompute
<1>3. HeldInv'
  BY <1>1, <1>2 DEF DataInv, HeldInv
<1>4. ValueInv' /\ AboveReference' /\ ConvergedIsFixedPoint'
  BY <1>1 DEF DataInv, ValueInv, AboveReference, ConvergedIsFixedPoint, View
<1>5. \A c \in Dilate(SeedFrontier(value)) : c \in Unclaimed'
  <2>1. \A c \in Dilate(SeedFrontier(value)) :
          c \in {cand'[i] : i \in cursor' + 1 .. Len(cand')}
    <3> DEFINE F == SeedFrontier(value)
               rev == FALSE
    <3>1. cand' = Scan(Dilate(F), rev) /\ cursor' = 0 /\ rev \in BOOLEAN
      BY <1>1
    <3> HIDE DEF F, rev
    <3>2. \A c \in Dilate(F) : c \in {cand'[i] : i \in cursor' + 1 .. Len(cand')}
      BY <3>1, ScanCovers
    <3>3. QED
      BY <3>2 DEF F
  <2>2. QED
    BY <2>1 DEF Unclaimed
<1>6. value \in [States -> Values]
  BY DEF CtlInv, TypeOK
<1>7. \A s \in EvalStates : Consistent(s)' \/ s[1] \in Dilate(SeedFrontier(value))
  BY <1>1, <1>6, SeedFacts DEF Consistent, View
<1>8. NoLostUpdate'
  BY <1>5, <1>7 DEF NoLostUpdate, Scheduled
<1>9. QED
  BY <1>3, <1>4, <1>8 DEF DataInv

\* The seed's window schedules every state that the goal states lower.
LEMMA DataInit == Init => DataInv
<1> SUFFICES ASSUME Init PROVE DataInv
  OBVIOUS
<1>1. /\ value = Value0 /\ held = [s \in States |-> {Value0[s]}]
      /\ cand = Scan(Dilate(SeedFrontier(value)), FALSE) /\ cursor = 0
      /\ ~converged
  BY DEF Init
<1>2. value \in [States -> Values]
  BY <1>1, Value0Assumption DEF Value0Assumption
<1>3. HeldInv
  <2>1. \A s \in States : held[s] = {value[s]} /\ value[s] <= value[s]
    BY <1>1, <1>2 DEF Values
  <2>2. QED
    BY <2>1 DEF HeldInv
<1>4. ValueInv
  <2>1. \A s \in States : value[s] <= Value0[s]
    BY <1>1, <1>2 DEF Values
  <2>2. \A s \in EvalStates : Backup(s, View(s, value)) <= value[s]
    BY <1>1, Value0Assumption DEF Value0Assumption
  <2>3. QED
    BY <1>1, <2>1, <2>2 DEF ValueInv
<1>5. AboveReference
  BY <1>1, ReferenceFacts DEF AboveReference
<1>6. \A c \in Dilate(SeedFrontier(value)) : c \in Unclaimed
  <2>1. \A c \in Dilate(SeedFrontier(value)) :
          c \in {cand[i] : i \in cursor + 1 .. Len(cand)}
    <3> DEFINE F == SeedFrontier(value)
               rev == FALSE
    <3>1. cand = Scan(Dilate(F), rev) /\ cursor = 0 /\ rev \in BOOLEAN
      BY <1>1
    <3> HIDE DEF F, rev
    <3>2. \A c \in Dilate(F) : c \in {cand[i] : i \in cursor + 1 .. Len(cand)}
      BY <3>1, ScanCovers
    <3>3. QED
      BY <3>2 DEF F
  <2>2. QED
    BY <2>1 DEF Unclaimed
<1>7. \A s \in EvalStates : Consistent(s) \/ s[1] \in Dilate(SeedFrontier(value))
  BY <1>2, SeedFacts DEF Consistent
<1>8. NoLostUpdate
  BY <1>6, <1>7 DEF NoLostUpdate, Scheduled
<1>9. ConvergedIsFixedPoint
  BY <1>1 DEF ConvergedIsFixedPoint
<1>10. QED
  BY <1>3, <1>4, <1>5, <1>8, <1>9 DEF DataInv

\* Every step keeps the data invariant.
LEMMA DataStep == CtlInv /\ DataInv /\ [Next]_vars => DataInv'
<1> SUFFICES ASSUME CtlInv, DataInv, [Next]_vars PROVE DataInv'
  OBVIOUS
<1>1. ASSUME NEW w \in Threads, Worker(w) PROVE DataInv'
  BY <1>1, StartData, ClaimData, RelaxData, SkipData, EndColumnData DEF Worker
<1>2. CASE UNCHANGED vars
  <2>1. UNCHANGED <<value, held, done, converged>>
    BY <1>2 DEF vars
  <2>2. (InCompute => InCompute') /\ Dirty' = Dirty
    BY <1>2 DEF vars, InCompute, Dirty, Reporting, Computing, Col
  <2>3. \A s \in States : Scheduled(s)' <=> Scheduled(s)
    BY <1>2 DEF vars, Scheduled, Unclaimed, Computing, Col
  <2>4. QED
    BY <2>1, <2>2, <2>3, TableUnchanged
<1>3. QED
  BY <1>1, <1>2, Barrier1Data, LeadData, Barrier2Data, NextChunkData DEF Next

-----------------------------------------------------------------------------
(* The theorems. *)

\* Control and data invariants hold throughout a run.
LEMMA Invariant == Spec => [](CtlInv /\ DataInv)
<1>1. CtlInv /\ DataInv /\ [Next]_vars => CtlInv' /\ DataInv'
  BY CtlStep, DataStep
<1>2. QED
  BY CtlInit, DataInit, <1>1, PTL DEF Spec

\* IInv, the conjunction the runs check, is inductive as it stands.
THEOREM InductiveInvariant == Spec => []IInv
<1>1. CtlInv /\ DataInv => IInv
  BY DEF CtlInv, DataInv, IInv
<1>2. QED
  BY Invariant, <1>1, PTL

\* Every variable of the engine keeps its type; in particular no stored value
\* leaves 0 .. MAX_COST and the leader's round never passes max_iter.
THEOREM TypeCorrect == Spec => []TypeOK
<1>1. IInv => TypeOK
  BY DEF IInv
<1>2. QED
  BY InductiveInvariant, <1>1, PTL

\* The claims of the work-stealing cursor are exclusive for any number of
\* threads and any block size: no column is ever in two workers' hands.
THEOREM ExclusiveClaims == Spec => []SingleWriter
<1>1. CtlInv => SingleWriter
  <2> SUFFICES ASSUME CtlInv,
                      NEW w \in Threads, NEW v \in Threads,
                      w # v, Computing(w), Computing(v),
                      NEW i \in at[w] .. lim[w], NEW j \in at[v] .. lim[v]
               PROVE  cand[i] # cand[j]
    BY DEF SingleWriter
  <2>1. /\ at[w] \in Nat /\ lim[w] \in Nat /\ at[v] \in Nat /\ lim[v] \in Nat
        /\ Len(cand) \in Nat /\ DOMAIN cand = 1 .. Len(cand)
        /\ 1 <= at[w] /\ lim[w] <= Len(cand)
        /\ 1 <= at[v] /\ lim[v] <= Len(cand)
        /\ lim[w] < at[v] \/ lim[v] < at[w]
    BY DEF CtlInv, TypeOK, ClaimInv
  <2>2. i \in DOMAIN cand /\ j \in DOMAIN cand /\ i # j
    BY <2>1
  <2>3. QED
    BY <2>2 DEF CtlInv, ClaimInv
<1>2. QED
  BY Control, <1>1, PTL

\* No update is lost, whatever the workers read while their neighbours are
\* being written: a state that could be lowered is still scheduled, or reads
\* a column of the next frontier.
THEOREM UpdatesReachFrontier == Spec => []NoLostUpdate
<1>1. IInv => NoLostUpdate
  BY DEF IInv
<1>2. QED
  BY InductiveInvariant, <1>1, PTL

\* converged_out is raised only on a solution of the Bellman equation.
THEOREM ConvergenceSound == Spec => []ConvergedIsFixedPoint
<1>1. IInv => ConvergedIsFixedPoint
  BY DEF IInv
<1>2. QED
  BY InductiveInvariant, <1>1, PTL

\* Stale loads never take a value below the reference table.
THEOREM NeverBelowReference == Spec => []AboveReference
<1>1. IInv => AboveReference
  BY DEF IInv
<1>2. QED
  BY InductiveInvariant, <1>1, PTL

\* A converged table is a solution below Value0 and not below the greatest
\* one: it is the reference.
LEMMA ExactLemma == IInv => ExactAtConvergence
<1> SUFFICES ASSUME IInv, converged PROVE value = Reference
  BY DEF ExactAtConvergence
<1>1. value \in [States -> Values] /\ EvalStates \subseteq States
  BY DEF IInv, TypeOK
<1>2. /\ \A s \in EvalStates : value[s] = Backup(s, View(s, value))
      /\ \A s \in States : value[s] <= Value0[s]
      /\ \A s \in States \ EvalStates : value[s] = Value0[s]
      /\ \A s \in States : Reference[s] <= value[s]
  BY DEF IInv, ConvergedIsFixedPoint, ValueInv, AboveReference
<1> DEFINE g == [s \in EvalStates |-> value[s]]
<1>3. g \in [EvalStates -> Values]
  BY <1>1
<1>4. Completed(g) = value
  <2>1. \A s \in States : Completed(g)[s] = value[s]
    BY <1>2 DEF Completed
  <2>2. Completed(g) = [s \in States |-> Completed(g)[s]]
    BY DEF Completed
  <2>3. value = [s \in States |-> value[s]]
    BY <1>1
  <2>4. QED
    BY <2>1, <2>2, <2>3
<1>5. Solves(Completed(g))
  BY <1>1, <1>2, <1>4 DEF Solves
<1>6. \A s \in EvalStates : g[s] <= Reference[s]
  BY <1>3, <1>5, ReferenceAssumption DEF ReferenceAssumption
<1>7. ASSUME NEW s \in States PROVE value[s] = Reference[s]
  <2>1. CASE s \in EvalStates
    <3>1. value[s] <= Reference[s] /\ Reference[s] <= value[s]
      BY <1>2, <1>6, <2>1
    <3>2. value[s] \in Nat /\ Reference[s] \in Nat
      BY <1>1, ReferenceFacts DEF Values
    <3>3. QED
      BY <3>1, <3>2
  <2>2. CASE s \notin EvalStates
    BY <1>2, <2>2, ReferenceFacts
  <2>3. QED
    BY <2>1, <2>2
<1>8. QED
  BY <1>1, <1>7, ReferenceFacts

\* The asynchronous engine converges to exactly the table of the
\* deterministic solver: the claim of frontier2d_par_unsafe.rs, for every
\* number of threads, schedule and division into chunks.
THEOREM Exactness == Spec => []ExactAtConvergence
BY InductiveInvariant, ExactLemma, PTL

\* What a Relax does to the table: nothing, or one value falls, but not below
\* the backup of the table at that moment.
LEMMA RelaxLowers ==
  ASSUME CtlInv, DataInv, NEW w \in Threads, Relax(w)
  PROVE  \/ value' = value
         \/ \E e \in EvalStates, c \in Values :
              /\ c < value[e] /\ Backup(e, View(e, value)) <= c
              /\ value' = [value EXCEPT ![e] = c]
<1>1. PICK e \in EvalStates : e = Evaluating(w)
  BY DEF Relax
<1>2. PICK before \in held[e], f \in Views(e) :
        \/ Backup(e, f) < before /\ Store(w, e, Backup(e, f))
        \/ Backup(e, f) >= before /\ UNCHANGED <<value, held, moved>>
  BY <1>1 DEF Relax
<1>3. Scheduled(e)
  BY <1>1, RelaxSchedule
<1>4. held[e] = {value[e]} /\ before = value[e]
  BY <1>2, <1>3 DEF DataInv, HeldInv
<1>5. Backup(e, f) \in Values /\ Backup(e, View(e, value)) <= Backup(e, f)
  BY EvaluationFacts DEF DataInv
<1>6. QED
  BY <1>2, <1>4, <1>5 DEF Store

\* No step of any worker raises a value.
THEOREM ValuesOnlyDecrease == Spec => OnlyDecrease
<1>1. CtlInv /\ DataInv /\ [Next]_vars =>
        [\A s \in States : value'[s] <= value[s]]_vars
  <2> SUFFICES ASSUME CtlInv, DataInv, Next
               PROVE  \A s \in States : value'[s] <= value[s]
    OBVIOUS
  <2>1. value \in [States -> Values]
    BY DEF CtlInv, TypeOK
  <2>2. ASSUME value' = value
        PROVE  \A s \in States : value'[s] <= value[s]
    BY <2>1, <2>2 DEF Values
  <2>3. ASSUME NEW w \in Threads, Relax(w)
        PROVE  \A s \in States : value'[s] <= value[s]
    <3>1. CASE value' = value
      BY <2>2, <3>1
    <3>2. CASE \E e \in EvalStates, c \in Values :
                 c < value[e] /\ value' = [value EXCEPT ![e] = c]
      BY <2>1, <3>2 DEF Values
    <3>3. QED
      BY <2>3, <3>1, <3>2, RelaxLowers
  <2>4. ASSUME NEW w \in Threads, Worker(w)
        PROVE  value' = value \/ Relax(w)
    BY <2>4 DEF Worker, Start, Claim, Skip, EndColumn
  <2>5. CASE Barrier1 \/ Lead \/ Barrier2 \/ NextChunk
    BY <2>2, <2>5 DEF Barrier1, Lead, Barrier2, NextChunk
  <2>6. QED
    BY <2>2, <2>3, <2>4, <2>5 DEF Next
<1>2. QED
  BY Invariant, <1>1, PTL DEF Spec, OnlyDecrease

\* The candidate list changes only under the leader, between the barriers, or
\* when the caller runs the solver again: nobody is reading it.
THEOREM RebuildsAlone == Spec => RebuildAlone
<1>1. CtlInv /\ [Next]_vars =>
        [cand' # cand => \A w \in Threads : pc[w] \in {"lead", "b2", "exit"}]_vars
  <2> SUFFICES ASSUME CtlInv, Next, cand' # cand
               PROVE  \A w \in Threads : pc[w] \in {"lead", "b2", "exit"}
    OBVIOUS
  <2>1. Lead \/ NextChunk
    BY DEF Next, Worker, Start, Claim, Relax, Skip, EndColumn,
           Barrier1, Barrier2, shared
  <2>2. CASE Lead
    BY <2>2 DEF Lead, Continue, CtlInv, PhaseInv, InCompute, AllAt
  <2>3. CASE NextChunk
    BY <2>3 DEF NextChunk
  <2>4. QED
    BY <2>1, <2>2, <2>3
<1>2. QED
  BY Control, <1>1, PTL DEF Spec, RebuildAlone

\* The problem as AsyncVi names it.
LEMMA ViNames ==
  /\ Vi!States = States /\ Vi!Values = Values
  /\ \A s \in EvalStates : \A v : Vi!View(s, v) = View(s, v)
BY DEF Vi!States, States, Vi!Thetas, Thetas, Vi!Values, Values, Vi!View, View

\* The engine implements asynchronous value iteration: every store lowers one
\* state, not below its backup at that moment, and convergence is announced
\* only with the reference table.
THEOREM ImplementsVi == Spec => ImplementsAsyncVi
<1>1. Init => Vi!Init
  BY DEF Init, Vi!Init, Result
<1>2. CtlInv /\ DataInv /\ CtlInv' /\ DataInv' /\ [Next]_vars => [Vi!Next]_(Vi!vars)
  <2> SUFFICES ASSUME CtlInv, DataInv, CtlInv', DataInv', [Next]_vars
               PROVE  Vi!Next \/ (value' = value /\ Result' = Result)
    BY DEF Vi!vars
  <2>1. ASSUME NEW w \in Threads, Relax(w)
        PROVE  Vi!Next \/ (value' = value /\ Result' = Result)
    <3>1. done' = done /\ converged' = converged /\ ~done /\ ~converged
      BY <2>1, ComputePhase DEF Relax, shared, CtlInv, PhaseInv
    <3>2. Result = "running" /\ Result' = "running"
      BY <3>1 DEF Result
    <3>3. CASE value' = value
      BY <3>2, <3>3
    <3>4. CASE \E e \in EvalStates, c \in Values :
                 /\ c < value[e] /\ Backup(e, View(e, value)) <= c
                 /\ value' = [value EXCEPT ![e] = c]
      <4>1. PICK e \in EvalStates, c \in Values :
              /\ c < value[e] /\ Backup(e, View(e, value)) <= c
              /\ value' = [value EXCEPT ![e] = c]
        BY <3>4
      <4>2. Vi!Lower(e)
        BY <3>2, <4>1, ViNames DEF Vi!Lower
      <4>3. QED
        BY <4>2 DEF Vi!Next
    <3>5. QED
      BY <2>1, <3>3, <3>4, RelaxLowers
  <2>2. ASSUME NEW w \in Threads, Worker(w)
        PROVE  Relax(w) \/ (value' = value /\ Result' = Result)
    BY <2>2 DEF Worker, Start, Claim, Skip, EndColumn, shared, Result
  <2>3. CASE Barrier1 \/ Barrier2 \/ UNCHANGED vars
    BY <2>3 DEF Barrier1, Barrier2, shared, vars, Result
  <2>4. CASE Lead
    <3>1. value' = value /\ ~done /\ ~converged
      BY <2>4 DEF Lead, Continue, CtlInv, PhaseInv, InCompute, AllAt
    <3>2. converged' => value' = Reference
      <4>1. IInv'
        BY DEF CtlInv, DataInv, IInv
      <4>2. (IInv => ExactAtConvergence)'
        BY ExactLemma, PTL
      <4>3. QED
        BY <4>1, <4>2 DEF ExactAtConvergence
    <3>3. CASE converged'
      <4>1. Vi!Converge
        BY <3>1, <3>2, <3>3 DEF Vi!Converge, Result
      <4>2. QED
        BY <4>1 DEF Vi!Next
    <3>4. CASE ~converged' /\ done'
      <4>1. Vi!Stop
        BY <3>1, <3>4 DEF Vi!Stop, Result
      <4>2. QED
        BY <4>1 DEF Vi!Next
    <3>5. CASE ~converged' /\ ~done'
      BY <3>1, <3>5 DEF Result
    <3>6. QED
      BY <3>3, <3>4, <3>5
  <2>5. CASE NextChunk
    <3>1. value' = value /\ ~converged /\ ~converged' /\ ~done' /\ done
      <4>1. pc[Leader] = "exit"
        BY <2>5 DEF NextChunk
      <4>2. done
        BY <4>1 DEF CtlInv, PhaseInv, InCompute, AllAt
      <4>3. QED
        BY <2>5, <4>2 DEF NextChunk
    <3>2. Vi!Resume
      BY <3>1 DEF Vi!Resume, Result
    <3>3. QED
      BY <3>2 DEF Vi!Next
  <2>6. QED
    BY <2>1, <2>2, <2>3, <2>4, <2>5 DEF Next
<1>3. QED
  BY Invariant, <1>1, <1>2, PTL DEF Spec, ImplementsAsyncVi, Vi!Spec
=============================================================================
