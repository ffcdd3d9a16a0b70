------------------------------ MODULE CompactVi ------------------------------
(***************************************************************************)
(* The out-of-core solver of vi_reference, frontier2d_sparse_compact.rs.   *)
(*                                                                         *)
(* The table lives in blocks of BlockRows rows.  A block is built when the *)
(* frontier first comes near it and freed when all its states, and those   *)
(* of the blocks within a halo, are final.  Values are settled band by     *)
(* band: a wave relaxes columns until nothing below the threshold t        *)
(* changes; then every column whose values are all at most t - Band is     *)
(* final, its values and policy go to the sink, and t moves on.            *)
(*                                                                         *)
(* With one thread a wave is a Gauss-Seidel scan of the frontier; with     *)
(* more, every round splits the frontier among threads that lower their    *)
(* columns in place with Relaxed atomics, and a mask of changed thetas per *)
(* column says which layers the next round has to look at.                 *)
(***************************************************************************)
EXTENDS ViTable, Sequences, FiniteSets

CONSTANTS
  Near,       \* <<d, c>>: column c is within the dilation window of d
  Scan(_, _), \* Scan(S, reverse): the columns of S as a list
  Mx, My, Mt, \* displacement: largest step in x, y and around the circle
  Open,       \* columns that are not obstacles
  NumRows,    \* rows of the map
  MaxPen,     \* largest penalty of a state
  Best(_, _), \* Best(s, f): the actions that attain Backup(s, f)
  BlockRows,  \* BLOCK_ROWS
  CoupleSafety, \* COUPLE_SAFETY
  ThreadNumbers, \* values of nthreads; 1 selects the serial wave
  MinCols,    \* MIN_COLS_PER_THREAD
  MaxIter     \* max_iter

ASSUME SizeAssumption ==
  /\ Mx \in Nat \ {0} /\ My \in Nat \ {0} /\ Mt \in Nat
  /\ NumRows \in Nat \ {0} /\ BlockRows \in Nat \ {0} /\ NT \in Nat \ {0}
  /\ MinCols \in Nat \ {0} /\ MaxIter \in Nat \ {0}
  /\ CoupleSafety \in Nat \ {0} /\ MaxPen \in Nat
  /\ ThreadNumbers \subseteq Nat \ {0}
  /\ \E n \in ThreadNumbers : \A m \in ThreadNumbers : m <= n

\* The columns are cells of the map, and the window of a column reaches at
\* most My rows up and down; every load stays inside it (displacement).
ASSUME MapAssumption ==
  /\ IsFiniteSet(Cols) /\ Open \subseteq Cols
  /\ \A c \in Cols : c[2] \in 0 .. NumRows - 1
  /\ Near \subseteq Cols \X Cols
  /\ \A p \in Near : p[1][2] <= p[2][2] + My /\ p[2][2] <= p[1][2] + My
  /\ \A s \in EvalStates : \A k \in Slots(s) :
       Nbr(s, k) \in States /\ <<Nbr(s, k)[1], s[1]>> \in Near

\* set_goal: goal states are free and cost nothing, every other state is
\* unreached; the free states that are no goals are the ones to update.
ASSUME GoalAssumption ==
  /\ MaxCost \in Nat \ {0}
  /\ Value0 \in [States -> {0, MaxCost}]
  /\ {s \in States : Value0[s] = 0} \subseteq Open \X Thetas
  /\ EvalStates = {s \in Open \X Thetas : Value0[s] = MaxCost}

ASSUME BackupAssumption ==
  \A s \in EvalStates : \A f \in [Slots(s) -> Values] : Backup(s, f) \in Values

\* enumerate() of a bitboard lists its cells.
ASSUME ScanAssumption ==
  \A S \in SUBSET Cols :
    LET q == Scan(S, FALSE) IN q \in Seq(S) /\ {q[i] : i \in DOMAIN q} = S

LowerOf(a, b) == IF a < b THEN a ELSE b
UpperOf(a, b) == IF a < b THEN b ELSE a
CeilDiv(a, b) == (a + b - 1) \div b

\* couple_margin
Band == CoupleSafety * UpperOf(Mx, My) * UpperOf(MaxPen, 1)

MaxThreads == CHOOSE n \in ThreadNumbers : \A m \in ThreadNumbers : m <= n
Workers == 0 .. MaxThreads - 1
DilateCols(F) == {c \in Cols : \E d \in F : <<d, c>> \in Near}
Seeds == {s \in States : Value0[s] < MaxCost}
SeedCols == {s[1] : s \in Seeds}

\* Rows are counted with the padding of My rows above the map.
Block(c) == (c[2] + My) \div BlockRows
LastBlock == CeilDiv(NumRows + 2 * My, BlockRows) - 1
Blocks == 0 .. LastBlock

\* ensure_window: the blocks a gather of column c can touch.
Window(c) == c[2] \div BlockRows .. LowerOf((c[2] + 2 * My) \div BlockRows, LastBlock)

HaloBlocks == CeilDiv(My, BlockRows)
Around(b) == {k \in Blocks : k >= b - HaloBlocks /\ k <= b + HaloBlocks}

\* BlockStore::new: theta layers of open columns minus seeds.
NEval(b) ==
  NT * Cardinality({c \in Open : Block(c) = b})
    - Cardinality({s \in Seeds : Block(s[1]) = b})

Circ(a, b) == LET d == (a - b + NT) % NT IN LowerOf(d, NT - d)
RotDilate(M) == {a \in Thetas : \E b \in M : Circ(a, b) <= Mt}

VARIABLES
  nthreads, \* nthreads of this solve
  value,    \* total_cost of every state; Value0 in a block not built yet
  held,     \* what a Relaxed load may return
  store,    \* of each block: "none", "built" or "freed"
  nfinal,   \* n_final of each block
  t,        \* threshold of the wave
  frontier, \* columns to relax in this round
  colMin, colMax,  \* range of the reached values of each column
  final,    \* col_final
  live,     \* reached columns that are not final
  mask,     \* thetas of each column that changed in the last round
  prev,     \* prev_cells
  first,    \* first round of the wave
  iters,
  pc,       \* "round", "relax", "serial", "wave", "evict" or "end"
  at,       \* at[w]: next entry of worker w in the frontier
  theta,    \* its theta layer
  cmask,    \* changed thetas of the columns evaluated in this round
  any,      \* serial wave: some value fell in this round
  next,     \* serial wave: columns to propagate
  sink,     \* cost and policy of finalized states
  outcome   \* "running", "converged" or "cut"

data == <<value, held>>
cols == <<colMin, colMax, final, live>>
wave == <<t, frontier, mask, prev, first, iters>>
out == <<sink, nfinal, outcome>>
scan == <<at, theta, cmask, any, next>>
vars == <<nthreads, data, store, cols, wave, out, scan, pc>>

Entry(c, a) == [cost |-> c, act |-> a]
Blank == Entry(MaxCost, {})

TypeOK ==
  /\ nthreads \in ThreadNumbers
  /\ value \in [States -> Values] /\ held \in [States -> SUBSET Values]
  /\ store \in [Blocks -> {"none", "built", "freed"}]
  /\ \A b \in Blocks : nfinal[b] \in 0 .. NEval(b)
  /\ t \in Nat /\ iters \in 0 .. MaxIter
  /\ frontier \in Seq(Cols) /\ next \subseteq Cols
  /\ colMin \in [Cols -> Values] /\ colMax \in [Cols -> Values]
  /\ final \in [Cols -> BOOLEAN] /\ live \subseteq Cols
  /\ mask \in [Cols -> SUBSET Thetas] /\ cmask \in [Cols -> SUBSET Thetas]
  /\ prev \subseteq Cols /\ first \in BOOLEAN /\ any \in BOOLEAN
  /\ pc \in {"round", "relax", "serial", "wave", "evict", "end"}
  /\ at \in [Workers -> Nat \ {0}] /\ theta \in [Workers -> 0 .. NT]
  /\ DOMAIN sink = States
  /\ outcome \in {"running", "converged", "cut"}

NoMask == [c \in Cols |-> {}]

Init ==
  /\ nthreads \in ThreadNumbers
  /\ value = Value0 /\ held = [s \in States |-> {Value0[s]}]
  /\ store = [b \in Blocks |-> "none"]
  /\ nfinal = [b \in Blocks |-> 0]
  /\ t = Band
  /\ frontier = Scan(DilateCols(SeedCols), FALSE)
  /\ colMin = [c \in Cols |-> IF c \in SeedCols THEN 0 ELSE MaxCost]
  /\ colMax = [c \in Cols |-> IF c \in SeedCols THEN 0 ELSE MaxCost]
  /\ final = [c \in Cols |-> FALSE]
  /\ live = SeedCols
  /\ mask = NoMask /\ prev = {} /\ first = TRUE
  /\ iters = 0
  /\ pc = "round"
  /\ at = [w \in Workers |-> 1] /\ theta = [w \in Workers |-> 0]
  /\ cmask = NoMask /\ any = FALSE /\ next = {}
  /\ sink = [s \in States |-> Blank]
  /\ outcome = "running"

\* ensure_block: a freed block stays freed.
Ensure(st, S) ==
  [b \in Blocks |-> IF st[b] = "none" /\ \E c \in S : b \in Window(c)
                    THEN "built" ELSE st[b]]

Entries(q) == {q[i] : i \in DOMAIN q}

\* The columns of S and around it whose values are not final, as a frontier.
Unfinished(S, fin) == Scan({c \in DilateCols(S) : ~fin[c]}, FALSE)
-----------------------------------------------------------------------------
(* A round with threads: converge_band_async.                               *)

Share ==
  LET eff == LowerOf(nthreads, UpperOf(Len(frontier) \div MinCols, 1))
  IN  UpperOf(CeilDiv(Len(frontier), eff), 1)
LastOf(w) == LowerOf((w + 1) * Share, Len(frontier))

\* Serial part 1: build the blocks, hand out the frontier in chunks.
StartRound ==
  /\ pc = "round" /\ nthreads > 1
  /\ store' = Ensure(store, Entries(frontier))
  /\ at' = [w \in Workers |-> w * Share + 1]
  /\ theta' = [w \in Workers |-> 0]
  /\ cmask' = NoMask
  /\ pc' = "relax"
  /\ UNCHANGED <<nthreads, data, cols, wave, out, any, next>>

Busy(w) == pc = "relax" /\ at[w] <= LastOf(w)
ColOf(w) == frontier[at[w]]

\* Broken: the changed thetas themselves, not what reads them.
GatherNarrow(c) ==
  IF first THEN Thetas ELSE UNION {mask[d] : d \in {e \in Cols : <<e, c>> \in Near}}

\* The theta layers of c that read something that changed in the last round.
Gather(c) ==
  IF first THEN Thetas
  ELSE RotDilate(UNION {mask[d] : d \in {e \in Cols : <<e, c>> \in Near}})

ToEval(w) ==
  /\ ~final[ColOf(w)]
  /\ theta[w] \in Gather(ColOf(w))
  /\ <<ColOf(w), theta[w]>> \in EvalStates

Loads(s) ==
  {f \in [Slots(s) -> UNION {held[Nbr(s, k)] : k \in Slots(s)}] :
     \A k \in Slots(s) : f[k] \in held[Nbr(s, k)]}

Improves(s, f) == Backup(s, f) < value[s]

\* One theta layer, with any loads the memory order allows.
RelaxLayer(w) ==
  /\ Busy(w) /\ theta[w] < NT
  /\ LET s == <<ColOf(w), theta[w]>>
     IN  \/ /\ ToEval(w)
            /\ \E f \in Loads(s) :
                 IF Improves(s, f)
                 THEN /\ value' = [value EXCEPT ![s] = Backup(s, f)]
                      /\ held' = [held EXCEPT ![s] = @ \union {Backup(s, f)}]
                      /\ cmask' = [cmask EXCEPT ![ColOf(w)] = @ \union {theta[w]}]
                 ELSE UNCHANGED <<data, cmask>>
         \/ ~ToEval(w) /\ UNCHANGED <<data, cmask>>
  /\ theta' = [theta EXCEPT ![w] = @ + 1]
  /\ UNCHANGED <<nthreads, store, cols, wave, out, at, any, next, pc>>

NextColumn(w) ==
  /\ Busy(w) /\ theta[w] = NT
  /\ at' = [at EXCEPT ![w] = @ + 1]
  /\ theta' = [theta EXCEPT ![w] = 0]
  /\ UNCHANGED <<nthreads, data, store, cols, wave, out, cmask, any, next, pc>>

\* Range of the reached values of a column in table v.
Reached(v, c) == {v[<<c, i>>] : i \in Thetas} \ {MaxCost}
MinOf(v, c) ==
  IF Reached(v, c) = {} THEN MaxCost
  ELSE CHOOSE m \in Reached(v, c) : \A n \in Reached(v, c) : m <= n
MaxOf(v, c) ==
  IF Reached(v, c) = {} THEN MaxCost
  ELSE CHOOSE m \in Reached(v, c) : \A n \in Reached(v, c) : n <= m

InBand(c) == cmask[c] # {} /\ MinOf(value, c) # MaxCost /\ MinOf(value, c) < t

\* Broken: the masks of the last round are left standing.
MaskAfterKept(moved) == [c \in Cols |-> IF c \in moved THEN cmask[c] ELSE mask[c]]
MaskAfter(moved) ==
  [c \in Cols |-> IF c \in moved THEN cmask[c] ELSE IF c \in prev THEN {} ELSE mask[c]]

\* Serial part 2, after the join: new ranges, masks and frontier, or the end
\* of the wave (which clears the masks) or of the solve.
Apply ==
  /\ pc = "relax" /\ \A w \in Workers : ~Busy(w)
  /\ held' = [s \in States |-> {value[s]}]
  /\ LET seen == {c \in Entries(frontier) : ~final[c] /\ Gather(c) # {}}
         moved == {c \in seen : InBand(c)}
         ends == iters + 1 >= MaxIter \/ moved = {}
     IN  /\ colMin' = [c \in Cols |-> IF c \in seen THEN MinOf(value, c) ELSE colMin[c]]
         /\ colMax' = [c \in Cols |-> IF c \in seen THEN MaxOf(value, c) ELSE colMax[c]]
         /\ live' = live \union {c \in seen : MinOf(value, c) # MaxCost}
         /\ iters' = iters + 1
         /\ mask' = IF ends THEN [c \in Cols |-> IF c \in moved THEN {} ELSE MaskAfter(moved)[c]]
                    ELSE MaskAfter(moved)
         /\ prev' = IF ends THEN {} ELSE moved
         /\ first' = FALSE
         /\ frontier' = IF ends THEN frontier ELSE Unfinished(moved, final)
         /\ pc' = IF iters + 1 >= MaxIter THEN "end" ELSE IF ends THEN "wave" ELSE "round"
         /\ outcome' = IF iters + 1 >= MaxIter THEN "cut" ELSE outcome
  /\ UNCHANGED <<nthreads, value, store, final, t, sink, nfinal, scan>>
-----------------------------------------------------------------------------
(* A round without threads: converge_band_serial.                           *)

StartSerial ==
  /\ pc = "round" /\ nthreads = 1
  /\ at' = [w \in Workers |-> 1]
  /\ theta' = [w \in Workers |-> 0]
  /\ any' = FALSE /\ next' = {}
  /\ pc' = "serial"
  /\ UNCHANGED <<nthreads, data, store, cols, wave, out, cmask>>

Scanning == pc = "serial" /\ at[0] <= Len(frontier)

\* relax_column: one theta layer, on the table so far.
SerialLayer ==
  /\ Scanning /\ theta[0] < NT
  /\ LET s == <<ColOf(0), theta[0]>>
         f == View(s, value)
     IN  IF ~final[ColOf(0)] /\ s \in EvalStates /\ Improves(s, f)
         THEN /\ value' = [value EXCEPT ![s] = Backup(s, f)]
              /\ held' = [held EXCEPT ![s] = {Backup(s, f)}]
              /\ any' = TRUE
         ELSE UNCHANGED <<data, any>>
  /\ store' = IF final[ColOf(0)] THEN store ELSE Ensure(store, {ColOf(0)})
  /\ theta' = [theta EXCEPT ![0] = @ + 1]
  /\ UNCHANGED <<nthreads, cols, wave, out, at, cmask, next, pc>>

PassOn(c) == MinOf(value, c) # MaxCost /\ MinOf(value, c) < t

\* The column's range; it is passed on if it lies in the band.
SerialColumn ==
  /\ Scanning /\ theta[0] = NT
  /\ at' = [at EXCEPT ![0] = @ + 1]
  /\ theta' = [theta EXCEPT ![0] = 0]
  /\ LET c == ColOf(0)
     IN  IF final[c] THEN UNCHANGED <<colMin, colMax, live, next>>
         ELSE /\ colMin' = [colMin EXCEPT ![c] = MinOf(value, c)]
              /\ colMax' = [colMax EXCEPT ![c] = MaxOf(value, c)]
              /\ live' = IF MinOf(value, c) # MaxCost THEN live \union {c} ELSE live
              /\ next' = IF PassOn(c) THEN next \union {c} ELSE next
  /\ UNCHANGED <<nthreads, data, store, final, wave, out, cmask, any, pc>>

EndSerial ==
  /\ pc = "serial" /\ at[0] > Len(frontier)
  /\ iters' = iters + 1
  /\ \/ /\ iters + 1 >= MaxIter
        /\ pc' = "end" /\ outcome' = "cut"
        /\ UNCHANGED frontier
     \/ /\ iters + 1 < MaxIter
        /\ pc' = IF any THEN "round" ELSE "wave"
        /\ frontier' = IF any THEN Unfinished(next, final) ELSE frontier
        /\ UNCHANGED outcome
  /\ UNCHANGED <<nthreads, data, store, cols, t, mask, prev, first, sink, nfinal, scan>>
-----------------------------------------------------------------------------
(* Between two waves: solve_compact_core.                                   *)

Watermark == t - Band
Settled == {c \in live : colMax[c] <= Watermark}

\* Broken: goal states count as well.
FinalCountAll(b) == NT * Cardinality({c \in Settled : Block(c) = b})

\* finalize_column counts the reached states that are updated.
FinalCount(b) ==
  Cardinality({s \in EvalStates : s[1] \in Settled /\ Block(s[1]) = b /\ value[s] # MaxCost})

\* What finalize_column writes for a state.
Written(s) ==
  IF value[s] = MaxCost THEN Blank
  ELSE Entry(value[s], IF s \in EvalStates THEN Best(s, View(s, value)) ELSE {})

Finalize ==
  /\ pc = "wave"
  /\ sink' = [s \in States |-> IF s[1] \in Settled THEN Written(s) ELSE sink[s]]
  /\ nfinal' = [b \in Blocks |-> nfinal[b] + FinalCount(b)]
  /\ final' = [c \in Cols |-> final[c] \/ c \in Settled]
  /\ store' = Ensure(store, Settled)
  /\ pc' = "evict"
  /\ UNCHANGED <<nthreads, data, colMin, colMax, live, wave, outcome, scan>>

\* block_full; the columns that this wave made final.
Full == {b \in Blocks : nfinal[b] = NEval(b)}
Touched == {c \in live : final[c]}

\* Broken: one full block of the halo is enough.
FreeableAny ==
  {b \in Blocks : Around(b) \cap Full # {} /\ \E c \in Touched : b \in Around(Block(c))}

\* Blocks near a new final column whose whole halo is full.
Freeable ==
  {b \in Full : Around(b) \subseteq Full /\ \E c \in Touched : b \in Around(Block(c))}

\* Broken: final columns stay in the list.
LiveAfterAll == live
LiveAfter == live \ Touched
Reactive == {c \in LiveAfter : colMin[c] < t + Band}

\* evict_block, the end of the solve, the next threshold.
Advance ==
  /\ pc = "evict"
  /\ store' = [b \in Blocks |-> IF b \in Freeable /\ store[b] = "built"
                                THEN "freed" ELSE store[b]]
  /\ live' = LiveAfter
  /\ \/ /\ LiveAfter = {}
        /\ pc' = "end" /\ outcome' = "converged"
        /\ UNCHANGED <<t, frontier, first>>
     \/ /\ LiveAfter # {}
        /\ t' = t + Band
        /\ frontier' = Unfinished(Reactive, final)
        /\ first' = TRUE
        /\ pc' = "round"
        /\ UNCHANGED outcome
  /\ UNCHANGED <<nthreads, data, colMin, colMax, final, mask, prev, iters, sink, nfinal, scan>>

Next ==
  \/ StartRound
  \/ \E w \in Workers : RelaxLayer(w) \/ NextColumn(w)
  \/ Apply
  \/ StartSerial \/ SerialLayer \/ SerialColumn \/ EndSerial
  \/ Finalize \/ Advance

Spec == Init /\ [][Next]_vars

\* Threads that only compute, joined at the end of the round; the rest is one
\* sequential program.
FairSpec == Spec /\ WF_vars(Next)
-----------------------------------------------------------------------------
(* Properties *)

\* A relaxation looks at the neighbours of the states it updates only: of an
\* obstacle, or of a column of goals, it reads the column itself.
Updated(c) == \E i \in Thetas : <<c, i>> \in EvalStates

\* The blocks that hold what a relaxation of column c reads.
Reads(c) ==
  IF Updated(c) THEN {r \div BlockRows : r \in c[2] .. c[2] + 2 * My} ELSE {Block(c)}

\* The columns the wave is going to relax, and those it is relaxing.
Queue == IF pc \in {"round", "relax", "serial"} THEN Entries(frontier) ELSE {}
Reading ==
  IF pc = "relax" THEN Queue
  ELSE IF Scanning /\ theta[0] > 0 THEN {ColOf(0)} ELSE {}

\* No column that is still to be relaxed or finalized needs a block that was
\* freed, and none is read before it is built: get() would panic, and the
\* pointer of AtomicCpView would be null.
NoFreedRead ==
  \A c \in live \union Queue : ~final[c] =>
    \A b \in Reads(c) : /\ store[b] # "freed"
                        /\ c \in Reading => store[b] = "built"

\* The watermark is sound: a column is final only with its exact values, and
\* the sink has them together with the policy of the exact table.
FinalExact ==
  LET ref == Reference
  IN  \A s \in EvalStates : final[s[1]] =>
        /\ value[s] = ref[s]
        /\ sink[s] = IF ref[s] = MaxCost THEN Blank
                     ELSE Entry(ref[s], Best(s, View(s, ref)))

\* A solve that reports convergence has left no state out of the sink,
\* obstacles and states that cannot reach the goal included.
ResultExact ==
  LET ref == Reference
  IN  outcome = "converged" => \A s \in States : sink[s].cost = ref[s]

\* The watermark settles a value once and for all, and the sink misses none.
SinkExact == FinalExact /\ ResultExact

\* Every wave begins with empty masks, so that nothing is carried over from a
\* wave that stopped with changes above its threshold; inside a wave the only
\* masks standing are those of prev_cells, which the next round clears.
MasksCleared ==
  /\ {c \in Cols : mask[c] # {}} \subseteq prev
  /\ first \/ pc \in {"wave", "evict", "end"} => mask = NoMask

\* A freed block is full for good, and its counter is exact.
FreedIsFull ==
  \A b \in Blocks : store[b] = "freed" =>
    /\ nfinal[b] = NEval(b)
    /\ \A s \in EvalStates : Block(s[1]) = b => final[s[1]]

\* Evicting a block never hurts: it is full, its counter is right, and no column
\* that any later step of the solve relaxes or finalizes reads it.
BlocksSafe == NoFreedRead /\ FreedIsFull

\* What keeps eviction safe.  The counters count the final states of a block
\* that were reached; a block is freed only when those of the blocks around it
\* are final, and final values stand; a column of goals is final before any
\* block is freed; the frontier stays near columns that are not final.
Counted(b) ==
  {s \in EvalStates : final[s[1]] /\ Block(s[1]) = b /\ value[s] # MaxCost}
NoneFreed == \A b \in Blocks : store[b] # "freed"

CountersExact == \A b \in Blocks : nfinal[b] = Cardinality(Counted(b))

FreedSettled ==
  \A b \in Blocks : store[b] = "freed" =>
    \A s \in EvalStates : Block(s[1]) \in Around(b) => final[s[1]] /\ value[s] # MaxCost

LiveSound ==
  \A c \in live :
    /\ Updated(c) \/ c \in SeedCols
    /\ pc # "evict" => ~final[c]

GoalsFirst ==
  \A c \in SeedCols :
    \/ Updated(c) \/ final[c]
    \/ c \in live /\ colMax[c] = 0 /\ NoneFreed /\ pc # "evict"

QueueNear ==
  \A c \in Queue :
    Updated(c) \/ NoneFreed \/ \E d \in Cols : ~final[d] /\ Updated(d) /\ <<d, c>> \in Near
NextOpen ==
  pc = "serial" => \A c \in next : ~final[c] /\ (Updated(c) \/ NoneFreed)

WindowsBuilt ==
  \A c \in Reading : ~final[c] => \A b \in Window(c) : store[b] # "none"

StepsLeft ==
  /\ t >= Band
  /\ pc # "end" => iters < MaxIter
  /\ \A s \in States \ EvalStates : value[s] = Value0[s]

IInv ==
  /\ TypeOK /\ CountersExact /\ FreedSettled /\ LiveSound /\ GoalsFirst
  /\ QueueNear /\ NextOpen /\ WindowsBuilt /\ StepsLeft

\* The scan ends: thresholds move on until every reached column is final.
EventuallyConverged == <>(outcome = "converged")
=============================================================================
