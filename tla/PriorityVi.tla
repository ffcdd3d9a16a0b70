----------------------------- MODULE PriorityVi ------------------------------
(***************************************************************************)
(* prio_lc and prio_ls (priority.rs): the least label of a heap is popped  *)
(* and the states that can move into it are backed up.  The heap has no    *)
(* decrease-key: a state is pushed again for every drop, and an entry that *)
(* is not the state's current value is thrown away when it is popped.      *)
(* prio_ls never backs up a state that was popped once.                    *)
(***************************************************************************)
EXTENDS RawVi, Bags

CONSTANTS
  LabelSetting,  \* the variants of a run: {TRUE} for prio_ls
  MaxIters       \* values of max_iter

VARIABLES
  setting,  \* label_setting
  maxIter,  \* max_iter
  heap,     \* bag of <<label, state>>
  popped,   \* settled of prio_ls, popped of prio_lc
  todo,     \* predecessors of the popped state still to be relaxed
  pops,
  repops,
  outcome   \* "running", "converged" or "cut"

vars == <<table, maze, setting, maxIter, heap, popped, todo, pops, repops, outcome>>

\* n * max_iter
PopCap == Cardinality(GridStates) * maxIter

-----------------------------------------------------------------------------
\* to_index: the order of the heap among equal labels.
Index(s) == s[2] + NTheta * (s[1][1] + NX * s[1][2])

\* Broken: by the sources' theta instead of the one they land in.
RevThetaSource(t) ==
  {<<tr.dix, tr.diy, t>> :
     tr \in UNION {{Trans[a][t][i] : i \in DOMAIN Trans[a][t]} : a \in acts}}

\* build_rev_theta: by the theta they land in, where the states come from that
\* some transition takes there.
RevTheta(t) ==
  {e \in {<<tr.dix, tr.diy, u>> : tr \in AllTrans, u \in 0 .. NTheta - 1} :
     \E a \in acts : \E i \in DOMAIN Trans[a][e[3]] :
       LET tr == Trans[a][e[3]][i]
       IN  tr.dix = e[1] /\ tr.diy = e[2] /\ (tr.dit + NTheta) % NTheta = t}

\* The states that the loop over rev[it] looks at.
From(s, e) == <<<<s[1][1] - e[1], s[1][2] - e[2]>>, e[3]>>
Predecessors(s) == {From(s, e) : e \in RevTheta(s[2])} \intersect GridStates

\* The loop takes them in the order of the sorted entries: the one with the
\* smallest dix, that is with the largest ix, comes first.
Before(p, q) ==
  \/ p[1][1] > q[1][1]
  \/ p[1][1] = q[1][1] /\ p[1][2] > q[1][2]
  \/ p[1] = q[1] /\ p[2] < q[2]

Lower(p, q) ==
  \/ p[1] < q[1]
  \/ p[1] = q[1] /\ Index(p[2]) < Index(q[2])
\* Broken: BinaryHeap without Reverse.
IsTopMax(p) == \A q \in BagToSet(heap) : p = q \/ Lower(q, p)
IsTop(p) == \A q \in BagToSet(heap) : p = q \/ Lower(p, q)

Init ==
  /\ TableInit
  /\ setting \in LabelSetting /\ maxIter \in MaxIters
  /\ heap = SetToBag({<<value[s], s>> : s \in {q \in GridStates : value[q] < TopCost}})
  /\ popped = {} /\ todo = {}
  /\ pops = 0 /\ repops = 0
  /\ outcome = "running"

\* The while loop ends with an empty heap.
Done ==
  /\ outcome = "running" /\ todo = {} /\ heap = EmptyBag
  /\ outcome' = "converged"
  /\ UNCHANGED <<table, maze, setting, maxIter, heap, popped, todo, pops, repops>>

Stale(p) == p[1] # value[p[2]] \/ (setting /\ p[2] \in popped)

Remove(p) ==
  /\ outcome = "running" /\ todo = {}
  /\ p \in BagToSet(heap) /\ IsTop(p)
  /\ heap' = heap (-) SetToBag({p})
  /\ pops' = pops + 1
  /\ UNCHANGED <<table, maze, setting, maxIter>>

Cut(p) ==
  /\ Remove(p) /\ pops >= PopCap
  /\ outcome' = "cut"
  /\ UNCHANGED <<popped, todo, repops>>

Discard(p) ==
  /\ Remove(p) /\ pops < PopCap /\ Stale(p)
  /\ UNCHANGED <<popped, todo, repops, outcome>>

Settle(p) ==
  /\ Remove(p) /\ pops < PopCap /\ ~Stale(p)
  /\ popped' = popped \union {p[2]}
  /\ repops' = IF p[2] \in popped THEN repops + 1 ELSE repops
  /\ todo' = Predecessors(p[2])
  /\ UNCHANGED outcome

Pop == \E p \in BagToSet(heap) : Cut(p) \/ Discard(p) \/ Settle(p)

Skips(s) == (setting /\ s \in popped) \/ ~Updatable(s)

\* Broken: every backup is pushed.
PushAny(s, c) == heap (+) SetToBag({<<c, s>>})
Push(s, c) == IF c < value[s] THEN heap (+) SetToBag({<<c, s>>}) ELSE heap

\* relax_cell: value_iteration_raw, and a new label if the value fell.
Relax(s) ==
  /\ outcome = "running"
  /\ \A p \in todo \ {s} : Before(s, p)
  /\ IF Skips(s) THEN UNCHANGED <<table, heap>>
     ELSE \E best \in {BestRaw(s)} :
            /\ value' = [value EXCEPT ![s] = best[1]]
            /\ act' = [act EXCEPT ![s] = best[2]]
            /\ heap' = Push(s, best[1])
  /\ todo' = todo \ {s}
  /\ UNCHANGED <<maze, setting, maxIter, popped, pops, repops, outcome>>

Next == Pop \/ (\E s \in todo : Relax(s)) \/ Done

Spec == Init /\ [][Next]_vars

\* One sequential program.
FairSpec == Spec /\ WF_vars(Next)
-----------------------------------------------------------------------------
(* Properties *)

TypeOK ==
  /\ TableTypeOK
  /\ setting \in LabelSetting /\ maxIter \in MaxIters
  /\ IsABag(heap) /\ BagToSet(heap) \subseteq (0 .. TopCost) \X GridStates
  /\ popped \subseteq GridStates
  /\ todo \subseteq GridStates
  /\ pops \in Nat /\ repops \in Nat
  /\ outcome \in {"running", "converged", "cut"}

\* No label that counts as reached is below the exact value: settling on it can
\* make a path too long, never too short.
NeverBelow ==
  LET ref == ExactValue
  IN  \A s \in GridStates : value[s] < Reach => value[s] >= ref[s]

Targets(a, s) == {Target(s[1], tr) : tr \in Outcomes(a, s)}

\* What prio_lc relies on, and what depends on the prob of the outcomes: a cost
\* that counts as reached is a sum that did not wrap, at least one outcome has a
\* label, and no outcome has a label that does not count as reached and that a
\* relaxation would raise.
CostsSteady ==
  \A s \in GridStates, a \in acts :
    Updatable(s) /\ RawCost(a, s) < Reach =>
      /\ Weighted(value, s[1], Trans[a][s[2]]) < Word
      /\ \E t \in Targets(a, s) : value[t] < TopCost
      /\ \A t \in Targets(a, s) :
           Updatable(t) /\ value[t] >= Reach => value[t] >= BestRaw(t)[1]

\* No label that counts as reached is below what a relaxation would write.
NeverRaised ==
  \A s \in GridStates : Updatable(s) /\ value[s] < Reach => value[s] >= BestRaw(s)[1]

BackedUp(s) == <<value[s], act[s]>> = BestRaw(s)

\* prio_lc: a state that a relaxation would change is about to be relaxed, or its
\* best action can move into a state whose current label is in the heap: an
\* entry is stale only when a later one carries the news.
Covered ==
  ~setting /\ outcome = "running" =>
    \A s \in GridStates :
      Updatable(s) /\ BestRaw(s)[1] < Reach =>
        \/ BackedUp(s)
        \/ s \in todo
        \/ \E p \in BagToSet(heap) :
             p[1] = value[p[2]] /\ p[2] \in Targets(BestRaw(s)[2], s)

\* prio_lc ends with labels and actions that no relaxation changes.
FixedAtEnd ==
  ~setting /\ outcome = "converged" =>
    \A s \in GridStates :
      Updatable(s) /\ (value[s] < Reach \/ BestRaw(s)[1] < Reach) => BackedUp(s)

IInv == TypeOK /\ NeverRaised /\ Covered /\ FixedAtEnd

\* With one outcome per action, a popped label below Reach is exact: no later
\* pop can improve it (Dijkstra's invariant, the reason prio_ls may skip it),
\* and the labels are popped in ascending order.
Sure == \A a \in acts, t \in 0 .. NTheta - 1 : Len(Trans[a][t]) = 1
SettledExact ==
  Sure => LET ref == ExactValue
          IN  /\ \A s \in popped : value[s] < Reach => value[s] = ref[s]
              /\ \A s \in popped : \A p \in BagToSet(heap) :
                   value[s] < Reach => p[1] >= value[s]

\* prio_lc, and prio_ls with one outcome per action, ends with the exact value
\* of every state below Reach and the action the reference picks.
ParityAtEnd ==
  outcome = "converged" /\ (setting => Sure) =>
    LET ref == ExactValue
    IN  \A s \in GridStates :
          /\ ref[s] < Reach => value[s] = ref[s]
          /\ ref[s] >= Reach => value[s] >= Reach
          /\ (ref[s] < Reach /\ s[1] \in free /\ s \notin goal) => act[s] = BestRaw(s)[2]

\* The labels of both variants are right: the costs they are made of, those that
\* prio_ls never looks at again, and all of them once the heap is empty.
LabelsExact == CostsSteady /\ SettledExact /\ ParityAtEnd

\* The heap runs empty within the cap, except that one pop per state is not
\* enough: entries that are thrown away count as well.
EventuallyConverged == <>(outcome = "converged" \/ (outcome = "cut" /\ maxIter = 1))
=============================================================================
