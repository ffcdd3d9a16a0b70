----------------------------- MODULE ViProblem ------------------------------
(***************************************************************************)
(* The facts about a planning problem that the solvers of vi_reference     *)
(* rely on, as assumptions about the constants of ViTable.  Every problem  *)
(* that GridMdp defines satisfies them (SparseGsProofs, GridIsViProblem).  *)
(***************************************************************************)
EXTENDS ViTable

ASSUME ShapeAssumption ==
  /\ NT \in Nat \ {0}
  /\ MaxCost \in Nat
  /\ EvalStates \subseteq States
  /\ \A s \in EvalStates : \A k \in Slots(s) : Nbr(s, k) \in States

\* The backup is a monotone function of the loads, and a state that reads
\* only unreached states stays unreached (the clamp of action_cost_pad).
ASSUME BackupAssumption ==
  \A s \in EvalStates :
    /\ \A f \in [Slots(s) -> Values] : Backup(s, f) \in Values
    /\ \A f, g \in [Slots(s) -> Values] :
         (\A k \in Slots(s) : f[k] <= g[k]) => Backup(s, f) <= Backup(s, g)
    /\ Backup(s, [k \in Slots(s) |-> MaxCost]) = MaxCost

\* No state that is updated starts below the backup of the initial table.
ASSUME Value0Assumption ==
  /\ Value0 \in [States -> Values]
  /\ \A s \in EvalStates : Backup(s, View(s, Value0)) <= Value0[s]

\* The Bellman equation, below the initial table.
Solves(v) ==
  \A s \in EvalStates : v[s] <= Value0[s] /\ v[s] = Backup(s, View(s, v))

Completed(g) == [s \in States |-> IF s \in EvalStates THEN g[s] ELSE Value0[s]]

\* Reference is its greatest solution.
ASSUME ReferenceAssumption ==
  /\ \E g \in [EvalStates -> Values] : Reference = Completed(g)
  /\ Solves(Reference)
  /\ \A g \in [EvalStates -> Values] :
       Solves(Completed(g)) => \A s \in EvalStates : g[s] <= Reference[s]
=============================================================================
