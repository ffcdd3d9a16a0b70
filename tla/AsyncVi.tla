------------------------------ MODULE AsyncVi -------------------------------
(***************************************************************************)
(* Asynchronous value iteration: what the solvers of vi_reference promise  *)
(* to their caller.  Any state may at any time be lowered, but never below *)
(* the backup of the table at that moment; a solve may stop early, and be  *)
(* taken up again; it reports convergence only with the Reference table.   *)
(***************************************************************************)
EXTENDS ViProblem

VARIABLES
  value,  \* total_cost of every state
  result  \* "running", "stopped" (max_iter reached) or "converged"

vars == <<value, result>>

Init == value = Value0 /\ result = "running"

Lower(s) ==
  /\ result = "running"
  /\ \E c \in Values :
       /\ c < value[s]
       /\ value' = [value EXCEPT ![s] = c]
       /\ Backup(s, View(s, value)) <= c
  /\ UNCHANGED result

Stop ==
  /\ result = "running"
  /\ result' = "stopped"
  /\ UNCHANGED value

Converge ==
  /\ result = "running"
  /\ value = Reference
  /\ result' = "converged"
  /\ UNCHANGED value

Resume ==
  /\ result = "stopped"
  /\ result' = "running"
  /\ UNCHANGED value

Next == (\E s \in EvalStates : Lower(s)) \/ Stop \/ Converge \/ Resume

Spec == Init /\ [][Next]_vars
=============================================================================
