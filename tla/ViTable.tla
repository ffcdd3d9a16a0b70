------------------------------ MODULE ViTable -------------------------------
(***************************************************************************)
(* What every exact solver of vi_reference is given.  A column is a map    *)
(* cell (ix,iy); a state is <<column, theta>>.  A solver gets the table    *)
(* that set_goal leaves (Value0) and lowers the values of EvalStates by    *)
(* the Bellman backup until nothing changes.  The backup is a parameter:   *)
(* GridMdp defines it for a concrete map and action list.                  *)
(***************************************************************************)
EXTENDS Naturals

CONSTANTS
  Cols,         \* map columns (ix,iy)
  NT,           \* number of theta layers
  EvalStates,   \* states that are free and not final: the ones updated
  Slots(_),     \* Slots(s): the neighbour loads of one evaluation of s
  Nbr(_, _),    \* Nbr(s, k): the state that load k of s reads
  Backup(_, _), \* Backup(s, f): min over actions of the cost given loads f
  MaxCost,      \* MAX_COST, the value of a state no path has reached
  Value0,       \* the table set_goal leaves
  Reference     \* the table the deterministic solver converges to

Thetas == 0 .. NT - 1
States == Cols \X Thetas
Values == 0 .. MaxCost

\* The table v as the loads of s see it when nothing else is written.
View(s, v) == [k \in Slots(s) |-> v[Nbr(s, k)]]
=============================================================================
