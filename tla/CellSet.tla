------------------------------- MODULE CellSet -------------------------------
(***************************************************************************)
(* What the bitboards of vi_reference promise: a set of cells of a map     *)
(* with a periodic heading, box dilation, the set operations, and an       *)
(* iterator that returns every cell once, layer by layer, row by row, in   *)
(* ascending x.  The solvers are specified on such sets.                   *)
(***************************************************************************)
EXTENDS Integers

CONSTANTS
  MapX, MapY, NTheta, \* size of the map; NTheta = 1 for a 2-D board
  Reaches,  \* the reaches [x, y, t] that dilate is called with
  Operands, \* the sets that and_inplace and or_inplace are called with
  None      \* the iterator's None

Cells == (0 .. MapX - 1) \X (0 .. MapY - 1) \X (0 .. NTheta - 1)

\* c comes before d in the iteration.
Precedes(c, d) ==
  \/ c[3] < d[3]
  \/ c[3] = d[3] /\ c[2] < d[2]
  \/ c[3] = d[3] /\ c[2] = d[2] /\ c[1] < d[1]

Within(c, d, r) ==
  /\ c[1] - d[1] \in -r.x .. r.x
  /\ c[2] - d[2] \in -r.y .. r.y
  /\ \E k \in -r.t .. r.t : c[3] = (d[3] + k + NTheta) % NTheta

VARIABLES
  cells, \* the set
  busy,  \* an iterator borrows it
  todo,  \* cells the iterator has not returned yet
  last   \* what it returned last

vars == <<cells, busy, todo, last>>

Init == cells = {} /\ busy = FALSE /\ todo = {} /\ last = None

Becomes(S) == ~busy /\ cells' = S /\ UNCHANGED <<busy, todo, last>>

Change ==
  \/ \E c \in Cells : Becomes(cells \union {c})
  \/ \E r \in Reaches : Becomes({c \in Cells : \E d \in cells : Within(c, d, r)})
  \/ \E S \in Operands : Becomes(cells \intersect S)
  \/ \E S \in Operands : Becomes(cells \union S)
  \/ Becomes(Cells \ cells)

Begin == ~busy /\ busy' = TRUE /\ todo' = cells /\ last' = None /\ UNCHANGED cells

Return ==
  /\ busy
  /\ \E c \in todo :
       /\ \A d \in todo \ {c} : Precedes(c, d)
       /\ last' = c /\ todo' = todo \ {c}
  /\ UNCHANGED <<cells, busy>>

End ==
  /\ busy /\ todo = {}
  /\ busy' = FALSE /\ last' = None
  /\ UNCHANGED <<cells, todo>>

Next == Change \/ Begin \/ Return \/ End
Spec == Init /\ [][Next]_vars
=============================================================================
