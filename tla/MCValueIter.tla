---------------------------- MODULE MCValueIter -----------------------------
(***************************************************************************)
(* ValueIter on the maps of MCMaps: single workers on two sizes of map,    *)
(* and two racing threads on a small one.                                  *)
(***************************************************************************)
EXTENDS ValueIter, MCMaps

MCFewMazes ==
  {m \in MCMazes :
     m.free \in {GridCols, GridCols \ {<<1, 0>>}, (0 .. NX - 2) \X (0 .. NY - 1)}}
MCSetups ==
  {[threads |-> 1, workers |-> {0, 4, 5}, times |-> {1, 2}, calls |-> 3,
    sizes |-> {<<NX, NY>>, <<NX - 1, NY>>}, acts |-> {2, 4, 5}],
   [threads |-> 2, workers |-> {}, times |-> {1}, calls |-> 1,
    sizes |-> {<<NX - 1, NY>>}, acts |-> {2, 4, 5}]}
=============================================================================
