----------------------------- MODULE MCPriority ------------------------------
(***************************************************************************)
(* PriorityVi on the maps of MCMaps.                                       *)
(***************************************************************************)
EXTENDS PriorityVi, MCMaps
=============================================================================
