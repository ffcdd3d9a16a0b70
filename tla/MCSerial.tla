------------------------------ MODULE MCSerial -------------------------------
(***************************************************************************)
(* SerialVi on the maps of MCMaps.                                         *)
(***************************************************************************)
EXTENDS SerialVi, MCMaps

MCCoarse == <<4, 3, 2>>
=============================================================================
