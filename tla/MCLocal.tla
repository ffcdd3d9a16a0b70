------------------------------ MODULE MCLocal -------------------------------
(***************************************************************************)
(* LocalVi on the maps of MCMaps without walls and with a wall that shuts  *)
(* a free pocket off where the goal lies on its other side: a robot in a   *)
(* column or off the left or right border, scans of one or two beams.      *)
(***************************************************************************)
EXTENDS LocalVi, MCMaps

MCWalls == {{}, {<<2, 0>>, <<2, 1>>}}
MCPocketMazes == {m \in MCMazes : GridCols \ m.free \in MCWalls}

MCRobots == {<<-1, 0>>, <<1, 1>>, <<NX - 1, 1>>, <<NX + 1, 0>>}
MCScans ==
  {<<<<1, 0, 1>>>>, <<<<-1, 0, 2>>>>, <<<<1, 0, 1>>, <<1, 0, 2>>>>, <<<<0, 1, 1>>, <<1, 0, 1>>>>}
=============================================================================
