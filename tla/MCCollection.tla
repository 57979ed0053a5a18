---------------------------- MODULE MCCollection ----------------------------
(* Nodes that share a patch file and a schematic; the first one has a      *)
(* patch file of its own.                                                  *)
EXTENDS Collection

MCPatchesOf ==
  [n \in Nodes |-> IF n = "n1" THEN <<"all", "node">> ELSE <<"all">>]
MCSchematicOf == [n \in Nodes |-> "schematic"]
=============================================================================
