---------------------------- MODULE MCPanelData ----------------------------
(* An instance of PanelData: two replicas; one section of the file and one  *)
(* of a plugin; a theme that ships and one of the administrator's.          *)
EXTENDS PanelData, TLC
CONSTANTS r1, r2
MCReplicas == {r1, r2}
MCDeclaredBy == 1 :> "file" @@ 2 :> "metrics"
Symmetry == Permutations(Replicas)
=============================================================================
