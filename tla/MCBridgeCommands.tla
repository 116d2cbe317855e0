---- MODULE MCBridgeCommands ----
(* BridgeCommands on a small instance.  Commands and replicas are alike. *)
EXTENDS BridgeCommands, TLC
CONSTANTS c1, c2, r1, r2
MCCommands == {c1, c2}
MCReplicas == {r1, r2}
Symmetry == Permutations(MCCommands) \cup Permutations(MCReplicas)
====
