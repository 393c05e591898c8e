---------------------------- MODULE MCProcessTree ----------------------------
(* An instance for TLC.  Addresses of nodes and of states are alike. *)
EXTENDS ProcessTree, TLC

Alike == Permutations(Node) \cup Permutations(State)

=============================================================================
