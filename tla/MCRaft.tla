------------------------------- MODULE MCRaft -------------------------------
(* Small clusters for TLC. *)
EXTENDS Raft, TLC

Perms == Permutations(Node)
=============================================================================
