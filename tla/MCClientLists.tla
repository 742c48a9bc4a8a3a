---------------------------- MODULE MCClientLists ---------------------------
(* Instances of ClientLists for TLC. *)
EXTENDS ClientLists

Symmetry == Permutations(Peer)
=============================================================================
