--------------------------- MODULE MCClientModes ---------------------------
(* An instance of ClientModes for TLC. *)
EXTENDS ClientModes, TLC

Symmetry == Permutations(Account) \cup Permutations(Conn)
=============================================================================
