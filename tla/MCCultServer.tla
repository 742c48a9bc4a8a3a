---------------------------- MODULE MCCultServer ----------------------------
(* Instances of CultServer for TLC. *)
EXTENDS CultServer, TLC

\* generate_peer_id keeps four hex digits of a hash: keys share identifiers
\* when there are fewer identifiers than keys.
MCPeerIdOf == CHOOSE f \in [Key -> PeerId] : \A p \in PeerId : \E k \in Key : f[k] = p

\* With one identifier, users differ by name only.
Symmetry == Permutations(Conn) \cup Permutations(MsgId) \cup Permutations(Name)
=============================================================================
