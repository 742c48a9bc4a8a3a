------------------------ MODULE MCCultServerCustody ------------------------
(* Instances of CultServerCustody for TLC. *)
EXTENDS CultServerCustody, TLC

\* Every key has the same identifier.
MCPeerIdOf == CHOOSE f \in [Key -> PeerId] : \A p \in PeerId : \E k \in Key : f[k] = p

\* MessageCustody quantifies over messages and knows neither connections nor
\* names, so that permuting any of them maps its steps to its steps.
Symmetry == Permutations(Conn) \cup Permutations(Name) \cup Permutations(MsgId)
=============================================================================
