--------------------------- MODULE MCChatSession ---------------------------
(* Instances of ChatSession for TLC. *)
EXTENDS ChatSession, TLC

CONSTANTS c1, c2, alice, alice2, bob, k1, k2, k3

\* Alice's program holds her accounts, Bob's the rest.
MCHome == [a \in Account |-> IF a \in {alice, alice2} THEN c1 ELSE c2]

\* Bob's program makes one connection, Alice's the others.
MCOwner == [k \in Conn |-> IF k = k2 THEN c2 ELSE c1]

\* Everybody is in the contacts of the other program.
MCContacts == [c \in Client |-> {a \in Account : MCHome[a] # c}]

\* Every program registers once; Alice's may register again.
MCOneLogin == [c \in Client |-> 1]
MCLogins == [c \in Client |-> IF c = c1 THEN 2 ELSE 1]
\* Alice's accounts are alike, and so are her connections.
MCAlike == Permutations({alice, alice2}) \cup Permutations({k1, k3})

=============================================================================
