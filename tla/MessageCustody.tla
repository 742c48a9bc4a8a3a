--------------------------- MODULE MessageCustody ---------------------------
(***************************************************************************)
(* What the relay server promises about one chat message, whatever its     *)
(* connections, locks and channels do: the message is in exactly one       *)
(* place, it is handed on in one direction only, and once the server has   *)
(* put it in the offline queue only its recipient's registration, its      *)
(* expiry or the end of the server process takes it out again.             *)
(***************************************************************************)
EXTENDS Naturals

CONSTANTS MsgId, TTL, None

VARIABLES
  now,       \* the server's clock
  custody,   \* [MsgId -> where the message is]
  deadline   \* [MsgId -> the time until which a held or queued message lives]

custodyVars == <<now, custody, deadline>>

CustodyState ==
  {"unsent",    \* still with the sender
   "held",      \* taken from the sender's connection, not yet in the queue
   "queued",    \* in the offline queue of its recipient
   "inflight",  \* assigned to a connection of its recipient
   "received",  \* written to the socket of a peer that reads it
   "lost"}      \* rejected, expired, or dropped with a connection or process

CustodyTypeOK ==
  /\ now \in Nat
  /\ custody \in [MsgId -> CustodyState]
  /\ deadline \in [MsgId -> Nat \cup {None}]

CustodyInit ==
  /\ now = 0
  /\ custody = [m \in MsgId |-> "unsent"]
  /\ deadline = [m \in MsgId |-> None]

Move(S, state) == custody' = [m \in MsgId |-> IF m \in S THEN state ELSE custody[m]]

Forget(S) == deadline' = [m \in MsgId |-> IF m \in S THEN None ELSE deadline[m]]

\* The server takes a message for an offline recipient: it lives for TTL.
Hold(m) ==
  /\ custody[m] = "unsent"
  /\ Move({m}, "held")
  /\ deadline' = [deadline EXCEPT ![m] = now + TTL]
  /\ UNCHANGED now

Enqueue(m) ==
  /\ custody[m] = "held"
  /\ Move({m}, "queued")
  /\ UNCHANGED <<now, deadline>>

\* The recipient is indexed: the message goes to its channel at once, or is
\* lost with it; a message that is not the sender's own is dropped.
Forward(m) ==
  /\ custody[m] = "unsent"
  /\ \E state \in {"inflight", "lost"} : Move({m}, state)
  /\ UNCHANGED <<now, deadline>>

\* A registration takes a whole queue: what has expired is lost, the rest is
\* assigned to the connection that registered.
Flush(S) ==
  LET expired == {m \in S : deadline[m] <= now} IN
  /\ S # {}
  /\ \A m \in S : custody[m] = "queued"
  /\ custody' = [m \in MsgId |-> IF m \in expired THEN "lost"
                                 ELSE IF m \in S THEN "inflight" ELSE custody[m]]
  /\ Forget(S)
  /\ UNCHANGED now

\* A connection hands over one message, or drops those it was assigned.
Receive(m) ==
  /\ custody[m] = "inflight"
  /\ Move({m}, "received")
  /\ UNCHANGED <<now, deadline>>

Drop(S) ==
  /\ S # {}
  /\ \A m \in S : custody[m] = "inflight"
  /\ Move(S, "lost")
  /\ UNCHANGED <<now, deadline>>

\* The process ends with everything it has in memory.
Crash ==
  LET inside == {m \in MsgId : custody[m] \in {"held", "queued", "inflight"}} IN
  /\ inside # {}
  /\ Move(inside, "lost")
  /\ Forget(inside)
  /\ UNCHANGED now

Pass ==
  /\ now' = now + 1
  /\ UNCHANGED <<custody, deadline>>

CustodyNext ==
  \/ \E m \in MsgId : Hold(m) \/ Enqueue(m) \/ Forward(m) \/ Receive(m)
  \/ \E S \in SUBSET MsgId : Flush(S) \/ Drop(S)
  \/ Crash
  \/ Pass

CustodySpec == CustodyInit /\ [][CustodyNext]_custodyVars
=============================================================================
