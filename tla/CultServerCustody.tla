-------------------------- MODULE CultServerCustody --------------------------
(***************************************************************************)
(* CultServer implements MessageCustody: where a message is follows from   *)
(* the queue, the local variables of the handlers, the channels and what   *)
(* has reached the peers.                                                  *)
(***************************************************************************)
EXTENDS CultServer

\* The QueuedMessages of a box are about id.
Has(box, id) == \E i \in DOMAIN box : box[i].msg.id = id

InQueue(id) == \E a \in Address : Has(queue[a], id)

HeldAt(id, label) == \E c \in Conn : pc[c] = label /\ Has(held[c], id)

InChannel(id) ==
  \E c \in Conn : \E i \in DOMAIN rx[c] :
    rx[c][i].status = "incoming_message" /\ rx[c][i].msg.id = id

Received(id) == \E c \in Conn : \E i \in DOMAIN inbox[c] : inbox[c][i].id = id

CustodyOf(id) ==
  CASE id \notin sent                         -> "unsent"
    [] Received(id)                           -> "received"
    [] HeldAt(id, "enqueue")                  -> "held"
    [] InQueue(id)                            -> "queued"
    [] HeldAt(id, "drain") \/ InChannel(id)   -> "inflight"
    [] OTHER                                  -> "lost"

\* The expiry that the one QueuedMessage about id carries.
DeadlineOf(id) ==
  LET Expiry(box) == box[CHOOSE i \in DOMAIN box : box[i].msg.id = id].expires_at IN
  CASE CustodyOf(id) = "held"   -> Expiry(held[CHOOSE c \in Conn : Has(held[c], id)])
    [] CustodyOf(id) = "queued" -> Expiry(queue[CHOOSE a \in Address : Has(queue[a], id)])
    [] OTHER                    -> None

Custody == INSTANCE MessageCustody
  WITH custody  <- [id \in MsgId |-> CustodyOf(id)],
       deadline <- [id \in MsgId |-> DeadlineOf(id)]

\* The server keeps the custody discipline: a message moves one way only, it is
\* queued once, and it leaves the queue only for a connection that registered
\* its target, by expiry, or with the process (network.rs:77-168, queue.rs).
KeepsCustody == Custody!CustodySpec
=============================================================================
