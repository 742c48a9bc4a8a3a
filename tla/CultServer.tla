----------------------------- MODULE CultServer -----------------------------
(***************************************************************************)
(* The relay server of CULT.NET (src/server): one task per WebSocket       *)
(* connection runs handle_connection, a second task per connection drains  *)
(* its channel to the socket, and all of them share three maps behind      *)
(* tokio RwLocks: the registry of users, the index of connected clients    *)
(* and the offline message queue.                                          *)
(*                                                                         *)
(* Every await on a lock is a place where other tasks may run, so a        *)
(* handler is cut there: one action per critical section, with pc[c] the   *)
(* section that handler c enters next.  The only guard that lives across   *)
(* an await is the read guard of clients in the SendMessage branch; it is  *)
(* held exactly by the handlers at "enqueue".                              *)
(***************************************************************************)
EXTENDS Naturals, Sequences

CONSTANTS
  Conn,        \* connections; each is accepted at most once
  Name,        \* user names
  Key,         \* public keys
  PeerId,      \* the four hex digits that generate_peer_id returns
  PeerIdOf,    \* generate_peer_id: different keys may share an identifier
  MsgId,       \* one identifier per chat message; each is sent at most once
  Requests,    \* the requests that clients issue in this instance
  LinksBreak,  \* whether connections may break in this instance
  OneSession,  \* hypothesis on the clients, see Claimable
  TTL,         \* lifetime of a queued message (24 hours in the code)
  MaxTime,     \* bound on the clock
  MaxChannel,  \* bound on the responses that wait when a request is read
  MaxRestarts, \* bound on the restarts of the server process
  None         \* Rust's None, and "no entry" of a HashMap

Address == Name \X PeerId

\* Mutant of FullAddress: the identifier does not depend on the key.
FullAddressByName(n, k) == <<n, CHOOSE p \in PeerId : TRUE>>

\* format!("{}#{}@cult.net", username, peer_id)
FullAddress(n, k) == <<n, PeerIdOf[k]>>

RequestKind ==
  {"register", "get_public_key", "check_status", "send_message", "disconnect"}

Message == [id : MsgId, from : Address, to : Address]

QueuedMessage == [msg : Message, expires_at : Nat]

RegistryEntry == [public_key    : Key,
                  is_online     : BOOLEAN,
                  last_seen     : Nat \cup {None},
                  trusted_peers : SUBSET Address]

ServerResponse ==
       [status : {"ok"}, full_address : Address]
  \cup [status : {"key_response"}, public_key : Key, online_status : BOOLEAN]
  \cup [status : {"message_delivered"}, msg : Message]
  \cup [status : {"incoming_message"}, msg : Message]
  \cup [status : {"status_response"}, target : Address, online : BOOLEAN,
        last_seen : Nat \cup {None}]
  \cup [status : {"error"}]

ASSUME PeerIdAssumption == PeerIdOf \in [Key -> PeerId]
ASSUME NoneAssumption ==
  /\ None \notin Conn
  /\ None \notin Address
  /\ None \notin RegistryEntry
  /\ None \notin Nat
ASSUME BoundAssumption ==
  /\ TTL \in Nat
  /\ MaxTime \in Nat
  /\ MaxChannel \in Nat
  /\ MaxRestarts \in Nat
  /\ OneSession \in BOOLEAN
  /\ LinksBreak \in BOOLEAN
  /\ Requests \subseteq RequestKind

VARIABLES
  now,                  \* Utc::now()
  restarts,             \* how often the process was restarted
  registry,             \* [Address -> RegistryEntry or None]
  clients,              \* [Address -> the connection whose tx is stored, or None]
  queue,                \* [Address -> the messages queued for it, oldest first]
  pc,                   \* [Conn -> where its handle_connection stands]
  current_user_address, \* [Conn -> the address it registered last, or None]
  arg,                  \* [Conn -> the address its request is about, or None]
  held,                 \* [Conn -> the QueuedMessages in its local variables]
  rx,                   \* [Conn -> the responses waiting in its mpsc channel]
  send_task,            \* [Conn -> state of its send task]
  link,                 \* [Conn -> whether the peer still reads the socket]
  sent,                 \* the identifiers already used by a SendMessage
  inbox                 \* [Conn -> the chat messages that reached its peer]

shared  == <<registry, clients, queue>>
handler == <<pc, current_user_address, arg, held>>
channel == <<rx, send_task, link, inbox>>
world   == <<now, restarts>>
vars    == <<world, shared, handler, channel, sent>>

Init ==
  /\ now = 0
  /\ restarts = 0
  /\ registry = [a \in Address |-> None]
  /\ clients = [a \in Address |-> None]
  /\ queue = [a \in Address |-> <<>>]
  /\ pc = [c \in Conn |-> "idle"]
  /\ current_user_address = [c \in Conn |-> None]
  /\ arg = [c \in Conn |-> None]
  /\ held = [c \in Conn |-> <<>>]
  /\ rx = [c \in Conn |-> <<>>]
  /\ send_task = [c \in Conn |-> "stopped"]
  /\ link = [c \in Conn |-> "down"]
  /\ sent = {}
  /\ inbox = [c \in Conn |-> <<>>]

-----------------------------------------------------------------------------
(* registry.rs *)

\* Mutant of RegisterUser: a registration always inserts a fresh entry.
RegisterAfresh(a, k) ==
  [registry EXCEPT ![a] = [public_key |-> k, is_online |-> TRUE,
                           last_seen |-> None, trusted_peers |-> {}]]

\* register_user: a new entry, or the old one with its key replaced.
RegisterUser(a, k) ==
  IF registry[a] = None
  THEN [registry EXCEPT ![a] = [public_key |-> k, is_online |-> TRUE,
                                last_seen |-> None, trusted_peers |-> {}]]
  ELSE [registry EXCEPT ![a].public_key = k, ![a].is_online = TRUE]

\* set_online_status(.., true) and (.., false); both ignore an unknown address.
SetOnline(a) ==
  IF registry[a] = None THEN registry ELSE [registry EXCEPT ![a].is_online = TRUE]

\* Mutant of SetOffline: the time is noted, the presence is not.
SetLastSeen(a) ==
  IF registry[a] = None THEN registry ELSE [registry EXCEPT ![a].last_seen = now]

SetOffline(a) ==
  IF registry[a] = None THEN registry
  ELSE [registry EXCEPT ![a].is_online = FALSE, ![a].last_seen = now]

\* add_trust: each side that is registered now records the other one.
Trusting(reg, a, b) ==
  IF reg[a] = None THEN reg ELSE [reg EXCEPT ![a].trusted_peers = @ \cup {b}]

AddTrust(a, b) == Trusting(Trusting(registry, a, b), b, a)

Trusts(a, b) == registry[a] # None /\ b \in registry[a].trusted_peers

\* get_status: last_seen is shown only when each side trusts the other.
StatusOf(target, requester) ==
  IF registry[target] = None
  THEN [status |-> "status_response", target |-> target,
        online |-> FALSE, last_seen |-> None]
  ELSE [status |-> "status_response", target |-> target,
        online |-> registry[target].is_online,
        last_seen |-> IF Trusts(target, requester) /\ Trusts(requester, target)
                      THEN registry[target].last_seen ELSE None]

-----------------------------------------------------------------------------
(* queue.rs *)

\* enqueue_message
Enqueued(qm) == [queue EXCEPT ![qm.msg.to] = Append(@, qm)]

\* Mutant of ValidMessages: nothing expires.
EveryMessage(a) == queue[a]

\* get_messages: what it keeps of the queue; the entry is cleared afterwards.
ValidMessages(a) ==
  LET msgs == queue[a]
      valid[n \in 0..Len(msgs)] ==
        IF n = 0 THEN <<>>
        ELSE IF msgs[n].expires_at > now THEN Append(valid[n - 1], msgs[n])
        ELSE valid[n - 1]
  IN  valid[Len(msgs)]

-----------------------------------------------------------------------------
(* The channels: tx.send fails silently once the receiving end is dropped. *)

Push(box, c, resp) ==
  IF send_task[c] = "stopped" THEN box ELSE [box EXCEPT ![c] = Append(@, resp)]

Goto(c, label) == pc' = [pc EXCEPT ![c] = label]

\* The next request that handler c reads is of this kind.
Receives(c, kind) ==
  /\ pc[c] = "receive"
  /\ kind \in Requests
  /\ Len(rx[c]) < MaxChannel

\* A writer of clients waits for the readers; only the SendMessage branch
\* keeps its read guard while it awaits another lock.
ClientsWritable == \A c \in Conn : pc[c] # "enqueue"

\* Handler c stands for address a: it registered it, or is about to.
Claims(c, a) ==
  /\ pc[c] \notin {"idle", "closed"}
  /\ \/ current_user_address[c] = a
     \/ pc[c] = "insert" /\ arg[c] = a

\* When OneSession is TRUE the clients register a connection once, and never
\* an address whose previous connection the server has not cleaned up yet.
Claimable(c, a) ==
  OneSession => /\ current_user_address[c] = None
                /\ \A d \in Conn : ~Claims(d, a)

-----------------------------------------------------------------------------
(* handle_connection *)

Accept(c) ==
  /\ pc[c] = "idle"
  /\ Goto(c, "receive")
  /\ send_task' = [send_task EXCEPT ![c] = "running"]
  /\ link' = [link EXCEPT ![c] = "up"]
  /\ UNCHANGED <<world, shared, current_user_address, arg, held, rx, inbox, sent>>

\* ClientMessage::Register, up to the end of register_user.
Register(c, n, k) ==
  LET a == FullAddress(n, k) IN
  /\ Receives(c, "register")
  /\ Claimable(c, a)
  /\ registry' = RegisterUser(a, k)
  /\ arg' = [arg EXCEPT ![c] = a]
  /\ Goto(c, "insert")
  /\ UNCHANGED <<world, clients, queue, current_user_address, held, channel, sent>>

\* Mutant of InsertClient: it does not wait for the reader that enqueues.
InsertClientUnlocked(c) ==
  /\ pc[c] = "insert"
  /\ clients' = [clients EXCEPT ![arg[c]] = c]
  /\ current_user_address' = [current_user_address EXCEPT ![c] = arg[c]]
  /\ Goto(c, "online")
  /\ UNCHANGED <<world, registry, queue, arg, held, channel, sent>>

\* clients.write().await.insert(full_address, tx)
InsertClient(c) ==
  /\ pc[c] = "insert"
  /\ ClientsWritable
  /\ clients' = [clients EXCEPT ![arg[c]] = c]
  /\ current_user_address' = [current_user_address EXCEPT ![c] = arg[c]]
  /\ Goto(c, "online")
  /\ UNCHANGED <<world, registry, queue, arg, held, channel, sent>>

\* set_online_status, then the response of the registration.
MarkOnline(c) ==
  /\ pc[c] = "online"
  /\ registry' = SetOnline(arg[c])
  /\ rx' = Push(rx, c, [status |-> "ok", full_address |-> arg[c]])
  /\ Goto(c, "flush")
  /\ UNCHANGED <<world, clients, queue, current_user_address, arg, held,
                 send_task, link, inbox, sent>>

\* Mutant of TakePending: the queue is copied and not cleared.
CopyPending(c) ==
  /\ pc[c] = "flush"
  /\ held' = [held EXCEPT ![c] = ValidMessages(arg[c])]
  /\ Goto(c, "drain")
  /\ UNCHANGED <<world, registry, clients, queue, current_user_address, arg, channel, sent>>

\* queue::get_messages takes the whole queue of the address at once ...
TakePending(c) ==
  /\ pc[c] = "flush"
  /\ held' = [held EXCEPT ![c] = ValidMessages(arg[c])]
  /\ queue' = [queue EXCEPT ![arg[c]] = <<>>]
  /\ Goto(c, "drain")
  /\ UNCHANGED <<world, registry, clients, current_user_address, arg, channel, sent>>

\* Mutant of SendPending: the queue's record is sent as it is.
SendPendingRecord(c) ==
  /\ pc[c] = "drain"
  /\ held[c] # <<>>
  /\ rx' = Push(rx, c, [status |-> "incoming_message", msg |-> Head(held[c])])
  /\ held' = [held EXCEPT ![c] = Tail(@)]
  /\ UNCHANGED <<world, shared, pc, current_user_address, arg,
                 send_task, link, inbox, sent>>

\* Mutant of SendPending: the messages are popped from the end.
PopPending(c) ==
  /\ pc[c] = "drain"
  /\ held[c] # <<>>
  /\ rx' = Push(rx, c, [status |-> "incoming_message", msg |-> held[c][Len(held[c])].msg])
  /\ held' = [held EXCEPT ![c] = SubSeq(@, 1, Len(@) - 1)]
  /\ UNCHANGED <<world, shared, pc, current_user_address, arg,
                 send_task, link, inbox, sent>>

\* ... and the loop sends it message by message.
SendPending(c) ==
  /\ pc[c] = "drain"
  /\ held[c] # <<>>
  /\ rx' = Push(rx, c, [status |-> "incoming_message", msg |-> Head(held[c]).msg])
  /\ held' = [held EXCEPT ![c] = Tail(@)]
  /\ UNCHANGED <<world, shared, pc, current_user_address, arg,
                 send_task, link, inbox, sent>>

FinishRegister(c) ==
  /\ pc[c] = "drain"
  /\ held[c] = <<>>
  /\ arg' = [arg EXCEPT ![c] = None]
  /\ Goto(c, "receive")
  /\ UNCHANGED <<world, shared, current_user_address, held, channel, sent>>

\* ClientMessage::GetPublicKey, up to the end of add_trust.
GetPublicKey(c, target) ==
  /\ Receives(c, "get_public_key")
  /\ registry' = IF current_user_address[c] = None THEN registry
                 ELSE AddTrust(current_user_address[c], target)
  /\ arg' = [arg EXCEPT ![c] = target]
  /\ Goto(c, "lookup")
  /\ UNCHANGED <<world, clients, queue, current_user_address, held, channel, sent>>

\* registry::get_public_key and the response.
LookupKey(c) ==
  LET entry == registry[arg[c]] IN
  /\ pc[c] = "lookup"
  /\ rx' = Push(rx, c,
       IF entry = None THEN [status |-> "error"]
       ELSE [status |-> "key_response", public_key |-> entry.public_key,
             online_status |-> entry.is_online])
  /\ arg' = [arg EXCEPT ![c] = None]
  /\ Goto(c, "receive")
  /\ UNCHANGED <<world, shared, current_user_address, held,
                 send_task, link, inbox, sent>>

\* ClientMessage::CheckStatus gets no answer at all before a registration.
CheckStatus(c, target) ==
  /\ Receives(c, "check_status")
  /\ current_user_address[c] # None
  /\ rx' = Push(rx, c, StatusOf(target, current_user_address[c]))
  /\ UNCHANGED <<world, shared, handler, send_task, link, inbox, sent>>

\* ClientMessage::SendMessage whose 'from' is not the registered address.
RejectMessage(c, m) ==
  /\ Receives(c, "send_message")
  /\ m.id \notin sent
  /\ current_user_address[c] # m.from
  /\ sent' = sent \cup {m.id}
  /\ UNCHANGED <<world, shared, handler, channel>>

\* Mutant of ForwardMessage: the message goes to the channel of its sender.
ForwardToSender(c, m) ==
  /\ Receives(c, "send_message")
  /\ m.id \notin sent
  /\ current_user_address[c] = m.from
  /\ clients[m.to] # None
  /\ rx' = Push(rx, c, [status |-> "incoming_message", msg |-> m])
  /\ sent' = sent \cup {m.id}
  /\ UNCHANGED <<world, shared, handler, send_task, link, inbox>>

\* The target is in the index: its channel, then the sender's receipt.
ForwardMessage(c, m) ==
  /\ Receives(c, "send_message")
  /\ m.id \notin sent
  /\ current_user_address[c] = m.from
  /\ clients[m.to] # None
  /\ rx' = Push(Push(rx, clients[m.to], [status |-> "incoming_message", msg |-> m]),
                c, [status |-> "message_delivered", msg |-> m])
  /\ sent' = sent \cup {m.id}
  /\ UNCHANGED <<world, shared, handler, send_task, link, inbox>>

\* The target is not in the index: build the QueuedMessage ...
HoldMessage(c, m) ==
  /\ Receives(c, "send_message")
  /\ m.id \notin sent
  /\ current_user_address[c] = m.from
  /\ clients[m.to] = None
  /\ held' = [held EXCEPT ![c] = <<[msg |-> m, expires_at |-> now + TTL]>>]
  /\ sent' = sent \cup {m.id}
  /\ Goto(c, "enqueue")
  /\ UNCHANGED <<world, shared, current_user_address, arg, channel>>

\* Mutant of EnqueueMessage: the registrations lock the queue before the index.
EnqueueAfterInserts(c) ==
  /\ pc[c] = "enqueue"
  /\ \A d \in Conn : pc[d] # "insert"
  /\ queue' = Enqueued(Head(held[c]))
  /\ held' = [held EXCEPT ![c] = <<>>]
  /\ Goto(c, "receive")
  /\ UNCHANGED <<world, registry, clients, current_user_address, arg, channel, sent>>

\* ... and enqueue it, still holding the read guard of clients.
EnqueueMessage(c) ==
  /\ pc[c] = "enqueue"
  /\ queue' = Enqueued(Head(held[c]))
  /\ held' = [held EXCEPT ![c] = <<>>]
  /\ Goto(c, "receive")
  /\ UNCHANGED <<world, registry, clients, current_user_address, arg, channel, sent>>

\* Mutant of EndReceive: a Disconnect request returns at once.
ReturnAtOnce(c) ==
  /\ \/ Receives(c, "disconnect")
     \/ pc[c] = "receive" /\ link[c] = "down"
  /\ send_task' = [send_task EXCEPT ![c] = "aborting"]
  /\ Goto(c, IF current_user_address[c] = None \/ link[c] = "up" THEN "closed" ELSE "offline")
  /\ UNCHANGED <<world, shared, current_user_address, arg, held, rx, link, inbox, sent>>

\* The receive loop ends: a Disconnect request, or the stream failed or ended.
EndReceive(c) ==
  /\ \/ Receives(c, "disconnect")
     \/ pc[c] = "receive" /\ link[c] = "down"
  /\ send_task' = [send_task EXCEPT ![c] = "aborting"]
  /\ Goto(c, IF current_user_address[c] = None THEN "closed" ELSE "offline")
  /\ UNCHANGED <<world, shared, current_user_address, arg, held, rx, link, inbox, sent>>

MarkOffline(c) ==
  /\ pc[c] = "offline"
  /\ registry' = SetOffline(current_user_address[c])
  /\ Goto(c, "remove")
  /\ UNCHANGED <<world, clients, queue, current_user_address, arg, held, channel, sent>>

\* clients.write().await.remove(&address), whosever tx is stored there.
RemoveClient(c) ==
  /\ pc[c] = "remove"
  /\ ClientsWritable
  /\ clients' = [clients EXCEPT ![current_user_address[c]] = None]
  /\ Goto(c, "closed")
  /\ UNCHANGED <<world, registry, queue, current_user_address, arg, held, channel, sent>>

-----------------------------------------------------------------------------
(* The send task, and what happens around the handlers. *)

\* One message from the channel to the socket; a failed send is ignored.
SendToSocket(c) ==
  /\ send_task[c] \in {"running", "aborting"}
  /\ rx[c] # <<>>
  /\ rx' = [rx EXCEPT ![c] = Tail(@)]
  /\ inbox' = IF link[c] = "up" /\ Head(rx[c]).status = "incoming_message"
              THEN [inbox EXCEPT ![c] = Append(@, Head(rx[c]).msg)] ELSE inbox
  /\ UNCHANGED <<world, shared, handler, send_task, link, sent>>

\* abort() takes effect at the task's next await: the receiver is dropped with
\* all it holds, and so is the writing half of the socket.
StopSendTask(c) ==
  /\ send_task[c] = "aborting"
  /\ send_task' = [send_task EXCEPT ![c] = "stopped"]
  /\ rx' = [rx EXCEPT ![c] = <<>>]
  /\ link' = [link EXCEPT ![c] = "down"]
  /\ UNCHANGED <<world, shared, handler, inbox, sent>>

\* The peer closes the socket, dies, or the network drops the connection.
LoseLink(c) ==
  /\ LinksBreak
  /\ link[c] = "up"
  /\ link' = [link EXCEPT ![c] = "down"]
  /\ UNCHANGED <<world, shared, handler, rx, send_task, inbox, sent>>

Tick ==
  /\ now < MaxTime
  /\ now' = now + 1
  /\ UNCHANGED <<restarts, shared, handler, channel, sent>>

\* The process ends (accept failed, a crash) and systemd starts a new one:
\* everything it kept was in memory.
Restart ==
  /\ restarts < MaxRestarts
  /\ restarts' = restarts + 1
  /\ registry' = [a \in Address |-> None]
  /\ clients' = [a \in Address |-> None]
  /\ queue' = [a \in Address |-> <<>>]
  /\ pc' = [c \in Conn |-> IF pc[c] = "idle" THEN "idle" ELSE "closed"]
  /\ current_user_address' = [c \in Conn |-> None]
  /\ arg' = [c \in Conn |-> None]
  /\ held' = [c \in Conn |-> <<>>]
  /\ rx' = [c \in Conn |-> <<>>]
  /\ send_task' = [c \in Conn |-> "stopped"]
  /\ link' = [c \in Conn |-> "down"]
  /\ UNCHANGED <<now, sent, inbox>>

HandlerStep(c) ==
  \/ InsertClient(c) \/ MarkOnline(c)
  \/ TakePending(c) \/ SendPending(c) \/ FinishRegister(c)
  \/ LookupKey(c) \/ EnqueueMessage(c)
  \/ MarkOffline(c) \/ RemoveClient(c)

Request(c) ==
  \/ \E n \in Name, k \in Key : Register(c, n, k)
  \/ \E t \in Address : GetPublicKey(c, t)
  \/ \E t \in Address : CheckStatus(c, t)
  \/ \E m \in Message : RejectMessage(c, m)
  \/ \E m \in Message : ForwardMessage(c, m)
  \/ \E m \in Message : HoldMessage(c, m)

SendTaskStep(c) == SendToSocket(c) \/ StopSendTask(c)

Next ==
  \/ \E c \in Conn : \/ Accept(c) \/ Request(c) \/ HandlerStep(c) \/ EndReceive(c)
                     \/ SendTaskStep(c) \/ LoseLink(c)
  \/ Tick
  \/ Restart

Spec == Init /\ [][Next]_vars

\* tokio polls every ready task again, and its RwLock serves waiters in the
\* order in which they came, so that a waiting writer is not overtaken forever.
\* Nothing is assumed of what the clients do, of the send tasks, nor of EndReceive:
\* a peer that vanishes without a word leaves a stream that may never end.
Fairness ==
  \A c \in Conn : /\ WF_vars(HandlerStep(c))
                  /\ SF_vars(InsertClient(c))
                  /\ SF_vars(RemoveClient(c))

FairSpec == Spec /\ Fairness

-----------------------------------------------------------------------------
(* Properties *)

Label == {"idle", "receive", "insert", "online", "flush", "drain",
          "lookup", "enqueue", "offline", "remove", "closed"}

\* Every variable has its type (the structs and channel types of the code).
TypeOK ==
  /\ now \in Nat
  /\ restarts \in Nat
  /\ registry \in [Address -> RegistryEntry \cup {None}]
  /\ clients \in [Address -> Conn \cup {None}]
  /\ queue \in [Address -> Seq(QueuedMessage)]
  /\ pc \in [Conn -> Label]
  /\ current_user_address \in [Conn -> Address \cup {None}]
  /\ arg \in [Conn -> Address \cup {None}]
  /\ held \in [Conn -> Seq(QueuedMessage)]
  /\ rx \in [Conn -> Seq(ServerResponse)]
  /\ send_task \in [Conn -> {"running", "aborting", "stopped"}]
  /\ link \in [Conn -> {"up", "down"}]
  /\ sent \subseteq MsgId
  /\ inbox \in [Conn -> Seq(Message)]

\* Handler c has indexed address a and has not flushed its queue yet.
WillFlush(c, a) ==
  /\ pc[c] \in {"online", "flush"}
  /\ arg[c] = a

\* Every section finds what it uses: a request that names an address keeps it
\* until its last section, only a handler that registered an address cleans up,
\* and an enqueue has a message.
SectionsReady ==
  \A c \in Conn :
    /\ pc[c] \in {"insert", "online", "flush", "lookup"} => arg[c] \in Address
    /\ pc[c] \in {"offline", "remove"} => current_user_address[c] \in Address
    /\ pc[c] = "enqueue" => held[c] # <<>>

\* The read guard works: from the lookup that found the target offline until
\* the message is in the queue nobody indexes the target (network.rs:140-163).
TargetStaysOffline ==
  \A c \in Conn : pc[c] = "enqueue" => clients[Head(held[c]).msg.to] = None

\* No stranded message: while an address is indexed, so that new messages go to
\* a channel and not to the queue, whatever its queue still holds is about to
\* be flushed by a handler that is registering it (network.rs:89-103 against
\* :140-164: the sender keeps the read guard of clients while it enqueues).
NoStranded ==
  \A a \in Address :
    queue[a] # <<>> /\ clients[a] # None => \E c \in Conn : WillFlush(c, a)

\* The places of the server and its peers where a chat message can be.
Copies(id) ==
       (UNION {{<<"queue", a, i>> : i \in {j \in DOMAIN queue[a] :
                queue[a][j].msg.id = id}} : a \in Address})
  \cup (UNION {{<<"held", c, i>> : i \in {j \in DOMAIN held[c] :
                held[c][j].msg.id = id}} : c \in Conn})
  \cup (UNION {{<<"rx", c, i>> : i \in {j \in DOMAIN rx[c] :
                rx[c][j].status = "incoming_message" /\ rx[c][j].msg.id = id}} : c \in Conn})
  \cup (UNION {{<<"inbox", c, i>> : i \in {j \in DOMAIN inbox[c] :
                inbox[c][j].id = id}} : c \in Conn})

\* No duplicated message: queue, flush, forwarding and sockets together never
\* hold two copies of one message, even when several connections register the
\* same address at the same time (queue.rs:25-39, network.rs:95-103).
AtMostOneCopy ==
  \A id \in MsgId : \A x, y \in Copies(id) : x = y

\* Message x is ahead of y: in one queue, or on the way of one connection, which
\* leads from the loop that flushes through the channel to the peer.
Ahead(x, y) ==
  \E p \in Copies(x), q \in Copies(y) :
    /\ p[2] = q[2]
    /\ \/ p[1] = q[1] /\ p[3] < q[3]
       \/ p[1] = "inbox" /\ q[1] \in {"rx", "held"}
       \/ p[1] = "rx" /\ q[1] = "held"

\* Message x is not yet in a channel.
Waiting(x) == \E p \in Copies(x) : p[1] \in {"queue", "held"}

\* Messages are overtaken only where the code allows it: whoever is behind stays
\* behind, and a message gets ahead of an older one only while that one waits in
\* the queue or in the loop that flushes it, never once it is in a channel
\* (network.rs:89-103 against :140-154, queue.rs:15-39).
OvertakenOnlyWaiting ==
  [][\A x, y \in MsgId : Ahead(y, x)' =>
       /\ ~Ahead(x, y)
       /\ Ahead(y, x) \/ x \notin sent \/ Waiting(x)]_vars

\* A sender answers for an address to the end of its registration: the states
\* in which the entry of clients is expected to be there.
Registered(c) ==
  /\ current_user_address[c] # None
  /\ pc[c] \in {"receive", "online", "flush", "drain", "lookup", "enqueue"}

\* With one session per address, the index holds exactly the live handlers:
\* a registered handler is found under its address, and every entry belongs to
\* a handler that still stands for it (network.rs:89-90, :182-187).
IndexAccurate ==
  OneSession =>
    /\ \A c \in Conn : Registered(c) => clients[current_user_address[c]] = c
    /\ \A a \in Address : clients[a] # None => Claims(clients[a], a)

\* With one session per address, an address is shown online exactly while a
\* handler stands for it, up to its MarkOffline (registry.rs:31-39).
PresenceAccurate ==
  OneSession =>
    \A a \in Address :
      (registry[a] # None /\ registry[a].is_online)
        <=> \E c \in Conn : Claims(c, a) /\ pc[c] # "remove"

\* With one session per address, a chat message only ever enters the channel
\* or reaches the peer of a connection that registered the message's target.
RoutedToOwner ==
  OneSession =>
    \A c \in Conn :
      /\ \A i \in DOMAIN rx[c] :
           rx[c][i].status = "incoming_message"
             => rx[c][i].msg.to = current_user_address[c]
      /\ \A i \in DOMAIN held[c] :
           pc[c] = "drain" => held[c][i].msg.to = current_user_address[c]

\* The registry shows a key under an address only if the key's fingerprint is
\* the address's, whoever registers it again with which key (network.rs:78-82).
KeyFitsAddress ==
  \A a \in Address : registry[a] # None => PeerIdOf[registry[a].public_key] = a[2]

\* As long as the process lives, an entry survives everything: registering it
\* again or going offline neither revokes a trust nor forgets when its user was
\* last seen (registry.rs:19-54).
EntriesPersist ==
  [][restarts' = restarts =>
       \A a \in Address : registry[a] # None =>
         /\ registry'[a] # None
         /\ registry[a].trusted_peers \subseteq registry'[a].trusted_peers
         /\ registry[a].last_seen # None =>
              /\ registry'[a].last_seen # None
              /\ registry[a].last_seen <= registry'[a].last_seen]_vars

\* Message id reached the channel or the peer of a connection that stands for a.
HandedOver(id, a) ==
  \E c \in Conn : /\ current_user_address[c] = a
                  /\ \E p \in Copies(id) : p[1] \in {"rx", "inbox"} /\ p[2] = c

\* Message id is in the queue of address a, and there beyond its lifetime.
Queued(id, a) == \E i \in DOMAIN queue[a] : queue[a][i].msg.id = id

Expired(id, a) ==
  \E i \in DOMAIN queue[a] : queue[a][i].msg.id = id /\ queue[a][i].expires_at <= now

\* A message that waits for an address which is indexed comes to the channel of a
\* connection that stands for the address, unless it expires before or the process
\* restarts, also when its sender looked the target up before the registration and
\* enqueued beside it (network.rs:89-103 against :140-163).
QueueReachesOwner ==
  \A a \in Address, id \in MsgId, n \in 0..MaxRestarts :
    Queued(id, a) /\ clients[a] # None /\ restarts = n
      ~> HandedOver(id, a) \/ Expired(id, a) \/ restarts # n

\* Whatever locks the others hold, a handler finishes: a request is served to its
\* last section, and once the receive loop ended, whenever that is, the clean-up
\* comes to its end and takes the entry away (network.rs:89, :140-163, :180-187).
HandlersFinish ==
  \A c \in Conn :
    pc[c] \notin {"idle", "receive", "closed"}
      ~> \/ pc[c] = "receive"
         \/ pc[c] = "closed" /\ \A a \in Address : current_user_address[c] = a => clients[a] # c

-----------------------------------------------------------------------------
(* What comments of the code say and the code does not do. *)

\* network.rs:155 "Target is offline, enqueue": a message is queued only when
\* no live connection is registered under its target.
QueuedOnlyWhenOffline ==
  [][\A a \in Address : Len(queue'[a]) > Len(queue[a]) =>
       \A c \in Conn : Registered(c) /\ current_user_address[c] = a
         => pc[c] = "enqueue" \/ link[c] = "down"]_vars
=============================================================================
