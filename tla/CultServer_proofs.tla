-------------------------- MODULE CultServer_proofs --------------------------
(***************************************************************************)
(* Theorems about CultServer, for every set of connections, users, keys    *)
(* and messages, and for every value of the bounds.                        *)
(***************************************************************************)
EXTENDS CultServer, WellFoundedInduction, TLAPS

-----------------------------------------------------------------------------
(* Induction over the natural numbers, for sets. *)

LessNat == {ss \in Nat \X Nat : ss[1] < ss[2]}

LEMMA LessNatWellFounded == IsWellFoundedOn(LessNat, Nat)
  BY NatLessThanWellFounded DEF OpToRel, LessNat

\* Stated for a set, so that the provers can instantiate it.
LEMMA SetInduction ==
  ASSUME NEW S, 0 \in S, \A n \in Nat : n \in S => n + 1 \in S
  PROVE  Nat \subseteq S
<1> DEFINE Outside == Nat \ S
<1> SUFFICES ASSUME Outside # {} PROVE FALSE
  OBVIOUS
<1>1. PICK x \in Outside : \A y \in Outside : ~ (<<y, x>> \in LessNat)
  <2>1. Outside \subseteq Nat
    OBVIOUS
  <2> HIDE DEF Outside
  <2> QED BY <2>1, LessNatWellFounded, WFMin
<1>2. x \in Nat /\ x # 0
  OBVIOUS
<1>3. x - 1 \in Nat /\ <<x - 1, x>> \in LessNat
  BY <1>2 DEF LessNat
<1> QED BY <1>1, <1>3

-----------------------------------------------------------------------------
(* get_messages: the loop over the queue yields queued messages. *)

ValidStep(msgs, f, n) ==
  IF n = 0 THEN <<>>
  ELSE IF msgs[n].expires_at > now THEN Append(f[n - 1], msgs[n])
  ELSE f[n - 1]

IsLoop(msgs, f, k) == f = [n \in 0..k |-> ValidStep(msgs, f, n)]

LEMMA LoopExists ==
  ASSUME NEW msgs, NEW k \in Nat
  PROVE  \E f : IsLoop(msgs, f, k)
<1> DEFINE S == {n \in Nat : \E f : IsLoop(msgs, f, n)}
<1>1. 0 \in S
  <2>1. IsLoop(msgs, [n \in 0..0 |-> <<>>], 0)
    BY DEF IsLoop, ValidStep
  <2> QED BY <2>1
<1>2. ASSUME NEW n \in Nat, n \in S PROVE n + 1 \in S
  <2>1. PICK f : IsLoop(msgs, f, n)
    BY <1>2
  <2> DEFINE g == [i \in 0..(n + 1) |-> IF i <= n THEN f[i] ELSE ValidStep(msgs, f, i)]
  <2>2. \A i \in 0..n : i \in 0..(n + 1) /\ i <= n
    OBVIOUS
  <2>3. \A i \in 0..n : g[i] = f[i]
    BY <2>2
  <2>4. ASSUME NEW i \in 0..(n + 1) PROVE g[i] = ValidStep(msgs, f, i)
    <3>1. CASE i \in 0..n
      BY <3>1, <2>1, <2>3 DEF IsLoop
    <3>2. CASE i \notin 0..n
      <4>1. ~(i <= n)
        BY <3>2
      <4> QED BY <4>1
    <3> QED BY <3>1, <3>2
  <2>5. ASSUME NEW i \in 0..(n + 1) PROVE ValidStep(msgs, f, i) = ValidStep(msgs, g, i)
    <3>1. i # 0 => i - 1 \in 0..n
      OBVIOUS
    <3> HIDE DEF g
    <3> QED BY <3>1, <2>3 DEF ValidStep
  <2>6. IsLoop(msgs, g, n + 1)
    <3>1. g = [i \in 0..(n + 1) |-> g[i]]
      OBVIOUS
    <3>2. \A i \in 0..(n + 1) : g[i] = ValidStep(msgs, g, i)
      BY <2>4, <2>5
    <3> HIDE DEF g
    <3> QED BY <3>1, <3>2 DEF IsLoop
  <2> QED BY <2>6
<1>3. \A n \in Nat : n \in S => n + 1 \in S
  BY <1>2
<1> HIDE DEF S
<1>4. k \in S
  BY <1>1, <1>3, SetInduction
<1> QED BY <1>4 DEF S

LEMMA LoopType ==
  ASSUME NEW T, NEW msgs \in Seq(T), NEW f, IsLoop(msgs, f, Len(msgs))
  PROVE  f[Len(msgs)] \in Seq(T)
<1> DEFINE S == {n \in Nat : n <= Len(msgs) => f[n] \in Seq(T)}
<1>1. \A n \in 0..Len(msgs) : f[n] = ValidStep(msgs, f, n)
  BY DEF IsLoop
<1>2. 0 \in S
  <2>1. f[0] = <<>>
    BY <1>1 DEF ValidStep
  <2>2. <<>> \in Seq(T)
    OBVIOUS
  <2>3. f[0] \in Seq(T)
    BY <2>1, <2>2, Zenon
  <2> QED BY <2>3
<1>3. ASSUME NEW n \in Nat, n \in S PROVE n + 1 \in S
  <2> SUFFICES ASSUME n + 1 <= Len(msgs) PROVE f[n + 1] \in Seq(T)
    OBVIOUS
  <2>1. f[n] \in Seq(T) /\ msgs[n + 1] \in T
    BY <1>3
  <2>2. f[n + 1] = ValidStep(msgs, f, n + 1)
    BY <1>1
  <2> QED BY <2>1, <2>2 DEF ValidStep
<1>4. \A n \in Nat : n \in S => n + 1 \in S
  BY <1>3
<1> HIDE DEF S
<1>5. Len(msgs) \in S
  BY <1>2, <1>4, SetInduction
<1> QED BY <1>5 DEF S

\* What get_messages returns is a sequence of queued messages.
LEMMA ValidMessagesType ==
  ASSUME NEW a, NEW T, queue[a] \in Seq(T)
  PROVE  ValidMessages(a) \in Seq(T)
<1> DEFINE msgs == queue[a]
           valid == CHOOSE f : IsLoop(msgs, f, Len(msgs))
<1>1. IsLoop(msgs, valid, Len(msgs))
  <2>1. Len(msgs) \in Nat
    OBVIOUS
  <2>2. \E f : IsLoop(msgs, f, Len(msgs))
    BY <2>1, LoopExists
  <2> QED BY <2>2
<1>2. ValidMessages(a) = valid[Len(msgs)]
  BY DEF ValidMessages, IsLoop, ValidStep
<1> HIDE DEF valid
<1> QED BY <1>1, <1>2, LoopType

-----------------------------------------------------------------------------
(* Type correctness. *)

TypeInv == TypeOK /\ SectionsReady

LEMMA AddressParts ==
  ASSUME NEW n \in Name, NEW k \in Key
  PROVE  FullAddress(n, k) \in Address
  BY PeerIdAssumption DEF FullAddress, Address

\* tx.send puts a response into a channel, or does nothing.
LEMMA PushType ==
  ASSUME NEW box \in [Conn -> Seq(ServerResponse)], NEW c, NEW resp \in ServerResponse
  PROVE  Push(box, c, resp) \in [Conn -> Seq(ServerResponse)]
<1>1. [box EXCEPT ![c] = Append(@, resp)] \in [Conn -> Seq(ServerResponse)]
  <2>1. CASE c \in Conn
    <3>1. Append(box[c], resp) \in Seq(ServerResponse)
      BY <2>1
    <3> QED BY <3>1
  <2>2. CASE c \notin Conn
    BY <2>2
  <2> QED BY <2>1, <2>2
<1> QED BY <1>1 DEF Push

\* The updates of the registry keep it a map of entries.
LEMMA RegisterType ==
  ASSUME registry \in [Address -> RegistryEntry \cup {None}],
         NEW a \in Address, NEW k \in Key
  PROVE  RegisterUser(a, k) \in [Address -> RegistryEntry \cup {None}]
  BY DEF RegisterUser, RegistryEntry

LEMMA OnlineType ==
  ASSUME registry \in [Address -> RegistryEntry \cup {None}], now \in Nat,
         NEW a \in Address
  PROVE  /\ SetOnline(a) \in [Address -> RegistryEntry \cup {None}]
         /\ SetOffline(a) \in [Address -> RegistryEntry \cup {None}]
  BY DEF SetOnline, SetOffline, RegistryEntry

LEMMA TrustType ==
  ASSUME registry \in [Address -> RegistryEntry \cup {None}],
         NEW a \in Address, NEW b \in Address
  PROVE  AddTrust(a, b) \in [Address -> RegistryEntry \cup {None}]
<1>1. ASSUME NEW reg \in [Address -> RegistryEntry \cup {None}],
             NEW x \in Address, NEW y \in Address
      PROVE  Trusting(reg, x, y) \in [Address -> RegistryEntry \cup {None}]
  BY DEF Trusting, RegistryEntry
<1> QED BY <1>1 DEF AddTrust

LEMMA StatusType ==
  ASSUME registry \in [Address -> RegistryEntry \cup {None}],
         NEW a \in Address, NEW b \in Address
  PROVE  StatusOf(a, b) \in ServerResponse
  BY DEF StatusOf, ServerResponse, RegistryEntry

LEMMA TypeInit == Init => TypeInv
<1> SUFFICES ASSUME Init PROVE TypeInv
  OBVIOUS
<1>1. TypeOK
  BY DEF Init, TypeOK, Label
<1>2. SectionsReady
  BY DEF Init, SectionsReady
<1> QED BY <1>1, <1>2 DEF TypeInv

\* One step per action; every action but Tick and Restart is one connection's.
LEMMA TypeStep == TypeInv /\ [Next]_vars => TypeInv'
<1> SUFFICES ASSUME TypeInv, [Next]_vars PROVE TypeInv'
  OBVIOUS
<1> USE DEF TypeInv
<1>1. ASSUME NEW c \in Conn, Accept(c) PROVE TypeInv'
  BY <1>1 DEF Accept, TypeOK, SectionsReady, Goto, Label, world, shared, handler, channel
<1>2. ASSUME NEW c \in Conn, NEW n \in Name, NEW k \in Key, Register(c, n, k) PROVE TypeInv'
  <2> DEFINE a == FullAddress(n, k)
  <2>1. a \in Address
    BY AddressParts
  <2> HIDE DEF a
  <2>2. RegisterUser(a, k) \in [Address -> RegistryEntry \cup {None}]
    BY <2>1, RegisterType DEF TypeOK
  <2> QED BY <1>2, <2>1, <2>2
             DEF Register, TypeOK, SectionsReady, Goto, Label, world, channel, a
<1>3. ASSUME NEW c \in Conn, InsertClient(c) PROVE TypeInv'
  BY <1>3 DEF InsertClient, TypeOK, SectionsReady, Goto, Label, world, channel
<1>4. ASSUME NEW c \in Conn, MarkOnline(c) PROVE TypeInv'
  <2> DEFINE resp == [status |-> "ok", full_address |-> arg[c]]
  <2>1. arg[c] \in Address
    BY <1>4 DEF MarkOnline, SectionsReady
  <2>2. resp \in ServerResponse
    BY <2>1 DEF ServerResponse
  <2> HIDE DEF resp
  <2>3. Push(rx, c, resp) \in [Conn -> Seq(ServerResponse)]
    BY <2>2, PushType DEF TypeOK
  <2>4. SetOnline(arg[c]) \in [Address -> RegistryEntry \cup {None}]
    BY <2>1, OnlineType DEF TypeOK
  <2> QED BY <1>4, <2>1, <2>3, <2>4
             DEF MarkOnline, TypeOK, SectionsReady, Goto, Label, world, resp
<1>5. ASSUME NEW c \in Conn, TakePending(c) PROVE TypeInv'
  <2>1. arg[c] \in Address
    BY <1>5 DEF TakePending, SectionsReady
  <2>2. ValidMessages(arg[c]) \in Seq(QueuedMessage)
    BY <2>1, ValidMessagesType DEF TypeOK
  <2> QED BY <1>5, <2>1, <2>2
             DEF TakePending, TypeOK, SectionsReady, Goto, Label, world, channel
<1>6. ASSUME NEW c \in Conn, SendPending(c) PROVE TypeInv'
  <2> DEFINE resp == [status |-> "incoming_message", msg |-> Head(held[c]).msg]
  <2>1. Head(held[c]) \in QueuedMessage /\ Tail(held[c]) \in Seq(QueuedMessage)
    BY <1>6 DEF SendPending, TypeOK
  <2>2. resp \in ServerResponse
    BY <2>1 DEF ServerResponse, QueuedMessage
  <2> HIDE DEF resp
  <2>3. Push(rx, c, resp) \in [Conn -> Seq(ServerResponse)]
    BY <2>2, PushType DEF TypeOK
  <2> QED BY <1>6, <2>1, <2>3
             DEF SendPending, TypeOK, SectionsReady, world, shared, resp
<1>7. ASSUME NEW c \in Conn, FinishRegister(c) PROVE TypeInv'
  BY <1>7 DEF FinishRegister, TypeOK, SectionsReady, Goto, Label, world, shared, channel
<1>8. ASSUME NEW c \in Conn, NEW t \in Address, GetPublicKey(c, t) PROVE TypeInv'
  <2>1. current_user_address[c] # None =>
          AddTrust(current_user_address[c], t) \in [Address -> RegistryEntry \cup {None}]
    BY TrustType DEF TypeOK
  <2> QED BY <1>8, <2>1
             DEF GetPublicKey, Receives, TypeOK, SectionsReady, Goto, Label, world, channel
<1>9. ASSUME NEW c \in Conn, LookupKey(c) PROVE TypeInv'
  <2> DEFINE entry == registry[arg[c]]
             resp == IF entry = None THEN [status |-> "error"]
                     ELSE [status |-> "key_response", public_key |-> entry.public_key,
                           online_status |-> entry.is_online]
  <2>1. arg[c] \in Address
    BY <1>9 DEF LookupKey, SectionsReady
  <2>2. entry # None => entry \in RegistryEntry
    BY <2>1 DEF TypeOK
  <2>3. resp \in ServerResponse
    BY <2>2 DEF ServerResponse, RegistryEntry
  <2> HIDE DEF resp
  <2>4. Push(rx, c, resp) \in [Conn -> Seq(ServerResponse)]
    BY <2>3, PushType DEF TypeOK
  <2> QED BY <1>9, <2>1, <2>4
             DEF LookupKey, TypeOK, SectionsReady, Goto, Label, world, shared, resp
<1>10. ASSUME NEW c \in Conn, NEW t \in Address, CheckStatus(c, t) PROVE TypeInv'
  <2>1. current_user_address[c] \in Address
    BY <1>10 DEF CheckStatus, TypeOK
  <2>2. StatusOf(t, current_user_address[c]) \in ServerResponse
    BY <2>1, StatusType DEF TypeOK
  <2>3. Push(rx, c, StatusOf(t, current_user_address[c])) \in [Conn -> Seq(ServerResponse)]
    BY <2>2, PushType DEF TypeOK
  <2> QED BY <1>10, <2>3
             DEF CheckStatus, TypeOK, SectionsReady, world, shared, handler
<1>11. ASSUME NEW c \in Conn, NEW m \in Message, RejectMessage(c, m) PROVE TypeInv'
  BY <1>11 DEF RejectMessage, Message, TypeOK, SectionsReady, world, shared, handler, channel
<1>12. ASSUME NEW c \in Conn, NEW m \in Message, ForwardMessage(c, m) PROVE TypeInv'
  <2> DEFINE incoming == [status |-> "incoming_message", msg |-> m]
             receipt == [status |-> "message_delivered", msg |-> m]
  <2>1. incoming \in ServerResponse /\ receipt \in ServerResponse
    BY DEF ServerResponse
  <2> HIDE DEF incoming, receipt
  <2>2. Push(rx, clients[m.to], incoming) \in [Conn -> Seq(ServerResponse)]
    BY <2>1, PushType DEF TypeOK
  <2>3. Push(Push(rx, clients[m.to], incoming), c, receipt) \in [Conn -> Seq(ServerResponse)]
    BY <2>1, <2>2, PushType
  <2> QED BY <1>12, <2>3
             DEF ForwardMessage, Message, TypeOK, SectionsReady, world, shared, handler,
                 incoming, receipt
<1>13. ASSUME NEW c \in Conn, NEW m \in Message, HoldMessage(c, m) PROVE TypeInv'
  <2> DEFINE qm == [msg |-> m, expires_at |-> now + TTL]
  <2>1. qm \in QueuedMessage
    BY BoundAssumption DEF QueuedMessage, TypeOK
  <2> HIDE DEF qm
  <2>2. <<qm>> \in Seq(QueuedMessage) /\ <<qm>> # <<>>
    BY <2>1
  <2>3. m.id \in MsgId
    BY DEF Message
  <2> QED BY <1>13, <2>2, <2>3
             DEF HoldMessage, qm, TypeOK, SectionsReady, Goto, Label, world, shared, channel
<1>14. ASSUME NEW c \in Conn, EnqueueMessage(c) PROVE TypeInv'
  <2>1. Head(held[c]) \in QueuedMessage
    BY <1>14 DEF EnqueueMessage, TypeOK, SectionsReady
  <2>2. ASSUME NEW qm \in QueuedMessage
        PROVE  Enqueued(qm) \in [Address -> Seq(QueuedMessage)]
    <3>1. qm.msg.to \in Address
      BY DEF QueuedMessage, Message
    <3>2. Append(queue[qm.msg.to], qm) \in Seq(QueuedMessage)
      BY <3>1 DEF TypeOK
    <3> QED BY <3>1, <3>2 DEF Enqueued, TypeOK
  <2> QED BY <1>14, <2>1, <2>2
             DEF EnqueueMessage, TypeOK, SectionsReady, Goto, Label, world, channel
<1>15. ASSUME NEW c \in Conn, EndReceive(c) PROVE TypeInv'
  BY <1>15 DEF EndReceive, TypeOK, SectionsReady, Goto, Label, world, shared
<1>16. ASSUME NEW c \in Conn, MarkOffline(c) PROVE TypeInv'
  <2>1. current_user_address[c] \in Address
    BY <1>16 DEF MarkOffline, SectionsReady
  <2>2. SetOffline(current_user_address[c]) \in [Address -> RegistryEntry \cup {None}]
    BY <2>1, OnlineType DEF TypeOK
  <2> QED BY <1>16, <2>1, <2>2
             DEF MarkOffline, TypeOK, SectionsReady, Goto, Label, world, channel
<1>17. ASSUME NEW c \in Conn, RemoveClient(c) PROVE TypeInv'
  BY <1>17 DEF RemoveClient, TypeOK, SectionsReady, Goto, Label, world, channel
<1>18. ASSUME NEW c \in Conn, SendToSocket(c) PROVE TypeInv'
  <2>1. Head(rx[c]) \in ServerResponse /\ Tail(rx[c]) \in Seq(ServerResponse)
    BY <1>18 DEF SendToSocket, TypeOK
  <2>2. Head(rx[c]).status = "incoming_message" => Head(rx[c]).msg \in Message
    BY <2>1 DEF ServerResponse
  <2>3. inbox' \in [Conn -> Seq(Message)]
    BY <1>18, <2>2 DEF SendToSocket, TypeOK
  <2> QED BY <1>18, <2>1, <2>3
             DEF SendToSocket, TypeOK, SectionsReady, world, shared, handler
<1>19. ASSUME NEW c \in Conn, StopSendTask(c) PROVE TypeInv'
  BY <1>19 DEF StopSendTask, TypeOK, SectionsReady, world, shared, handler
<1>20. ASSUME NEW c \in Conn, LoseLink(c) PROVE TypeInv'
  BY <1>20 DEF LoseLink, TypeOK, SectionsReady, world, shared, handler
<1>21. CASE Tick
  BY <1>21 DEF Tick, TypeOK, SectionsReady, shared, handler, channel
<1>22. CASE Restart
  BY <1>22 DEF Restart, TypeOK, SectionsReady, Label
<1>23. CASE UNCHANGED vars
  BY <1>23 DEF vars, world, shared, handler, channel, TypeOK, SectionsReady
<1> QED BY <1>1, <1>2, <1>3, <1>4, <1>5, <1>6, <1>7, <1>8, <1>9, <1>10, <1>11, <1>12,
           <1>13, <1>14, <1>15, <1>16, <1>17, <1>18, <1>19, <1>20, <1>21, <1>22, <1>23
        DEF Next, Request, HandlerStep, SendTaskStep

\* Every variable of the server keeps its type.
THEOREM TypeCorrect == Spec => []TypeOK
<1>1. TypeInv => TypeOK
  BY DEF TypeInv
<1> QED BY TypeInit, TypeStep, <1>1, PTL DEF Spec

-----------------------------------------------------------------------------
(* No stranded message. *)

IndexInv == TypeInv /\ TargetStaysOffline /\ NoStranded

\* Most steps index nobody, queue nothing and end no registration early.
LEMMA QuietStep ==
  ASSUME IndexInv, TypeInv',
         clients' = clients,
         queue' = queue,
         \A d \in Conn, a \in Address : WillFlush(d, a) => WillFlush(d, a)',
         \A d \in Conn : pc'[d] = "enqueue" => pc[d] = "enqueue" /\ held'[d] = held[d]
  PROVE  IndexInv'
<1>1. TargetStaysOffline'
  BY DEF IndexInv, TargetStaysOffline
<1>2. NoStranded'
  BY DEF IndexInv, NoStranded
<1> QED BY <1>1, <1>2 DEF IndexInv

LEMMA IndexInit == Init => IndexInv
<1> SUFFICES ASSUME Init PROVE IndexInv
  OBVIOUS
<1>1. TargetStaysOffline /\ NoStranded
  BY DEF Init, TargetStaysOffline, NoStranded
<1> QED BY <1>1, TypeInit DEF IndexInv

LEMMA IndexStep == IndexInv /\ [Next]_vars => IndexInv'
<1> SUFFICES ASSUME IndexInv, [Next]_vars PROVE IndexInv'
  OBVIOUS
<1>0. TypeInv /\ TypeInv'
  BY TypeStep DEF IndexInv
<1>t. /\ pc \in [Conn -> Label] /\ arg \in [Conn -> Address \cup {None}]
      /\ clients \in [Address -> Conn \cup {None}]
      /\ queue \in [Address -> Seq(QueuedMessage)]
      /\ held \in [Conn -> Seq(QueuedMessage)]
  BY <1>0 DEF TypeInv, TypeOK
<1> USE <1>0, <1>t
<1>1. ASSUME NEW c \in Conn, Accept(c) PROVE IndexInv'
  BY <1>1, QuietStep DEF Accept, Goto, WillFlush, shared
<1>2. ASSUME NEW c \in Conn, NEW n \in Name, NEW k \in Key, Register(c, n, k) PROVE IndexInv'
  BY <1>2, QuietStep DEF Register, Receives, Goto, WillFlush
<1>3. ASSUME NEW c \in Conn, InsertClient(c) PROVE IndexInv'
  <2>1. TargetStaysOffline'
    BY <1>3 DEF InsertClient, ClientsWritable, Goto, TargetStaysOffline
  <2>2. arg[c] \in Address /\ \A a \in Address : a = arg[c] => WillFlush(c, a)'
    BY <1>3 DEF InsertClient, Goto, WillFlush, TypeInv, SectionsReady
  <2>3. \A d \in Conn, a \in Address : WillFlush(d, a) => WillFlush(d, a)'
    BY <1>3 DEF InsertClient, Goto, WillFlush
  <2>4. ASSUME NEW a \in Address, queue'[a] # <<>>, clients'[a] # None
        PROVE  \E d \in Conn : WillFlush(d, a)'
    <3>1. CASE a = arg[c]
      BY <3>1, <2>2
    <3>2. CASE a # arg[c]
      <4>1. clients'[a] = clients[a] /\ queue'[a] = queue[a]
        BY <1>3, <2>2, <3>2 DEF InsertClient
      <4>2. PICK d \in Conn : WillFlush(d, a)
        BY <2>4, <4>1 DEF IndexInv, NoStranded
      <4> QED BY <2>3, <4>2
    <3> QED BY <3>1, <3>2
  <2> QED BY <2>1, <2>4 DEF IndexInv, NoStranded
<1>4. ASSUME NEW c \in Conn, MarkOnline(c) PROVE IndexInv'
  BY <1>4, QuietStep DEF MarkOnline, Goto, WillFlush
<1>5. ASSUME NEW c \in Conn, TakePending(c) PROVE IndexInv'
  <2>1. TargetStaysOffline'
    BY <1>5 DEF TakePending, Goto, IndexInv, TargetStaysOffline
  <2>2. \A d \in Conn, a \in Address : a # arg[c] /\ WillFlush(d, a) => WillFlush(d, a)'
    BY <1>5 DEF TakePending, Goto, WillFlush
  <2>3. NoStranded'
    BY <1>5, <2>2 DEF TakePending, IndexInv, NoStranded
  <2> QED BY <2>1, <2>3 DEF IndexInv
<1>6. ASSUME NEW c \in Conn, SendPending(c) PROVE IndexInv'
  BY <1>6, QuietStep DEF SendPending, WillFlush, shared
<1>7. ASSUME NEW c \in Conn, FinishRegister(c) PROVE IndexInv'
  BY <1>7, QuietStep DEF FinishRegister, Goto, WillFlush, shared
<1>8. ASSUME NEW c \in Conn, NEW t \in Address, GetPublicKey(c, t) PROVE IndexInv'
  BY <1>8, QuietStep DEF GetPublicKey, Receives, Goto, WillFlush
<1>9. ASSUME NEW c \in Conn, LookupKey(c) PROVE IndexInv'
  BY <1>9, QuietStep DEF LookupKey, Goto, WillFlush, shared
<1>10. ASSUME NEW c \in Conn, NEW t \in Address, CheckStatus(c, t) PROVE IndexInv'
  BY <1>10, QuietStep DEF CheckStatus, WillFlush, shared, handler
<1>11. ASSUME NEW c \in Conn, NEW m \in Message, RejectMessage(c, m) PROVE IndexInv'
  BY <1>11, QuietStep DEF RejectMessage, WillFlush, shared, handler
<1>12. ASSUME NEW c \in Conn, NEW m \in Message, ForwardMessage(c, m) PROVE IndexInv'
  BY <1>12, QuietStep DEF ForwardMessage, WillFlush, shared, handler
<1>13. ASSUME NEW c \in Conn, NEW m \in Message, HoldMessage(c, m) PROVE IndexInv'
  <2>1. Head(held'[c]).msg.to = m.to /\ clients'[m.to] = None
    BY <1>13 DEF HoldMessage, shared
  <2>2. TargetStaysOffline'
    BY <1>13, <2>1 DEF HoldMessage, Goto, shared, IndexInv, TargetStaysOffline
  <2>3. \A d \in Conn, a \in Address : WillFlush(d, a) => WillFlush(d, a)'
    BY <1>13 DEF HoldMessage, Receives, Goto, WillFlush
  <2>4. NoStranded'
    BY <1>13, <2>3 DEF HoldMessage, shared, IndexInv, NoStranded
  <2> QED BY <2>2, <2>4 DEF IndexInv
<1>14. ASSUME NEW c \in Conn, EnqueueMessage(c) PROVE IndexInv'
  <2>1. TargetStaysOffline'
    BY <1>14 DEF EnqueueMessage, Goto, IndexInv, TargetStaysOffline
  <2>2. \A d \in Conn, a \in Address : WillFlush(d, a) => WillFlush(d, a)'
    BY <1>14 DEF EnqueueMessage, Goto, WillFlush
  <2>3. clients'[Head(held[c]).msg.to] = None
    BY <1>14 DEF EnqueueMessage, IndexInv, TargetStaysOffline
  <2>4. \A a \in Address : a # Head(held[c]).msg.to => queue'[a] = queue[a]
    BY <1>14 DEF EnqueueMessage, Enqueued
  <2>5. NoStranded'
    BY <1>14, <2>2, <2>3, <2>4 DEF EnqueueMessage, IndexInv, NoStranded
  <2> QED BY <2>1, <2>5 DEF IndexInv
<1>15. ASSUME NEW c \in Conn, EndReceive(c) PROVE IndexInv'
  BY <1>15, QuietStep DEF EndReceive, Receives, Goto, WillFlush, shared
<1>16. ASSUME NEW c \in Conn, MarkOffline(c) PROVE IndexInv'
  BY <1>16, QuietStep DEF MarkOffline, Goto, WillFlush
<1>17. ASSUME NEW c \in Conn, RemoveClient(c) PROVE IndexInv'
  <2>1. TargetStaysOffline'
    BY <1>17 DEF RemoveClient, ClientsWritable, Goto, TargetStaysOffline
  <2>2. \A d \in Conn, a \in Address : WillFlush(d, a) => WillFlush(d, a)'
    BY <1>17 DEF RemoveClient, Goto, WillFlush
  <2>3. \A a \in Address : clients'[a] # None => clients[a] # None
    BY <1>17 DEF RemoveClient
  <2>4. NoStranded'
    BY <1>17, <2>2, <2>3 DEF RemoveClient, IndexInv, NoStranded
  <2> QED BY <2>1, <2>4 DEF IndexInv
<1>18. ASSUME NEW c \in Conn, SendToSocket(c) PROVE IndexInv'
  BY <1>18, QuietStep DEF SendToSocket, WillFlush, shared, handler
<1>19. ASSUME NEW c \in Conn, StopSendTask(c) PROVE IndexInv'
  BY <1>19, QuietStep DEF StopSendTask, WillFlush, shared, handler
<1>20. ASSUME NEW c \in Conn, LoseLink(c) PROVE IndexInv'
  BY <1>20, QuietStep DEF LoseLink, WillFlush, shared, handler
<1>21. CASE Tick
  BY <1>21, QuietStep DEF Tick, WillFlush, shared, handler
<1>22. CASE Restart
  BY <1>22 DEF Restart, IndexInv, TargetStaysOffline, NoStranded
<1>23. CASE UNCHANGED vars
  BY <1>23, QuietStep DEF vars, WillFlush, shared, handler
<1> QED BY <1>1, <1>2, <1>3, <1>4, <1>5, <1>6, <1>7, <1>8, <1>9, <1>10, <1>11, <1>12,
           <1>13, <1>14, <1>15, <1>16, <1>17, <1>18, <1>19, <1>20, <1>21, <1>22, <1>23
        DEF Next, Request, HandlerStep, SendTaskStep

\* While an address is indexed its queue is empty, or about to be flushed: the
\* read guard that SendMessage keeps over its enqueue excludes the registration
\* that would leave the message behind.
THEOREM NothingStranded == Spec => []NoStranded
<1>1. IndexInv => NoStranded
  BY DEF IndexInv
<1> QED BY IndexInit, IndexStep, <1>1, PTL DEF Spec

\* Nobody indexes the target of a message that is being queued.
THEOREM GuardExcludesRegistration == Spec => []TargetStaysOffline
<1>1. IndexInv => TargetStaysOffline
  BY DEF IndexInv
<1> QED BY IndexInit, IndexStep, <1>1, PTL DEF Spec

-----------------------------------------------------------------------------
(* One session per address: the index and the presence are accurate. *)

\* How a handler that registers once carries its address.
SessionShape ==
  \A c \in Conn :
    /\ pc[c] \in {"idle", "insert"} => current_user_address[c] = None
    /\ pc[c] \in {"online", "flush"} => current_user_address[c] = arg[c]

\* No two handlers stand for one address.
OneClaim ==
  \A c, d \in Conn, a \in Address : Claims(c, a) /\ Claims(d, a) => c = d

SessionFacts == SessionShape /\ OneClaim /\ IndexAccurate /\ PresenceAccurate

SessionInv == TypeInv /\ (OneSession => SessionFacts)

ShownOnline(a) == registry[a] # None /\ registry[a].is_online

\* Most steps keep the index, what the registry shows online, and the claims.
LEMMA QuietSession ==
  ASSUME OneSession, SessionFacts, SessionShape',
         clients' = clients, clients \in [Address -> Conn \cup {None}],
         \A a \in Address : ShownOnline(a)' <=> ShownOnline(a),
         \A d \in Conn : pc'[d] = "remove" <=> pc[d] = "remove",
         \A d \in Conn, a \in Address : Claims(d, a)' <=> Claims(d, a),
         \A d \in Conn : Registered(d)' =>
           Registered(d) /\ current_user_address'[d] = current_user_address[d]
  PROVE  SessionFacts'
<1>1. OneClaim'
  BY DEF SessionFacts, OneClaim
<1>2. IndexAccurate'
  <2>1. \A c \in Conn : Registered(c)' => clients'[current_user_address'[c]] = c
    BY DEF SessionFacts, IndexAccurate
  <2>2. ASSUME NEW a \in Address, clients'[a] # None
        PROVE  Claims(clients[a], a)'
    <3>1. PICK d \in Conn : d = clients[a] /\ Claims(d, a)
      BY <2>2 DEF SessionFacts, IndexAccurate
    <3>2. Claims(d, a)'
      BY <3>1
    <3> QED BY <3>1, <3>2
  <2> QED BY <2>1, <2>2 DEF IndexAccurate
<1>3. PresenceAccurate'
  BY DEF SessionFacts, PresenceAccurate, ShownOnline
<1> QED BY <1>1, <1>2, <1>3 DEF SessionFacts

LEMMA TrustKeepsPresence ==
  ASSUME registry \in [Address -> RegistryEntry \cup {None}],
         NEW x \in Address, NEW y \in Address, NEW a \in Address
  PROVE  (AddTrust(x, y)[a] # None /\ AddTrust(x, y)[a].is_online) <=> ShownOnline(a)
<1>1. ASSUME NEW reg \in [Address -> RegistryEntry \cup {None}],
             NEW b \in Address, NEW d \in Address
      PROVE  /\ Trusting(reg, b, d) \in [Address -> RegistryEntry \cup {None}]
             /\ (Trusting(reg, b, d)[a] # None /\ Trusting(reg, b, d)[a].is_online)
                  <=> (reg[a] # None /\ reg[a].is_online)
  BY NoneAssumption DEF Trusting, RegistryEntry
<1> QED BY <1>1 DEF AddTrust, ShownOnline

LEMMA SessionInit == Init => SessionInv
<1> SUFFICES ASSUME Init PROVE SessionInv
  OBVIOUS
<1>1. SessionFacts
  BY DEF Init, SessionFacts, SessionShape, OneClaim, IndexAccurate, PresenceAccurate,
         Claims, Registered
<1> QED BY <1>1, TypeInit DEF SessionInv

LEMMA SessionStep == SessionInv /\ [Next]_vars => SessionInv'
<1> SUFFICES ASSUME SessionInv, [Next]_vars, OneSession PROVE SessionFacts'
  BY TypeStep DEF SessionInv
<1>0. TypeInv /\ TypeInv' /\ SessionFacts
  BY TypeStep DEF SessionInv
<1>t. /\ pc \in [Conn -> Label] /\ arg \in [Conn -> Address \cup {None}]
      /\ current_user_address \in [Conn -> Address \cup {None}]
      /\ clients \in [Address -> Conn \cup {None}]
      /\ registry \in [Address -> RegistryEntry \cup {None}]
      /\ SectionsReady
  BY <1>0 DEF TypeInv, TypeOK
<1>s. SessionShape /\ OneClaim
  BY <1>0 DEF SessionFacts
<1> USE <1>0, <1>t, <1>s, NoneAssumption
<1>1. ASSUME NEW c \in Conn, Accept(c) PROVE SessionFacts'
  BY <1>1, QuietSession
     DEF Accept, Goto, Claims, Registered, SessionShape, ShownOnline, shared
<1>2. ASSUME NEW c \in Conn, NEW n \in Name, NEW k \in Key, Register(c, n, k)
      PROVE  SessionFacts'
  <2> DEFINE b == FullAddress(n, k)
  <2>1. b \in Address
    BY AddressParts
  <2> HIDE DEF b
  <2>2. /\ pc[c] = "receive" /\ current_user_address[c] = None
        /\ \A d \in Conn : ~Claims(d, b)
    BY <1>2 DEF Register, Receives, Claimable, b
  <2>3. /\ pc' = [pc EXCEPT ![c] = "insert"] /\ arg' = [arg EXCEPT ![c] = b]
        /\ UNCHANGED <<current_user_address, clients>>
        /\ registry' = RegisterUser(b, k)
    BY <1>2 DEF Register, Goto, b
  <2>4. \A d \in Conn, a \in Address : Claims(d, a)' <=> Claims(d, a) \/ (d = c /\ a = b)
    BY <2>2, <2>3 DEF Claims
  <2>5. \A a \in Address : ShownOnline(a)' <=> ShownOnline(a) \/ a = b
    <3>1. RegisterUser(b, k)[b] \in RegistryEntry /\ RegisterUser(b, k)[b].is_online
      BY <2>1 DEF RegisterUser, RegistryEntry
    <3>2. \A a \in Address : a # b => RegisterUser(b, k)[a] = registry[a]
      BY <2>1 DEF RegisterUser
    <3> QED BY <2>1, <2>3, <3>1, <3>2 DEF ShownOnline
  <2>6. SessionShape' /\ OneClaim'
    BY <2>2, <2>3, <2>4 DEF SessionShape, OneClaim
  <2>7. IndexAccurate'
    <3>1. \A d \in Conn : Registered(d)' => Registered(d) /\ d # c
      BY <2>2, <2>3 DEF Registered
    <3>2. ASSUME NEW a \in Address, clients'[a] # None PROVE Claims(clients[a], a)'
      <4>1. PICK d \in Conn : d = clients[a] /\ Claims(d, a)
        BY <2>3, <3>2 DEF SessionFacts, IndexAccurate
      <4> QED BY <2>3, <2>4, <4>1
    <3> QED BY <2>3, <3>1, <3>2 DEF SessionFacts, IndexAccurate
  <2>8. PresenceAccurate'
    <3>1. \A d \in Conn : pc'[d] = "remove" <=> pc[d] = "remove"
      BY <2>2, <2>3
    <3>2. pc'[c] # "remove"
      BY <2>3
    <3> QED BY <2>1, <2>4, <2>5, <3>1, <3>2
            DEF SessionFacts, PresenceAccurate, ShownOnline
  <2> QED BY <2>6, <2>7, <2>8 DEF SessionFacts
<1>3. ASSUME NEW c \in Conn, InsertClient(c) PROVE SessionFacts'
  <2> DEFINE b == arg[c]
  <2>1. b \in Address /\ pc[c] = "insert" /\ current_user_address[c] = None
    BY <1>3 DEF InsertClient, SectionsReady, SessionShape
  <2>2. /\ pc' = [pc EXCEPT ![c] = "online"]
        /\ current_user_address' = [current_user_address EXCEPT ![c] = b]
        /\ clients' = [clients EXCEPT ![b] = c]
        /\ UNCHANGED <<registry, arg>>
    BY <1>3 DEF InsertClient, Goto
  <2>3. \A d \in Conn, a \in Address : Claims(d, a)' <=> Claims(d, a)
    BY <2>1, <2>2 DEF Claims
  <2>4. Claims(c, b) /\ \A a \in Address : Claims(c, a) => a = b
    BY <2>1 DEF Claims
  <2> HIDE DEF b
  <2>5. SessionShape' /\ OneClaim'
    BY <2>1, <2>2, <2>3 DEF SessionShape, OneClaim, b
  <2>6. ASSUME NEW d \in Conn, Registered(d)'
        PROVE  clients'[current_user_address'[d]] = d
    <3>1. CASE d = c
      BY <2>1, <2>2, <3>1
    <3>2. CASE d # c
      <4>1. Registered(d) /\ current_user_address'[d] = current_user_address[d]
        BY <2>2, <2>6, <3>2 DEF Registered
      <4>2. Claims(d, current_user_address[d]) /\ current_user_address[d] \in Address
        BY <4>1 DEF Registered, Claims
      <4>3. current_user_address[d] # b
        BY <2>1, <2>4, <3>2, <4>2 DEF OneClaim
      <4> QED BY <2>2, <4>1, <4>2, <4>3 DEF SessionFacts, IndexAccurate
    <3> QED BY <3>1, <3>2
  <2>7. ASSUME NEW a \in Address, clients'[a] # None PROVE Claims(clients[a], a)'
    <3>1. PICK d \in Conn : d = clients'[a] /\ Claims(d, a)
      BY <2>1, <2>2, <2>4, <2>7 DEF SessionFacts, IndexAccurate
    <3>2. Claims(d, a)'
      BY <2>3, <3>1
    <3> QED BY <3>1, <3>2
  <2>8. IndexAccurate'
    BY <2>6, <2>7 DEF IndexAccurate
  <2>9. PresenceAccurate'
    <3>1. \A d \in Conn : pc'[d] = "remove" <=> pc[d] = "remove"
      BY <2>1, <2>2
    <3> QED BY <2>2, <2>3, <3>1 DEF SessionFacts, PresenceAccurate
  <2> QED BY <2>5, <2>8, <2>9 DEF SessionFacts
<1>4. ASSUME NEW c \in Conn, MarkOnline(c) PROVE SessionFacts'
  <2>1. arg[c] \in Address /\ current_user_address[c] = arg[c] /\ pc[c] = "online"
    BY <1>4 DEF MarkOnline, SectionsReady, SessionShape
  <2>2. Claims(c, arg[c])
    BY <2>1 DEF Claims
  <2>3. ShownOnline(arg[c])
    BY <2>1, <2>2 DEF SessionFacts, PresenceAccurate, ShownOnline
  <2>4. \A a \in Address : ShownOnline(a)' <=> ShownOnline(a)
    BY <1>4, <2>1, <2>3 DEF MarkOnline, SetOnline, ShownOnline, RegistryEntry
  <2> QED BY <1>4, <2>4, QuietSession
             DEF MarkOnline, Goto, Claims, Registered, SessionShape
<1>5. ASSUME NEW c \in Conn, TakePending(c) PROVE SessionFacts'
  BY <1>5, QuietSession
     DEF TakePending, Goto, Claims, Registered, SessionShape, ShownOnline
<1>6. ASSUME NEW c \in Conn, SendPending(c) PROVE SessionFacts'
  BY <1>6, QuietSession
     DEF SendPending, Claims, Registered, SessionShape, ShownOnline, shared
<1>7. ASSUME NEW c \in Conn, FinishRegister(c) PROVE SessionFacts'
  BY <1>7, QuietSession
     DEF FinishRegister, Goto, Claims, Registered, SessionShape, ShownOnline, shared
<1>8. ASSUME NEW c \in Conn, NEW t \in Address, GetPublicKey(c, t) PROVE SessionFacts'
  <2>1. \A a \in Address : ShownOnline(a)' <=> ShownOnline(a)
    BY <1>8, TrustKeepsPresence DEF GetPublicKey, ShownOnline
  <2> QED BY <1>8, <2>1, QuietSession
             DEF GetPublicKey, Receives, Goto, Claims, Registered, SessionShape
<1>9. ASSUME NEW c \in Conn, LookupKey(c) PROVE SessionFacts'
  BY <1>9, QuietSession
     DEF LookupKey, Goto, Claims, Registered, SessionShape, ShownOnline, shared
<1>10. ASSUME NEW c \in Conn, NEW t \in Address, CheckStatus(c, t) PROVE SessionFacts'
  BY <1>10, QuietSession
     DEF CheckStatus, Claims, Registered, SessionShape, ShownOnline, shared, handler
<1>11. ASSUME NEW c \in Conn, NEW m \in Message, RejectMessage(c, m) PROVE SessionFacts'
  BY <1>11, QuietSession
     DEF RejectMessage, Claims, Registered, SessionShape, ShownOnline, shared, handler
<1>12. ASSUME NEW c \in Conn, NEW m \in Message, ForwardMessage(c, m) PROVE SessionFacts'
  BY <1>12, QuietSession
     DEF ForwardMessage, Claims, Registered, SessionShape, ShownOnline, shared, handler
<1>13. ASSUME NEW c \in Conn, NEW m \in Message, HoldMessage(c, m) PROVE SessionFacts'
  BY <1>13, QuietSession
     DEF HoldMessage, Receives, Goto, Claims, Registered, SessionShape, ShownOnline, shared
<1>14. ASSUME NEW c \in Conn, EnqueueMessage(c) PROVE SessionFacts'
  BY <1>14, QuietSession
     DEF EnqueueMessage, Goto, Claims, Registered, SessionShape, ShownOnline
<1>15. ASSUME NEW c \in Conn, EndReceive(c) PROVE SessionFacts'
  BY <1>15, QuietSession
     DEF EndReceive, Receives, Goto, Claims, Registered, SessionShape, ShownOnline, shared
<1>16. ASSUME NEW c \in Conn, MarkOffline(c) PROVE SessionFacts'
  <2> DEFINE b == current_user_address[c]
  <2>1. b \in Address /\ pc[c] = "offline" /\ Claims(c, b)
    BY <1>16 DEF MarkOffline, SectionsReady, Claims
  <2>2. /\ pc' = [pc EXCEPT ![c] = "remove"]
        /\ registry' = SetOffline(b)
        /\ UNCHANGED <<current_user_address, clients, arg>>
    BY <1>16 DEF MarkOffline, Goto
  <2>3. \A d \in Conn, a \in Address : Claims(d, a)' <=> Claims(d, a)
    BY <2>1, <2>2 DEF Claims
  <2>4. \A d \in Conn : Registered(d)' <=> Registered(d)
    BY <2>1, <2>2 DEF Registered
  <2>5. \A a \in Address : Claims(c, a) => a = b
    BY <2>1 DEF Claims
  <2>6. SessionShape' /\ OneClaim'
    BY <2>2, <2>3 DEF SessionShape, OneClaim
  <2> HIDE DEF b
  <2>7. \A a \in Address : ShownOnline(a)' <=> ShownOnline(a) /\ a # b
    BY <2>1, <2>2 DEF ShownOnline, SetOffline, RegistryEntry
  <2>8. ASSUME NEW a \in Address, clients'[a] # None PROVE Claims(clients[a], a)'
    <3>1. PICK d \in Conn : d = clients'[a] /\ Claims(d, a)
      BY <2>2, <2>8 DEF SessionFacts, IndexAccurate
    <3> QED BY <2>3, <3>1
  <2>9. IndexAccurate'
    BY <2>2, <2>4, <2>8 DEF SessionFacts, IndexAccurate
  <2>10. PresenceAccurate'
    <3>1. \A d \in Conn : pc'[d] # "remove" <=> pc[d] # "remove" /\ d # c
      BY <2>1, <2>2
    <3>2. ASSUME NEW a \in Address
          PROVE  ShownOnline(a)' <=> \E d \in Conn : Claims(d, a)' /\ pc'[d] # "remove"
      <4>1. CASE a = b
        BY <2>1, <2>3, <2>7, <3>1, <4>1 DEF OneClaim
      <4>2. CASE a # b
        BY <2>3, <2>5, <2>7, <3>1, <4>2 DEF SessionFacts, PresenceAccurate, ShownOnline
      <4> QED BY <4>1, <4>2
    <3> QED BY <3>2 DEF PresenceAccurate, ShownOnline
  <2> QED BY <2>6, <2>9, <2>10 DEF SessionFacts
<1>17. ASSUME NEW c \in Conn, RemoveClient(c) PROVE SessionFacts'
  <2> DEFINE b == current_user_address[c]
  <2>1. b \in Address /\ pc[c] = "remove" /\ Claims(c, b)
    BY <1>17 DEF RemoveClient, SectionsReady, Claims
  <2>2. /\ pc' = [pc EXCEPT ![c] = "closed"]
        /\ clients' = [clients EXCEPT ![b] = None]
        /\ UNCHANGED <<current_user_address, registry, arg>>
    BY <1>17 DEF RemoveClient, Goto
  <2>3. \A d \in Conn, a \in Address : Claims(d, a)' <=> Claims(d, a) /\ d # c
    BY <2>1, <2>2 DEF Claims
  <2>4. \A d \in Conn : Registered(d)' => Registered(d) /\ d # c
    BY <2>1, <2>2 DEF Registered
  <2>5. \A a \in Address : Claims(c, a) => a = b
    BY <2>1 DEF Claims
  <2>6. SessionShape' /\ OneClaim'
    BY <2>2, <2>3 DEF SessionShape, OneClaim
  <2> HIDE DEF b
  <2>7. ASSUME NEW d \in Conn, Registered(d)'
        PROVE  clients'[current_user_address'[d]] = d
    <3>1. Registered(d) /\ d # c
      BY <2>4, <2>7
    <3>2. Claims(d, current_user_address[d]) /\ current_user_address[d] \in Address
      BY <3>1 DEF Registered, Claims
    <3>3. current_user_address[d] # b
      BY <2>1, <3>1, <3>2 DEF OneClaim
    <3> QED BY <2>2, <3>1, <3>2, <3>3 DEF SessionFacts, IndexAccurate
  <2>8. ASSUME NEW a \in Address, clients'[a] # None PROVE Claims(clients[a], a)'
    <3>1. a # b /\ clients'[a] = clients[a]
      BY <2>1, <2>2, <2>8
    <3>2. PICK d \in Conn : d = clients'[a] /\ Claims(d, a)
      BY <2>8, <3>1 DEF SessionFacts, IndexAccurate
    <3>3. d # c
      BY <2>5, <3>1, <3>2
    <3> QED BY <2>3, <3>2, <3>3
  <2>9. IndexAccurate'
    BY <2>7, <2>8 DEF IndexAccurate
  <2>10. PresenceAccurate'
    <3>1. \A d \in Conn : d # c => (pc'[d] = "remove" <=> pc[d] = "remove")
      BY <2>2
    <3> QED BY <2>1, <2>2, <2>3, <3>1 DEF SessionFacts, PresenceAccurate
  <2> QED BY <2>6, <2>9, <2>10 DEF SessionFacts
<1>18. ASSUME NEW c \in Conn, SendToSocket(c) PROVE SessionFacts'
  BY <1>18, QuietSession
     DEF SendToSocket, Claims, Registered, SessionShape, ShownOnline, shared, handler
<1>19. ASSUME NEW c \in Conn, StopSendTask(c) PROVE SessionFacts'
  BY <1>19, QuietSession
     DEF StopSendTask, Claims, Registered, SessionShape, ShownOnline, shared, handler
<1>20. ASSUME NEW c \in Conn, LoseLink(c) PROVE SessionFacts'
  BY <1>20, QuietSession
     DEF LoseLink, Claims, Registered, SessionShape, ShownOnline, shared, handler
<1>21. CASE Tick
  BY <1>21, QuietSession
     DEF Tick, Claims, Registered, SessionShape, ShownOnline, shared, handler
<1>22. CASE Restart
  BY <1>22 DEF Restart, SessionFacts, SessionShape, OneClaim, IndexAccurate,
               PresenceAccurate, Claims, Registered
<1>23. CASE UNCHANGED vars
  BY <1>23, QuietSession
     DEF vars, Claims, Registered, SessionShape, ShownOnline, shared, handler
<1> QED BY <1>1, <1>2, <1>3, <1>4, <1>5, <1>6, <1>7, <1>8, <1>9, <1>10, <1>11, <1>12,
           <1>13, <1>14, <1>15, <1>16, <1>17, <1>18, <1>19, <1>20, <1>21, <1>22, <1>23
        DEF Next, Request, HandlerStep, SendTaskStep

\* With one session per address the index holds exactly the live handlers.
THEOREM IndexIsAccurate == Spec => []IndexAccurate
<1>1. SessionInv => IndexAccurate
  BY DEF SessionInv, SessionFacts, IndexAccurate
<1> QED BY SessionInit, SessionStep, <1>1, PTL DEF Spec

\* With one session per address a user is shown online exactly while a handler
\* stands for the address.
THEOREM PresenceIsAccurate == Spec => []PresenceAccurate
<1>1. SessionInv => PresenceAccurate
  BY DEF SessionInv, SessionFacts, PresenceAccurate
<1> QED BY SessionInit, SessionStep, <1>1, PTL DEF Spec

-----------------------------------------------------------------------------
(* The registry: keys fit addresses, and entries persist. *)

\* What a step does to the registry and the clock: the process restarts, one
\* entry is registered, shown online or offline, or trust is recorded.
LEMMA RegistryStep ==
  ASSUME TypeInv, [Next]_vars
  PROVE  /\ now' \in Nat /\ now <= now'
         /\ \/ restarts' # restarts /\ registry' = [a \in Address |-> None]
            \/ restarts' = restarts /\ registry' = registry
            \/ /\ restarts' = restarts
               /\ \E n \in Name, k \in Key : registry' = RegisterUser(FullAddress(n, k), k)
            \/ /\ restarts' = restarts
               /\ \E a \in Address : registry' = SetOnline(a) \/ registry' = SetOffline(a)
            \/ /\ restarts' = restarts
               /\ \E a, b \in Address : registry' = AddTrust(a, b)
<1> DEFINE Goal == /\ now' \in Nat /\ now <= now'
                   /\ \/ restarts' # restarts /\ registry' = [a \in Address |-> None]
                      \/ restarts' = restarts /\ registry' = registry
                      \/ /\ restarts' = restarts
                         /\ \E n \in Name, k \in Key :
                              registry' = RegisterUser(FullAddress(n, k), k)
                      \/ /\ restarts' = restarts
                         /\ \E a \in Address :
                              registry' = SetOnline(a) \/ registry' = SetOffline(a)
                      \/ /\ restarts' = restarts
                         /\ \E a, b \in Address : registry' = AddTrust(a, b)
<1>0. now \in Nat /\ restarts \in Nat
  BY DEF TypeInv, TypeOK
<1> SUFFICES Goal
  OBVIOUS
<1>1. ASSUME NEW c \in Conn, NEW n \in Name, NEW k \in Key, Register(c, n, k) PROVE Goal
  BY <1>0, <1>1 DEF Register, world
<1>2. ASSUME NEW c \in Conn, MarkOnline(c) \/ MarkOffline(c) PROVE Goal
  <2>1. MarkOnline(c) => arg[c] \in Address
    BY DEF MarkOnline, TypeInv, SectionsReady
  <2>2. MarkOffline(c) => current_user_address[c] \in Address
    BY DEF MarkOffline, TypeInv, SectionsReady
  <2>3. now' = now /\ restarts' = restarts
    BY <1>2 DEF MarkOnline, MarkOffline, world
  <2>4. CASE MarkOnline(c)
    <3>1. registry' = SetOnline(arg[c])
      BY <2>4 DEF MarkOnline
    <3> QED BY <1>0, <2>1, <2>3, <2>4, <3>1
  <2>5. CASE MarkOffline(c)
    <3>1. registry' = SetOffline(current_user_address[c])
      BY <2>5 DEF MarkOffline
    <3> QED BY <1>0, <2>2, <2>3, <2>5, <3>1
  <2> QED BY <1>2, <2>4, <2>5
<1>3. ASSUME NEW c \in Conn, NEW t \in Address, GetPublicKey(c, t) PROVE Goal
  <2>1. current_user_address[c] # None => current_user_address[c] \in Address
    BY DEF TypeInv, TypeOK
  <2> QED BY <1>0, <1>3, <2>1 DEF GetPublicKey, world
<1>4. ASSUME NEW c \in Conn,
             \/ Accept(c) \/ InsertClient(c) \/ TakePending(c) \/ SendPending(c)
             \/ FinishRegister(c) \/ LookupKey(c) \/ EnqueueMessage(c) \/ EndReceive(c)
             \/ RemoveClient(c) \/ SendToSocket(c) \/ StopSendTask(c) \/ LoseLink(c)
             \/ \E t \in Address : CheckStatus(c, t)
             \/ \E m \in Message : RejectMessage(c, m) \/ ForwardMessage(c, m) \/ HoldMessage(c, m)
      PROVE  Goal
  <2>1. now' = now /\ restarts' = restarts /\ registry' = registry
    BY <1>4 DEF Accept, InsertClient, TakePending, SendPending, FinishRegister, LookupKey,
                EnqueueMessage, EndReceive, RemoveClient, SendToSocket, StopSendTask, LoseLink,
                CheckStatus, RejectMessage, ForwardMessage, HoldMessage, world, shared
  <2> QED BY <1>0, <2>1
<1>5. CASE Tick
  BY <1>0, <1>5 DEF Tick, shared
<1>6. CASE Restart
  BY <1>0, <1>6 DEF Restart
<1>7. CASE UNCHANGED vars
  BY <1>0, <1>7 DEF vars, world, shared
<1> HIDE DEF Goal
<1> QED BY <1>1, <1>2, <1>3, <1>4, <1>5, <1>6, <1>7 DEF Next, Request, HandlerStep, SendTaskStep

\* An entry shows a key with the address's fingerprint, and a time in the past.
Sound(reg, a) ==
  reg[a] # None => /\ PeerIdOf[reg[a].public_key] = a[2]
                   /\ reg[a].last_seen # None => reg[a].last_seen <= now

RegistryInv == TypeInv /\ \A a \in Address : Sound(registry, a)

LEMMA TrustingFields ==
  ASSUME NEW reg \in [Address -> RegistryEntry \cup {None}],
         NEW x \in Address, NEW y \in Address, NEW a \in Address
  PROVE  /\ Trusting(reg, x, y) \in [Address -> RegistryEntry \cup {None}]
         /\ Trusting(reg, x, y)[a] # None <=> reg[a] # None
         /\ reg[a] # None =>
              /\ Trusting(reg, x, y)[a].public_key = reg[a].public_key
              /\ Trusting(reg, x, y)[a].last_seen = reg[a].last_seen
              /\ reg[a].trusted_peers \subseteq Trusting(reg, x, y)[a].trusted_peers
  BY NoneAssumption DEF Trusting, RegistryEntry

\* No update of the registry forgets an entry, revokes a trust, or turns the
\* time of the last visit back.
Kept(old, new, a) ==
  old[a] # None =>
    /\ new[a] # None
    /\ old[a].trusted_peers \subseteq new[a].trusted_peers
    /\ old[a].last_seen # None =>
         /\ new[a].last_seen # None
         /\ old[a].last_seen <= new[a].last_seen

LEMMA RegistryUpdates ==
  ASSUME RegistryInv, NEW a \in Address, NEW b \in Address
  PROVE  /\ \A k \in Key : PeerIdOf[k] = a[2] =>
              /\ Kept(registry, RegisterUser(a, k), b)
              /\ Sound(RegisterUser(a, k), b)
         /\ Kept(registry, SetOnline(a), b)
         /\ Sound(SetOnline(a), b)
         /\ Kept(registry, SetOffline(a), b)
         /\ Sound(SetOffline(a), b)
<1>1. /\ registry \in [Address -> RegistryEntry \cup {None}] /\ now \in Nat
      /\ registry[b] # None =>
           /\ registry[b] \in RegistryEntry
           /\ PeerIdOf[registry[b].public_key] = b[2]
           /\ registry[b].last_seen # None =>
                registry[b].last_seen \in Nat /\ registry[b].last_seen <= now
  BY DEF RegistryInv, TypeInv, TypeOK, Sound, RegistryEntry
<1>2. ASSUME NEW new, new[b] = registry[b]
      PROVE  /\ Kept(registry, new, b)
             /\ Sound(new, b)
  BY <1>1, <1>2 DEF Kept, Sound
<1>3. ASSUME NEW new, new[b] \in RegistryEntry,
             PeerIdOf[new[b].public_key] = b[2],
             registry[b] # None =>
               /\ registry[b].trusted_peers \subseteq new[b].trusted_peers
               /\ new[b].last_seen \in {registry[b].last_seen, now},
             registry[b] = None => new[b].last_seen = None
      PROVE  /\ Kept(registry, new, b)
             /\ Sound(new, b)
  BY <1>1, <1>3, NoneAssumption DEF Kept, Sound
<1>4. ASSUME NEW k \in Key, PeerIdOf[k] = a[2]
      PROVE  /\ Kept(registry, RegisterUser(a, k), b)
             /\ Sound(RegisterUser(a, k), b)
  <2>1. CASE a # b
    BY <1>1, <1>2, <2>1 DEF RegisterUser
  <2>2. CASE a = b
    <3>1. /\ RegisterUser(a, k)[b] \in RegistryEntry
          /\ RegisterUser(a, k)[b].public_key = k
          /\ registry[b] # None =>
               /\ RegisterUser(a, k)[b].trusted_peers = registry[b].trusted_peers
               /\ RegisterUser(a, k)[b].last_seen = registry[b].last_seen
          /\ registry[b] = None => RegisterUser(a, k)[b].last_seen = None
      BY <1>1, <2>2 DEF RegisterUser, RegistryEntry
    <3> QED BY <1>3, <1>4, <2>2, <3>1
  <2> QED BY <2>1, <2>2
<1>5. ASSUME NEW new \in {SetOnline(a), SetOffline(a)}
      PROVE  /\ Kept(registry, new, b)
             /\ Sound(new, b)
  <2>1. CASE a # b \/ registry[a] = None
    <3>1. new[b] = registry[b]
      BY <1>1, <2>1 DEF SetOnline, SetOffline
    <3> QED BY <1>2, <3>1
  <2>2. CASE a = b /\ registry[a] # None
    <3>1. \/ new[b] = [registry[b] EXCEPT !.is_online = TRUE]
          \/ new[b] = [registry[b] EXCEPT !.is_online = FALSE, !.last_seen = now]
      BY <1>1, <2>2 DEF SetOnline, SetOffline
    <3>2. /\ new[b] \in RegistryEntry
          /\ new[b].public_key = registry[b].public_key
          /\ new[b].trusted_peers = registry[b].trusted_peers
          /\ new[b].last_seen \in {registry[b].last_seen, now}
      BY <1>1, <2>2, <3>1 DEF RegistryEntry
    <3> QED BY <1>1, <1>3, <2>2, <3>2
  <2> QED BY <2>1, <2>2
<1> QED BY <1>4, <1>5

LEMMA TrustUpdate ==
  ASSUME RegistryInv, NEW a \in Address, NEW d \in Address, NEW b \in Address
  PROVE  /\ Kept(registry, AddTrust(a, d), b)
         /\ Sound(AddTrust(a, d), b)
<1> DEFINE once == Trusting(registry, a, d)
<1>1. /\ registry \in [Address -> RegistryEntry \cup {None}] /\ now \in Nat
      /\ registry[b] # None =>
           /\ PeerIdOf[registry[b].public_key] = b[2]
           /\ registry[b].last_seen # None =>
                registry[b].last_seen \in Nat /\ registry[b].last_seen <= now
  BY DEF RegistryInv, TypeInv, TypeOK, Sound, RegistryEntry
<1>2. /\ once \in [Address -> RegistryEntry \cup {None}]
      /\ once[b] # None <=> registry[b] # None
      /\ registry[b] # None =>
           /\ once[b].public_key = registry[b].public_key
           /\ once[b].last_seen = registry[b].last_seen
           /\ registry[b].trusted_peers \subseteq once[b].trusted_peers
  BY <1>1, TrustingFields
<1> HIDE DEF once
<1>3. /\ Trusting(once, d, a)[b] # None <=> once[b] # None
      /\ once[b] # None =>
           /\ Trusting(once, d, a)[b].public_key = once[b].public_key
           /\ Trusting(once, d, a)[b].last_seen = once[b].last_seen
           /\ once[b].trusted_peers \subseteq Trusting(once, d, a)[b].trusted_peers
  BY <1>2, TrustingFields
<1>4. AddTrust(a, d) = Trusting(once, d, a)
  BY DEF AddTrust, once
<1>5. Kept(registry, Trusting(once, d, a), b)
  BY <1>1, <1>2, <1>3 DEF Kept
<1> QED BY <1>1, <1>2, <1>3, <1>4, <1>5 DEF Sound

LEMMA RegistryInit == Init => RegistryInv
<1> SUFFICES ASSUME Init PROVE RegistryInv
  OBVIOUS
<1>1. \A a \in Address : Sound(registry, a)
  BY DEF Init, Sound
<1> QED BY <1>1, TypeInit DEF RegistryInv

LEMMA RegistryInvStep ==
  ASSUME RegistryInv, [Next]_vars
  PROVE  /\ RegistryInv'
         /\ restarts' = restarts => \A b \in Address : Kept(registry, registry', b)
<1>0. TypeInv /\ TypeInv'
  BY TypeStep DEF RegistryInv
<1>1. now \in Nat /\ now' \in Nat /\ now <= now'
  BY <1>0, RegistryStep DEF TypeInv, TypeOK
<1>2. \A b \in Address : registry[b] # None =>
        /\ PeerIdOf[registry[b].public_key] = b[2]
        /\ registry[b].last_seen # None =>
             registry[b].last_seen \in Nat /\ registry[b].last_seen <= now
  BY DEF RegistryInv, TypeInv, TypeOK, Sound, RegistryEntry
<1> DEFINE Good(b) ==
      /\ restarts' = restarts => Kept(registry, registry', b)
      /\ Sound(registry', b)
<1>3. ASSUME NEW b \in Address PROVE Good(b)
  <2>1. CASE restarts' # restarts /\ registry' = [a \in Address |-> None]
    BY <2>1 DEF Sound
  <2>2. CASE registry' = registry
    BY <1>2, <2>2 DEF Kept, Sound
  <2>3. ASSUME NEW n \in Name, NEW k \in Key, registry' = RegisterUser(FullAddress(n, k), k)
        PROVE  Good(b)
    <3>1. FullAddress(n, k) \in Address /\ PeerIdOf[k] = FullAddress(n, k)[2]
      BY AddressParts DEF FullAddress
    <3> QED BY <2>3, <3>1, RegistryUpdates
  <2>4. ASSUME NEW a \in Address, registry' = SetOnline(a) \/ registry' = SetOffline(a)
        PROVE  Good(b)
    BY <2>4, RegistryUpdates
  <2>5. ASSUME NEW a \in Address, NEW d \in Address, registry' = AddTrust(a, d)
        PROVE  Good(b)
    BY <2>5, TrustUpdate
  <2> HIDE DEF Good
  <2> QED BY <1>0, <2>1, <2>2, <2>3, <2>4, <2>5, RegistryStep
<1>4. \A b \in Address : registry'[b] # None /\ registry'[b].last_seen # None
        => registry'[b].last_seen \in Nat
  BY <1>0 DEF TypeInv, TypeOK, RegistryEntry
<1>5. ASSUME NEW b \in Address PROVE Sound(registry, b)'
  BY <1>1, <1>3, <1>4 DEF Sound
<1> QED BY <1>0, <1>3, <1>5 DEF RegistryInv

\* Every key is shown under an address that carries its fingerprint.
THEOREM KeysFitAddresses == Spec => []KeyFitsAddress
<1>1. RegistryInv /\ [Next]_vars => RegistryInv'
  BY RegistryInvStep
<1>2. RegistryInv => KeyFitsAddress
  BY DEF RegistryInv, Sound, KeyFitsAddress
<1> QED BY RegistryInit, <1>1, <1>2, PTL DEF Spec

\* While the process lives no entry is forgotten, no trust is revoked, and the
\* time at which a user was last seen never goes back.
THEOREM RegistryEntriesPersist == Spec => EntriesPersist
<1> DEFINE Step == restarts' = restarts =>
                     \A a \in Address : registry[a] # None =>
                       /\ registry'[a] # None
                       /\ registry[a].trusted_peers \subseteq registry'[a].trusted_peers
                       /\ registry[a].last_seen # None =>
                            /\ registry'[a].last_seen # None
                            /\ registry[a].last_seen <= registry'[a].last_seen
<1>1. RegistryInv /\ [Next]_vars => RegistryInv' /\ Step
  BY RegistryInvStep DEF Kept
<1>2. EntriesPersist <=> [][Step]_vars
  BY DEF EntriesPersist
<1> HIDE DEF Step
<1> QED BY RegistryInit, <1>1, <1>2, PTL DEF Spec
=============================================================================
