------------------------ MODULE ChatSession_proofs ------------------------
(***************************************************************************)
(* Proofs about ChatSession for any clients, connections, accounts,        *)
(* contacts and bounds: its types, who knows a session key, which messages *)
(* the server takes, what a chat shows and what it holds.                  *)
(***************************************************************************)
EXTENDS ChatSession, SequenceTheorems, FiniteSetTheorems, TLAPS

-----------------------------------------------------------------------------
(* Types *)

\* What a client that never opened a chat sends and is sent.
Unasked    == {r \in ClientMessage : r.kind # "get_public_key"}
Unanswered == {r \in ServerResponse : r.kind # "key_response"}

\* A client finds what it uses: an open chat has a peer, a connection in use is its
\* own and served, and a key is only asked for by a client that has opened a chat.
ClientReady(c) ==
  /\ mode[c] = "chat" => active_peer[c] \in Account
  /\ net_client[c] = None => from_server[c] = <<>>
  /\ net_client[c] # None =>
       Owner[net_client[c]] = c /\ handler[net_client[c]] \notin {"idle", "closed"}
  /\ active_peer[c] = None =>
       /\ from_server[c] \in Seq(Unanswered)
       /\ net_client[c] # None => to_server[net_client[c]] \in Seq(Unasked)

\* A handler finds what it uses: it registers what its next request names, and
\* flushes the queue of an account that it registered.
HandlerReady(k) ==
  /\ handler[k] \in {"idle", "closed"} => to_server[k] = <<>>
  /\ handler[k] # "receive" => held[k] = <<>>
  /\ handler[k] = "insert" => to_server[k] # <<>> /\ Head(to_server[k]).kind = "register"
  /\ handler[k] = "flush" => current_user_address[k] # None

TypeInv ==
  /\ TypeOK
  /\ \A c \in Client : ClientReady(c)
  /\ \A k \in Conn : HandlerReady(k)

\* None is none of the values that it stands beside.
LEMMA NoneIsApart ==
  /\ None \notin Account /\ None \notin Conn /\ None \notin AesKey /\ None \notin Text
  /\ Home \in [Account -> Client] /\ Owner \in [Conn -> Client]
  BY ChatAssumption

\* What a client sends and stores is well formed.
LEMMA MessageType ==
  ASSUME TypeOK, NEW c \in Client, NEW p \in Account
  PROVE  /\ \A pub \in Account, key \in AesKey : KeyInit(c, p, pub, key) \in Message
         /\ \A key \in AesKey, text \in Text :
              MessageTo(c, p, [kind |-> "secure_text", key |-> key, text |-> text]) \in Message
         /\ \A text \in Text : MessageTo(c, p, [kind |-> "plain", text |-> text]) \in Message
         /\ FreshKey(c, p) \in AesKey
         /\ [from |-> account[c], to |-> p, nr |-> texts] \in Text
  BY DEF TypeOK, KeyInit, MessageTo, Message, Payload, FreshKey, AesKey, Text

\* Requests and responses of one kind.
LEMMA Kinds ==
  /\ Message \subseteq Unasked /\ Message \subseteq Unanswered
  /\ Message \subseteq ClientMessage /\ Message \subseteq ServerResponse
  /\ \A r \in ClientMessage : r.kind = "message" => r \in Message
  /\ \A r \in ClientMessage : r.kind = "register" => r.address \in Account
  /\ \A r \in ClientMessage : r.kind = "get_public_key" => r.target \in Account
  /\ \A r \in ServerResponse : r.kind = "message" => r \in Message
  /\ \A r \in ServerResponse : r.kind = "key_response" => r.public_key \in Account
  BY DEF Message, ClientMessage, ServerResponse, Unasked, Unanswered

\* Requests and responses without data of interest.
LEMMA PlainKinds ==
  /\ [kind |-> "error"] \in Unanswered /\ [kind |-> "error"] \in ServerResponse
  /\ \A a \in Account : /\ [kind |-> "key_response", public_key |-> a] \in ServerResponse
                        /\ [kind |-> "get_public_key", target |-> a] \in ClientMessage
                        /\ [kind |-> "register", address |-> a] \in Unasked
                        /\ [kind |-> "register", address |-> a] \in ClientMessage
  BY DEF ClientMessage, ServerResponse, Unasked, Unanswered

\* The messages that carry one kind of payload.
LEMMA PayloadKinds ==
  ASSUME NEW m \in Message
  PROVE  /\ m.kind = "message" /\ m.from \in Account /\ m.to \in Account
         /\ m.payload.kind = "key_init" =>
              m.payload.key \in AesKey /\ m.payload.sealed_for \in Account
         /\ m.payload.kind = "secure_text" => m.payload.key \in AesKey /\ m.payload.text \in Text
  BY DEF Message, Payload

\* Sequences keep their type under the operations of the channels.
LEMMA SeqType ==
  ASSUME NEW S
  PROVE  /\ <<>> \in Seq(S)
         /\ \A s \in Seq(S), x \in S : Append(s, x) \in Seq(S)
         /\ \A s, t \in Seq(S) : s \o t \in Seq(S)
         /\ \A s \in Seq(S) : s # <<>> => Head(s) \in S /\ Tail(s) \in Seq(S)
         /\ \A x \in S : <<x>> \in Seq(S)
  OBVIOUS

\* What is put behind a sequence leaves its head.
LEMMA HeadStays ==
  ASSUME NEW S, NEW s \in Seq(S), s # <<>>, NEW t \in Seq(S)
  PROVE  s \o t # <<>> /\ Head(s \o t) = Head(s)
  OBVIOUS

\* LIMIT returns a part of the rows.
LEMMA LoadedType ==
  ASSUME NEW rows \in Seq(Row)
  PROVE  /\ Loaded(rows) \in Seq(Row)
         /\ Len(rows) <= HistoryLimit => Loaded(rows) = rows
<1>1. HistoryLimit \in Nat
  BY ChatAssumption
<1>2. Len(rows) \in Nat
  BY LenProperties
<1>. DEFINE n == IF Len(rows) < HistoryLimit THEN Len(rows) ELSE HistoryLimit
<1>3. n \in 0 .. Len(rows)
  BY <1>1, <1>2
<1>4. \A i \in 1 .. n : rows[i] \in Row
  BY <1>3, ElementOfSeq
<1>5. SubSeq(rows, 1, n) \in Seq(Row)
  BY <1>3, <1>4, SubSeqProperties
<1>6. ASSUME Len(rows) <= HistoryLimit PROVE SubSeq(rows, 1, n) = rows
  <2>1. n = Len(rows)
    BY <1>1, <1>2, <1>6
  <2> QED
    BY <2>1, SubSeqFull
<1> QED
  BY <1>5, <1>6 DEF Loaded

\* A row of a SecureText.
LEMMA RowType ==
  ASSUME TypeOK, NEW c \in Client, NEW m \in Message, m.payload.kind = "secure_text"
  PROVE  RowOf(c, m) \in Row /\ RowOf(c, m).sender = m.from
  BY PayloadKinds DEF RowOf, Row

LEMMA TypeInit == Init => TypeInv
<1>. SUFFICES ASSUME Init PROVE TypeInv
  OBVIOUS
<1>1. TypeOK
  BY NoneIsApart, SeqType DEF Init, TypeOK
<1>2. \A c \in Client : ClientReady(c)
  BY SeqType DEF Init, ClientReady
<1>3. \A k \in Conn : HandlerReady(k)
  BY DEF Init, HandlerReady
<1> QED
  BY <1>1, <1>2, <1>3 DEF TypeInv

\* A client that has opened a chat, or gets a key, knows its peer.
LEMMA PeerKnown ==
  ASSUME TypeInv, NEW c \in Client
  PROVE  /\ mode[c] = "chat" => active_peer[c] \in Account
         /\ from_server[c] # <<>> /\ Head(from_server[c]).kind = "key_response"
              => active_peer[c] \in Account
<1>1. active_peer[c] \in Account \cup {None} /\ ClientReady(c)
  BY DEF TypeInv, TypeOK
<1>2. ASSUME from_server[c] # <<>>, Head(from_server[c]).kind = "key_response"
      PROVE  active_peer[c] # None
  BY <1>1, <1>2, SeqType DEF ClientReady, Unanswered
<1> QED
  BY <1>1, <1>2 DEF ClientReady

\* The connection in use is of the client that uses it, and no other's.
LEMMA LinkOwner ==
  ASSUME TypeInv, NEW c \in Client, net_client[c] # None
  PROVE  /\ net_client[c] \in Conn /\ Owner[net_client[c]] = c
         /\ handler[net_client[c]] \notin {"idle", "closed"}
         /\ \A d \in Client : net_client[d] = net_client[c] => d = c
<1>1. net_client[c] \in Conn /\ ClientReady(c)
  BY DEF TypeInv, TypeOK
<1>2. \A d \in Client : net_client[d] # None => Owner[net_client[d]] = d
  BY DEF TypeInv, ClientReady
<1> QED
  BY <1>1, <1>2 DEF ClientReady

\* Requests that a client sends go behind those on its connection.
LEMMA SentType ==
  ASSUME TypeInv, NEW c \in Client, NEW requests \in Seq(ClientMessage)
  PROVE  /\ Sent(c, requests) \in [Conn -> Seq(ClientMessage)]
         /\ \A k \in Conn : Sent(c, requests)[k] =
              IF k = net_client[c] THEN to_server[k] \o requests ELSE to_server[k]
<1>1. to_server \in [Conn -> Seq(ClientMessage)] /\ net_client[c] \in Conn \cup {None}
  BY DEF TypeInv, TypeOK
<1>2. CASE net_client[c] = None
  BY <1>1, <1>2, NoneIsApart DEF Sent
<1>3. CASE net_client[c] # None
  <2>1. net_client[c] \in Conn
    BY <1>1, <1>3
  <2>2. Sent(c, requests) = [to_server EXCEPT ![net_client[c]] = @ \o requests]
    BY <1>3 DEF Sent
  <2>3. to_server[net_client[c]] \o requests \in Seq(ClientMessage)
    BY <1>1, <2>1, SeqType
  <2> QED
    BY <1>1, <2>1, <2>2, <2>3
<1> QED
  BY <1>2, <1>3

\* Nothing that a client sends disturbs the handlers or the other clients.
LEMMA SendReady ==
  ASSUME TypeInv, NEW c \in Client, NEW requests \in Seq(ClientMessage),
         to_server' = Sent(c, requests), UNCHANGED <<net_client, server>>
  PROVE  /\ to_server' \in [Conn -> Seq(ClientMessage)]
         /\ \A k \in Conn : HandlerReady(k)'
         /\ \A d \in Client : d # c /\ net_client[d] # None =>
              to_server'[net_client[d]] = to_server[net_client[d]]
<1>1. to_server' \in [Conn -> Seq(ClientMessage)]
  BY SentType
<1>2. ASSUME NEW k \in Conn PROVE HandlerReady(k)'
  <2>1. CASE k # net_client[c]
    BY <2>1, SentType DEF HandlerReady, TypeInv, server
  <2>2. CASE k = net_client[c]
    <3>1. handler[k] \notin {"idle", "closed"}
      BY <2>2, LinkOwner, NoneIsApart
    <3>2. to_server'[k] = to_server[k] \o requests /\ to_server[k] \in Seq(ClientMessage)
      BY <2>2, SentType DEF TypeInv, TypeOK
    <3>3. to_server[k] # <<>> => to_server'[k] # <<>> /\ Head(to_server'[k]) = Head(to_server[k])
      BY <3>2, HeadStays
    <3> QED
      BY <3>1, <3>3 DEF HandlerReady, TypeInv, server
  <2> QED
    BY <2>1, <2>2
<1>3. ASSUME NEW d \in Client, d # c, net_client[d] # None
      PROVE  to_server'[net_client[d]] = to_server[net_client[d]]
  <2>1. net_client[d] \in Conn /\ net_client[d] # net_client[c]
    BY <1>3, LinkOwner
  <2> QED
    BY <2>1, SentType
<1> QED
  BY <1>1, <1>2, <1>3

\* The other clients' part of a step of client c.
LEMMA OthersReady ==
  ASSUME TypeInv, NEW c \in Client, NEW d \in Client, d # c,
         mode'[d] = mode[d], active_peer'[d] = active_peer[d], net_client'[d] = net_client[d],
         from_server'[d] = from_server[d],
         net_client[d] # None =>
           /\ to_server'[net_client[d]] = to_server[net_client[d]]
           /\ handler'[net_client[d]] = handler[net_client[d]]
  PROVE  ClientReady(d)'
  BY DEF TypeInv, ClientReady

\* What the handlers push reaches clients that use the connection.
LEMMA PushType ==
  ASSUME TypeInv, NEW k \in Conn, NEW r \in ServerResponse
  PROVE  /\ Push(k, r) \in [Client -> Seq(ServerResponse)]
         /\ \A d \in Client : Push(k, r)[d] =
              IF net_client[d] = k THEN Append(from_server[d], r) ELSE from_server[d]
<1>1. from_server \in [Client -> Seq(ServerResponse)] /\ Owner[k] \in Client
  BY NoneIsApart DEF TypeInv, TypeOK
<1>2. \A d \in Client : net_client[d] = k => d = Owner[k]
  BY LinkOwner, NoneIsApart
<1>3. Append(from_server[Owner[k]], r) \in Seq(ServerResponse)
  BY <1>1, SeqType
<1> QED
  BY <1>1, <1>2, <1>3 DEF Push

\* A step that sends keeps the types and readiness of what it does not send.
LEMMA Sends ==
  ASSUME TypeInv, NEW c \in Client, NEW requests \in Seq(ClientMessage),
         to_server' = Sent(c, requests), UNCHANGED <<net_client, server>>,
         active_peer'[c] # None,
         mode'[c] = "chat" => active_peer'[c] \in Account,
         from_server[c] = <<>> => from_server'[c] = <<>>,
         \A d \in Client : d # c => /\ mode'[d] = mode[d] /\ active_peer'[d] = active_peer[d]
                                    /\ from_server'[d] = from_server[d]
  PROVE  /\ to_server' \in [Conn -> Seq(ClientMessage)]
         /\ \A d \in Client : ClientReady(d)'
         /\ \A k \in Conn : HandlerReady(k)'
<1>1. ASSUME NEW d \in Client PROVE ClientReady(d)'
  <2>1. CASE d = c
    BY <2>1 DEF TypeInv, ClientReady, server
  <2>2. CASE d # c
    BY <2>2, SendReady, OthersReady DEF server
  <2> QED
    BY <2>1, <2>2
<1> QED
  BY <1>1, SendReady

\* The handlers' part of a step that leaves the requests and handlers alone.
LEMMA HandlersReady ==
  ASSUME TypeInv, UNCHANGED <<to_server, server>>
  PROVE  \A k \in Conn : HandlerReady(k)'
  BY DEF TypeInv, HandlerReady, server

LEMMA TypePress ==
  ASSUME TypeInv, NEW c \in Client, Press(c)
  PROVE  TypeInv'
<1>0. TypeOK
  BY DEF TypeInv
<1>1. ASSUME NEW p \in Account, OpenChat(c, p) PROVE TypeInv'
  <2>1. Loaded(chat_db[c][p]) \in Seq(Row)
    BY <1>0, LoadedType DEF TypeOK
  <2>. DEFINE requests == <<[kind |-> "get_public_key", target |-> p]>>
  <2>2. requests \in Seq(ClientMessage) /\ to_server' = Sent(c, requests)
    BY <1>1, PlainKinds, SeqType DEF OpenChat
  <2>3. /\ active_peer'[c] = p /\ mode'[c] = "chat"
        /\ \A d \in Client : d # c => mode'[d] = mode[d] /\ active_peer'[d] = active_peer[d]
        /\ UNCHANGED <<net_client, server, from_server>>
    BY <1>0, <1>1 DEF OpenChat, TypeOK
  <2>. HIDE DEF requests
  <2>4. /\ to_server' \in [Conn -> Seq(ClientMessage)]
        /\ \A d \in Client : ClientReady(d)'
        /\ \A k \in Conn : HandlerReady(k)'
    BY <2>2, <2>3, Sends, NoneIsApart
  <2>5. TypeOK'
    <3>1. /\ mode' \in [Client -> {"auth", "peers", "chat"}]
          /\ active_peer' \in [Client -> Account \cup {None}]
          /\ message_history' \in [Client -> Seq(Row)]
          /\ unread_counts' \in [Client -> [Account -> Nat]]
          /\ opens' \in Nat
      BY <1>0, <1>1, <2>1 DEF TypeOK, OpenChat
    <3>2. UNCHANGED <<account, stored, ephemeral_aes_keys, net_client, from_server, server,
                      keys, texts, logins>>
      BY <1>1 DEF OpenChat
    <3> QED
      BY <1>0, <2>4, <3>1, <3>2 DEF TypeOK, stored, server
  <2> QED
    BY <2>4, <2>5 DEF TypeInv
<1>2. CASE CloseChat(c)
  <2>1. TypeOK'
    BY <1>0, <1>2 DEF TypeOK, CloseChat, stored, wires, server, counters
  <2>2. \A k \in Conn : HandlerReady(k)'
    BY <1>2, HandlersReady DEF CloseChat, wires
  <2>3. \A d \in Client : mode'[d] = "chat" => mode[d] = "chat"
    BY <1>0, <1>2 DEF CloseChat, TypeOK
  <2>4. \A d \in Client : ClientReady(d)'
    BY <1>2, <2>3 DEF TypeInv, ClientReady, CloseChat, wires, server
  <2> QED
    BY <2>1, <2>2, <2>4 DEF TypeInv
<1>3. CASE SendPlain(c)
  <2>. DEFINE p    == active_peer[c]
              text == [from |-> account[c], to |-> p, nr |-> texts]
              row  == [sender |-> account[c], form |-> "plain", text |-> text]
              msg  == MessageTo(c, p, [kind |-> "plain", text |-> text])
  <2>1. p \in Account
    BY <1>3, PeerKnown DEF SendPlain
  <2>2. text \in Text /\ row \in Row
    BY <1>0, <2>1, MessageType DEF TypeOK, Row
  <2>3. msg \in ClientMessage /\ <<msg>> \in Seq(ClientMessage)
    BY <1>0, <2>1, <2>2, MessageType, Kinds, SeqType
  <2>4. /\ to_server' = Sent(c, <<msg>>)
        /\ UNCHANGED <<account, mode, active_peer, unread_counts, public_key,
                       ephemeral_aes_keys, net_client, from_server, server, keys, opens, logins>>
        /\ texts' = texts + 1
    BY <1>3 DEF SendPlain
  <2>5. chat_db' \in [Client -> [Account -> Seq(Row)]] /\ message_history' \in [Client -> Seq(Row)]
    BY <1>0, <1>3, <2>1, <2>2, SeqType DEF SendPlain, Insert, Show, TypeOK
  <2>. HIDE DEF msg, row, text
  <2>6. /\ to_server' \in [Conn -> Seq(ClientMessage)]
        /\ \A d \in Client : ClientReady(d)'
        /\ \A k \in Conn : HandlerReady(k)'
    BY <2>1, <2>3, <2>4, Sends, NoneIsApart
  <2>7. TypeOK'
    <3>1. texts' \in Nat
      BY <1>0, <2>4 DEF TypeOK
    <3> QED
      BY <1>0, <2>4, <2>5, <2>6, <3>1 DEF TypeOK, server
  <2> QED
    BY <2>6, <2>7 DEF TypeInv
<1>4. CASE SendSecure(c)
  <2>. DEFINE p     == active_peer[c]
              first == ephemeral_aes_keys[c][p] = None
              key   == IF first THEN FreshKey(c, p) ELSE ephemeral_aes_keys[c][p]
              text  == [from |-> account[c], to |-> p, nr |-> texts]
              row   == [sender |-> account[c], form |-> "secure", text |-> text]
              init  == IF first THEN <<KeyInit(c, p, public_key[c][p], key)>> ELSE <<>>
              msg   == MessageTo(c, p, [kind |-> "secure_text", key |-> key, text |-> text])
  <2>1. p \in Account
    BY <1>4, PeerKnown DEF SendSecure
  <2>2. text \in Text /\ row \in Row
    BY <1>0, <2>1, MessageType DEF TypeOK, Row
  <2>3. key \in AesKey /\ public_key[c][p] \in Account
    <3>1. FreshKey(c, p) \in AesKey
      BY <1>0, <2>1, MessageType
    <3>2. ephemeral_aes_keys[c][p] \in AesKey \cup {None}
      BY <1>0, <2>1 DEF TypeOK
    <3>3. public_key[c][p] # None /\ public_key[c][p] \in Account \cup {None}
      BY <1>0, <1>4, <2>1 DEF TypeOK, SendSecure
    <3> QED
      BY <3>1, <3>2, <3>3
  <2>4. init \in Seq(ClientMessage) /\ msg \in ClientMessage
    BY <1>0, <2>1, <2>2, <2>3, MessageType, Kinds, SeqType
  <2>5. Append(init, msg) \in Seq(ClientMessage)
    BY <2>4, SeqType
  <2>6. /\ to_server' = Sent(c, Append(init, msg))
        /\ ephemeral_aes_keys' = [ephemeral_aes_keys EXCEPT ![c][p] = key]
        /\ keys' = IF first THEN keys + 1 ELSE keys
        /\ texts' = texts + 1
        /\ UNCHANGED <<account, mode, active_peer, unread_counts, public_key,
                       net_client, from_server, server, opens, logins>>
    BY <1>4 DEF SendSecure
  <2>7. chat_db' \in [Client -> [Account -> Seq(Row)]] /\ message_history' \in [Client -> Seq(Row)]
    BY <1>0, <1>4, <2>1, <2>2, SeqType DEF SendSecure, Insert, Show, TypeOK
  <2>8. /\ ephemeral_aes_keys' \in [Client -> [Account -> AesKey \cup {None}]]
        /\ keys' \in Nat /\ texts' \in Nat
    BY <1>0, <2>1, <2>3, <2>6 DEF TypeOK
  <2>. HIDE DEF init, msg, key, first
  <2>9. /\ to_server' \in [Conn -> Seq(ClientMessage)]
        /\ \A d \in Client : ClientReady(d)'
        /\ \A k \in Conn : HandlerReady(k)'
    BY <2>1, <2>5, <2>6, Sends, NoneIsApart
  <2>10. TypeOK'
    BY <1>0, <2>6, <2>7, <2>8, <2>9 DEF TypeOK, server
  <2> QED
    BY <2>9, <2>10 DEF TypeInv
<1> QED
  BY <1>1, <1>2, <1>3, <1>4 DEF Press

LEMMA TypeReceive ==
  ASSUME TypeInv, NEW c \in Client, Receive(c)
  PROVE  TypeInv'
<1>. DEFINE m == Head(from_server[c])
<1>0. TypeOK
  BY DEF TypeInv
<1>1. /\ from_server[c] # <<>>
      /\ from_server' = [from_server EXCEPT ![c] = Tail(@)]
      /\ UNCHANGED <<account, mode, active_peer, net_client, server, texts, opens, logins>>
  BY DEF Receive, ReceiveKeyInit, ReceiveOnScreen, ReceiveUnread, Ignore,
     ReceiveKeyResponse, HandlesPayload, Handles, view, counters
<1>2. /\ m \in ServerResponse /\ Tail(from_server[c]) \in Seq(ServerResponse)
      /\ from_server' \in [Client -> Seq(ServerResponse)]
      /\ \A d \in Client : d # c => from_server'[d] = from_server[d]
  BY <1>0, <1>1, SeqType DEF TypeOK
<1>3. from_server[c] \in Seq(Unanswered) => from_server'[c] \in Seq(Unanswered)
  BY <1>0, <1>1, SeqType DEF TypeOK
<1>4. net_client[c] # None
  BY <1>1 DEF TypeInv, ClientReady
<1>5. m.kind = "message" => m \in Message
  BY <1>2, Kinds
\* What all but the key response leave alone.
<1>6. ASSUME to_server' = to_server PROVE \A d \in Client : ClientReady(d)'
  <2>1. ClientReady(c)'
    BY <1>1, <1>3, <1>4, <1>6 DEF TypeInv, ClientReady, server
  <2> QED
    BY <1>1, <1>2, <1>6, <2>1, OthersReady DEF server
<1>7. ASSUME to_server' = to_server PROVE \A k \in Conn : HandlerReady(k)'
  BY <1>1, <1>7, HandlersReady
<1>8. CASE ReceiveKeyInit(c)
  <2>1. ephemeral_aes_keys' \in [Client -> [Account -> AesKey \cup {None}]]
    BY <1>0, <1>5, <1>8, PayloadKinds DEF ReceiveKeyInit, HandlesPayload, Handles, TypeOK
  <2>2. UNCHANGED <<view, stored, to_server, counters>>
    BY <1>8 DEF ReceiveKeyInit
  <2>3. TypeOK'
    BY <1>0, <1>1, <1>2, <2>1, <2>2 DEF TypeOK, view, stored, server, counters
  <2> QED
    BY <1>6, <1>7, <2>2, <2>3 DEF TypeInv
<1>9. CASE ReceiveOnScreen(c) \/ ReceiveUnread(c)
  <2>1. m \in Message /\ m.payload.kind = "secure_text" /\ m.from \in Account
    BY <1>5, <1>9, PayloadKinds DEF ReceiveOnScreen, ReceiveUnread, HandlesPayload, Handles
  <2>2. RowOf(c, m) \in Row
    BY <1>0, <2>1, RowType
  <2>3. /\ chat_db' \in [Client -> [Account -> Seq(Row)]]
        /\ message_history' \in [Client -> Seq(Row)]
        /\ unread_counts' \in [Client -> [Account -> Nat]]
    <3>1. CASE ReceiveOnScreen(c)
      BY <1>0, <2>1, <2>2, <3>1, SeqType DEF ReceiveOnScreen, Insert, Show, TypeOK
    <3>2. CASE ReceiveUnread(c)
      <4>. DEFINE from == m.from
                  row  == RowOf(c, m)
      <4>1. /\ chat_db' = [chat_db EXCEPT ![c][from] = Append(@, row)]
            /\ unread_counts' = [unread_counts EXCEPT ![c][from] = @ + 1]
            /\ message_history' = message_history
        BY <3>2 DEF ReceiveUnread, Insert
      <4>2. from \in Account /\ row \in Row
        BY <2>1, <2>2
      <4>. HIDE DEF from, row
      <4>3. chat_db' \in [Client -> [Account -> Seq(Row)]]
        BY <1>0, <4>1, <4>2, SeqType DEF TypeOK
      <4>4. unread_counts' \in [Client -> [Account -> Nat]]
        BY <1>0, <4>1, <4>2 DEF TypeOK
      <4> QED
        BY <1>0, <4>1, <4>3, <4>4 DEF TypeOK
    <3> QED
      BY <1>9, <3>1, <3>2
  <2>4. UNCHANGED <<public_key, ephemeral_aes_keys, to_server, counters>>
    BY <1>9 DEF ReceiveOnScreen, ReceiveUnread
  <2>5. TypeOK'
    BY <1>0, <1>1, <1>2, <2>3, <2>4 DEF TypeOK, server, counters
  <2> QED
    BY <1>6, <1>7, <2>4, <2>5 DEF TypeInv
<1>10. CASE Ignore(c)
  <2>1. UNCHANGED <<view, stored, ephemeral_aes_keys, to_server, counters>>
    BY <1>10 DEF Ignore
  <2>2. TypeOK'
    BY <1>0, <1>1, <1>2, <2>1 DEF TypeOK, view, stored, server, counters
  <2> QED
    BY <1>6, <1>7, <2>1, <2>2 DEF TypeInv
<1>11. CASE ReceiveKeyResponse(c)
  <2>. DEFINE p    == active_peer[c]
              pub  == m.public_key
              key  == FreshKey(c, p)
              init == KeyInit(c, p, pub, key)
  <2>1. p \in Account /\ pub \in Account
    BY <1>1, <1>2, <1>11, PeerKnown, Kinds DEF ReceiveKeyResponse, Handles
  <2>2. key \in AesKey /\ <<init>> \in Seq(ClientMessage)
    BY <1>0, <2>1, MessageType, Kinds, SeqType
  <2>3. /\ public_key' = [public_key EXCEPT ![c][p] = pub]
        /\ \/ /\ to_server' = Sent(c, <<init>>)
              /\ ephemeral_aes_keys' = [ephemeral_aes_keys EXCEPT ![c][p] = key]
              /\ keys' = keys + 1
           \/ UNCHANGED <<to_server, ephemeral_aes_keys, keys>>
        /\ UNCHANGED <<view, chat_db>>
    BY <1>11 DEF ReceiveKeyResponse
  <2>. HIDE DEF p, pub, key, init
  <2>4. /\ to_server' \in [Conn -> Seq(ClientMessage)]
        /\ \A d \in Client : ClientReady(d)'
        /\ \A k \in Conn : HandlerReady(k)'
    <3>1. CASE to_server' = Sent(c, <<init>>)
      <4>1. active_peer'[c] # None /\ active_peer'[c] \in Account
        BY <1>1, <2>1, NoneIsApart DEF p
      <4> QED
        BY <1>1, <1>2, <2>2, <3>1, <4>1, Sends
    <3>2. CASE to_server' = to_server
      BY <1>0, <1>6, <1>7, <3>2 DEF TypeOK
    <3> QED
      BY <2>3, <3>1, <3>2
  <2>5. public_key' \in [Client -> [Account -> Account \cup {None}]]
    BY <1>0, <2>1, <2>3 DEF TypeOK
  <2>6. ephemeral_aes_keys' \in [Client -> [Account -> AesKey \cup {None}]] /\ keys' \in Nat
    <3>1. CASE ephemeral_aes_keys' = [ephemeral_aes_keys EXCEPT ![c][p] = key] /\ keys' = keys + 1
      BY <1>0, <2>1, <2>2, <3>1 DEF TypeOK
    <3>2. CASE UNCHANGED <<ephemeral_aes_keys, keys>>
      BY <1>0, <3>2 DEF TypeOK
    <3> QED
      BY <2>3, <3>1, <3>2
  <2>7. TypeOK'
    BY <1>0, <1>1, <1>2, <2>3, <2>4, <2>5, <2>6 DEF TypeOK, view, server
  <2> QED
    BY <2>4, <2>7 DEF TypeInv
<1> QED
  BY <1>8, <1>9, <1>10, <1>11 DEF Receive

\* The handler of connection k takes its next request off the wire.
LEMMA ServedType ==
  ASSUME TypeInv, NEW k \in Conn, to_server[k] # <<>>, handler[k] # "idle",
         to_server' = [to_server EXCEPT ![k] = Tail(@)], UNCHANGED net_client
  PROVE  /\ to_server' \in [Conn -> Seq(ClientMessage)]
         /\ Head(to_server[k]) \in ClientMessage
         /\ \A d \in Client : active_peer[d] = None /\ net_client[d] # None =>
              /\ to_server'[net_client[d]] \in Seq(Unasked)
              /\ net_client[d] = k => Head(to_server[k]).kind # "get_public_key"
<1>1. to_server[k] \in Seq(ClientMessage) /\ to_server \in [Conn -> Seq(ClientMessage)]
  BY DEF TypeInv, TypeOK
<1>2. Head(to_server[k]) \in ClientMessage /\ Tail(to_server[k]) \in Seq(ClientMessage)
  BY <1>1, SeqType
<1>3. ASSUME NEW d \in Client, active_peer[d] = None, net_client[d] # None
      PROVE  /\ to_server'[net_client[d]] \in Seq(Unasked)
             /\ net_client[d] = k => Head(to_server[k]).kind # "get_public_key"
  <2>1. to_server[net_client[d]] \in Seq(Unasked) /\ net_client[d] \in Conn
    BY <1>3, LinkOwner DEF TypeInv, ClientReady
  <2>2. CASE net_client[d] = k
    <3>1. Head(to_server[k]) \in Unasked /\ Tail(to_server[k]) \in Seq(Unasked)
      BY <2>1, <2>2, SeqType
    <3> QED
      BY <1>1, <2>2, <3>1 DEF Unasked
  <2>3. CASE net_client[d] # k
    BY <1>1, <2>1, <2>3
  <2> QED
    BY <2>2, <2>3
<1> QED
  BY <1>1, <1>2, <1>3

\* The clients' part of a step of a handler, which closes no connection in use.
LEMMA ClientsReady ==
  ASSUME TypeInv, UNCHANGED <<mode, active_peer, net_client>>,
         \A d \in Client : net_client[d] = None => from_server'[d] = from_server[d],
         \A d \in Client : net_client[d] # None =>
           handler'[net_client[d]] \notin {"idle", "closed"},
         \A d \in Client : active_peer[d] = None => from_server'[d] \in Seq(Unanswered),
         \A d \in Client : active_peer[d] = None /\ net_client[d] # None =>
           to_server'[net_client[d]] \in Seq(Unasked)
  PROVE  \A d \in Client : ClientReady(d)'
  BY DEF TypeInv, ClientReady

LEMMA TypeServe ==
  ASSUME TypeInv, NEW k \in Conn, Serve(k)
  PROVE  TypeInv'
<1>. DEFINE m == Head(to_server[k])
<1>0. TypeOK
  BY DEF TypeInv
<1>1. /\ UNCHANGED <<account, view, stored, ephemeral_aes_keys, net_client, counters>>
      /\ UNCHANGED <<mode, active_peer>>
  BY DEF Serve, RegisterUser, InsertClient, TakePending, SendPending, ServePublicKey,
     ServeForward, ServeQueue, wires, view
<1>2. \A d \in Client : active_peer[d] = None =>
        /\ from_server[d] \in Seq(Unanswered)
        /\ net_client[d] # None => to_server[net_client[d]] \in Seq(Unasked)
  BY DEF TypeInv, ClientReady
<1>3. \A d \in Client : net_client[d] # None => handler[net_client[d]] \notin {"idle", "closed"}
  BY DEF TypeInv, ClientReady
<1>4. \A d \in Client : net_client[d] \in Conn \cup {None}
  BY <1>0 DEF TypeOK
<1>5. CASE RegisterUser(k)
  <2>1. handler' = [handler EXCEPT ![k] = "insert"] /\ handler[k] = "receive" /\ held[k] = <<>>
    BY <1>5 DEF RegisterUser, Receives
  <2>2. /\ to_server[k] # <<>> /\ m.kind = "register" /\ known' = known \cup {m.address}
        /\ UNCHANGED <<to_server, from_server, current_user_address, held, clients,
                       server_queue, missed>>
    BY <1>5 DEF RegisterUser, Receives, wires
  <2>3. m.address \in Account
    BY <1>0, <2>2, Kinds, SeqType DEF TypeOK
  <2>4. TypeOK'
    BY <1>0, <1>1, <2>1, <2>2, <2>3 DEF TypeOK, view, stored, counters
  <2>5. \A l \in Conn : HandlerReady(l)'
    BY <1>0, <2>1, <2>2 DEF TypeInv, HandlerReady, TypeOK
  <2>6. \A d \in Client : ClientReady(d)'
    BY <1>0, <1>1, <1>2, <1>3, <1>4, <2>1, <2>2, ClientsReady DEF TypeOK
  <2> QED
    BY <2>4, <2>5, <2>6 DEF TypeInv
<1>6. CASE InsertClient(k)
  <2>1. /\ handler[k] = "insert" /\ to_server[k] # <<>> /\ m.kind = "register"
        /\ handler' = [handler EXCEPT ![k] = "flush"]
        /\ to_server' = [to_server EXCEPT ![k] = Tail(@)]
    BY <1>6 DEF InsertClient, TypeInv, HandlerReady
  <2>2. /\ clients' = [clients EXCEPT ![m.address] = k]
        /\ current_user_address' = [current_user_address EXCEPT ![k] = m.address]
        /\ UNCHANGED <<from_server, held, server_queue, known, missed>>
    BY <1>6 DEF InsertClient
  <2>3. /\ m.address \in Account /\ to_server' \in [Conn -> Seq(ClientMessage)]
        /\ \A d \in Client : active_peer[d] = None /\ net_client[d] # None =>
             to_server'[net_client[d]] \in Seq(Unasked)
    BY <1>1, <2>1, ServedType, Kinds
  <2>4. TypeOK'
    <3>1. /\ handler' \in [Conn -> {"idle", "receive", "insert", "flush", "closed"}]
          /\ clients' \in [Account -> Conn \cup {None}]
          /\ current_user_address' \in [Conn -> Account \cup {None}]
      BY <1>0, <2>1, <2>2, <2>3 DEF TypeOK
    <3> QED
      BY <1>0, <1>1, <2>2, <2>3, <3>1 DEF TypeOK, view, stored, counters
  <2>5. ASSUME NEW l \in Conn PROVE HandlerReady(l)'
    <3>1. CASE l = k
      <4>1. held[k] = <<>>
        BY <2>1 DEF TypeInv, HandlerReady
      <4> QED
        BY <1>0, <2>1, <2>2, <2>3, <3>1, <4>1, NoneIsApart DEF HandlerReady, TypeOK
    <3>2. CASE l # k
      BY <1>0, <2>1, <2>2, <3>2 DEF TypeInv, HandlerReady, TypeOK
    <3> QED
      BY <3>1, <3>2
  <2>6. \A d \in Client : ClientReady(d)'
    BY <1>0, <1>1, <1>2, <1>3, <1>4, <2>1, <2>2, <2>3, ClientsReady DEF TypeOK
  <2> QED
    BY <2>4, <2>5, <2>6 DEF TypeInv
<1>7. CASE TakePending(k)
  <2>. DEFINE a == current_user_address[k]
  <2>1. /\ handler[k] = "flush" /\ handler' = [handler EXCEPT ![k] = "receive"]
        /\ held' = [held EXCEPT ![k] = server_queue[a]]
        /\ server_queue' = [server_queue EXCEPT ![a] = <<>>]
        /\ UNCHANGED <<to_server, from_server, current_user_address, clients, known, missed>>
    BY <1>7 DEF TakePending, wires
  <2>2. a \in Account
    BY <1>0, <2>1 DEF TypeInv, HandlerReady, TypeOK
  <2>3. TypeOK'
    <3>1. held' \in [Conn -> Seq(Message)] /\ server_queue' \in [Account -> Seq(Message)]
      BY <1>0, <2>1, <2>2, SeqType DEF TypeOK
    <3>2. handler' \in [Conn -> {"idle", "receive", "insert", "flush", "closed"}]
      BY <1>0, <2>1 DEF TypeOK
    <3> QED
      BY <1>0, <1>1, <2>1, <3>1, <3>2 DEF TypeOK, view, stored, counters
  <2>4. \A l \in Conn : HandlerReady(l)'
    BY <1>0, <2>1 DEF TypeInv, HandlerReady, TypeOK
  <2>5. \A d \in Client : ClientReady(d)'
    BY <1>0, <1>1, <1>2, <1>3, <1>4, <2>1, ClientsReady DEF TypeOK
  <2> QED
    BY <2>3, <2>4, <2>5 DEF TypeInv
<1>8. CASE SendPending(k)
  <2>1. /\ held[k] # <<>> /\ held' = [held EXCEPT ![k] = Tail(@)]
        /\ from_server' = Push(k, Head(held[k]))
        /\ UNCHANGED <<to_server, handler, current_user_address, clients, server_queue,
                       known, missed>>
    BY <1>8 DEF SendPending
  <2>2. Head(held[k]) \in Message /\ held' \in [Conn -> Seq(Message)]
    BY <1>0, <2>1, SeqType DEF TypeOK
  <2>3. /\ from_server' \in [Client -> Seq(ServerResponse)]
        /\ \A d \in Client : from_server'[d] =
             IF net_client[d] = k THEN Append(from_server[d], Head(held[k])) ELSE from_server[d]
    BY <2>1, <2>2, PushType, Kinds
  <2>4. TypeOK'
    BY <1>0, <1>1, <2>1, <2>2, <2>3 DEF TypeOK, view, stored, counters
  <2>5. \A l \in Conn : HandlerReady(l)'
    BY <1>0, <2>1 DEF TypeInv, HandlerReady, TypeOK
  <2>6. \A d \in Client : ClientReady(d)'
    <3>1. \A d \in Client : active_peer[d] = None => from_server'[d] \in Seq(Unanswered)
      BY <1>2, <2>2, <2>3, Kinds, SeqType
    <3>2. \A d \in Client : net_client[d] = None => from_server'[d] = from_server[d]
      BY <2>3, NoneIsApart
    <3> QED
      BY <1>1, <1>2, <1>3, <2>1, <3>1, <3>2, ClientsReady
  <2> QED
    BY <2>4, <2>5, <2>6 DEF TypeInv
\* What the requests other than Register have in common.
<1>9. ASSUME ServePublicKey(k) \/ ServeForward(k) \/ ServeQueue(k)
      PROVE  /\ m \in ClientMessage
             /\ to_server' \in [Conn -> Seq(ClientMessage)]
             /\ \A d \in Client : active_peer[d] = None /\ net_client[d] # None =>
                  /\ to_server'[net_client[d]] \in Seq(Unasked)
                  /\ net_client[d] = k => m.kind # "get_public_key"
             /\ UNCHANGED <<handler, current_user_address, held, clients, known>>
             /\ \A l \in Conn : HandlerReady(l)'
  <2>1. /\ handler[k] = "receive" /\ to_server[k] # <<>>
        /\ to_server' = [to_server EXCEPT ![k] = Tail(@)]
        /\ UNCHANGED <<handler, current_user_address, held, clients, known>>
    BY <1>9 DEF ServePublicKey, ServeForward, ServeQueue, Serves, Receives, server
  <2>2. \A l \in Conn : HandlerReady(l)'
    BY <1>0, <2>1 DEF TypeInv, HandlerReady, TypeOK
  <2> QED
    BY <1>1, <2>1, <2>2, ServedType
<1>10. CASE ServePublicKey(k)
  <2>. DEFINE r == IF m.target \in known THEN [kind |-> "key_response", public_key |-> m.target]
                   ELSE [kind |-> "error"]
  <2>1. m.kind = "get_public_key" /\ from_server' = Push(k, r) /\ UNCHANGED server
    BY <1>10 DEF ServePublicKey, Serves, Receives
  <2>2. r \in ServerResponse
    BY <1>9, <1>10, <2>1, Kinds, PlainKinds
  <2>. HIDE DEF r
  <2>3. /\ from_server' \in [Client -> Seq(ServerResponse)]
        /\ \A d \in Client : from_server'[d] =
             IF net_client[d] = k THEN Append(from_server[d], r) ELSE from_server[d]
    BY <2>1, <2>2, PushType
  <2>4. TypeOK'
    BY <1>0, <1>1, <1>9, <1>10, <2>1, <2>3 DEF TypeOK, view, stored, server, counters
  <2>5. \A d \in Client : ClientReady(d)'
    <3>1. \A d \in Client : active_peer[d] = None => net_client[d] # k
      BY <1>9, <1>10, <2>1, NoneIsApart
    <3>2. \A d \in Client : net_client[d] = None => from_server'[d] = from_server[d]
      BY <2>3, NoneIsApart
    <3>3. \A d \in Client : active_peer[d] = None => from_server'[d] \in Seq(Unanswered)
      BY <1>2, <2>3, <3>1
    <3> QED
      BY <1>1, <1>3, <1>9, <1>10, <3>2, <3>3, ClientsReady
  <2> QED
    BY <1>9, <1>10, <2>4, <2>5 DEF TypeInv
<1>11. CASE ServeForward(k)
  <2>1. /\ m.kind = "message" /\ clients[m.to] # None
        /\ from_server' = Push(clients[m.to], m) /\ UNCHANGED server
    BY <1>11 DEF ServeForward, Serves, Receives
  <2>2. m \in Message /\ m \in ServerResponse /\ clients[m.to] \in Conn
    BY <1>0, <1>9, <1>11, <2>1, Kinds, PayloadKinds DEF TypeOK
  <2>3. /\ from_server' \in [Client -> Seq(ServerResponse)]
        /\ \A d \in Client : from_server'[d] =
             IF net_client[d] = clients[m.to] THEN Append(from_server[d], m) ELSE from_server[d]
    BY <2>1, <2>2, PushType
  <2>4. TypeOK'
    BY <1>0, <1>1, <1>9, <1>11, <2>1, <2>3 DEF TypeOK, view, stored, server, counters
  <2>5. \A d \in Client : ClientReady(d)'
    <3>1. \A d \in Client : active_peer[d] = None => from_server'[d] \in Seq(Unanswered)
      <4>1. m \in Unanswered
        BY <2>2, Kinds
      <4>. HIDE DEF m
      <4>2. SUFFICES ASSUME NEW d \in Client, active_peer[d] = None
                     PROVE  from_server'[d] \in Seq(Unanswered)
        OBVIOUS
      <4>3. from_server[d] \in Seq(Unanswered)
        BY <1>2, <4>2
      <4>4. Append(from_server[d], m) \in Seq(Unanswered)
        BY <4>1, <4>3, SeqType
      <4>5. \/ from_server'[d] = Append(from_server[d], m)
            \/ from_server'[d] = from_server[d]
        BY <2>3
      <4> QED
        BY <4>3, <4>4, <4>5
    <3>2. \A d \in Client : net_client[d] = None => from_server'[d] = from_server[d]
      BY <2>2, <2>3, NoneIsApart
    <3> QED
      BY <1>1, <1>3, <1>9, <1>11, <3>1, <3>2, ClientsReady
  <2> QED
    BY <1>9, <1>11, <2>4, <2>5 DEF TypeInv
<1>12. CASE ServeQueue(k)
  <2>1. /\ m.kind = "message"
        /\ server_queue' = [server_queue EXCEPT ![m.to] = Append(@, m)]
        /\ missed' = missed \cup ({m.to} \cap known)
        /\ UNCHANGED from_server
    BY <1>12 DEF ServeQueue, Serves, Receives
  <2>2. m \in Message /\ m.to \in Account
    BY <1>9, <1>12, <2>1, Kinds, PayloadKinds
  <2>3. TypeOK'
    <3>1. server_queue' \in [Account -> Seq(Message)]
      BY <1>0, <2>1, <2>2, SeqType DEF TypeOK
    <3> QED
      BY <1>0, <1>1, <1>9, <1>12, <2>1, <2>2, <3>1 DEF TypeOK, view, stored, counters
  <2>4. \A d \in Client : ClientReady(d)'
    BY <1>1, <1>2, <1>3, <1>9, <1>12, <2>1, ClientsReady
  <2> QED
    BY <1>9, <1>12, <2>3, <2>4 DEF TypeInv
<1> QED
  BY <1>5, <1>6, <1>7, <1>8, <1>10, <1>11, <1>12 DEF Serve

LEMMA TypeRest ==
  ASSUME TypeInv, NEW c \in Client,
         \/ \E k \in Conn : Connect(c, k) \/ CleanUp(k)
         \/ \E a \in Account : Login(c, a)
         \/ LoseLink(c)
         \/ RestartClient(c)
  PROVE  TypeInv'
<1>0. TypeOK
  BY DEF TypeInv
<1>1. ASSUME NEW k \in Conn, Connect(c, k) PROVE TypeInv'
  <2>1. /\ net_client[c] = None /\ Owner[k] = c /\ handler[k] = "idle"
        /\ net_client' = [net_client EXCEPT ![c] = k]
        /\ handler' = [handler EXCEPT ![k] = "receive"]
        /\ mode' = [mode EXCEPT ![c] = "auth"]
    BY <1>1 DEF Connect
  <2>2. UNCHANGED <<account, active_peer, message_history, unread_counts, stored,
                    ephemeral_aes_keys, to_server, from_server, current_user_address,
                    held, clients, server_queue, known, missed, counters>>
    BY <1>1 DEF Connect
  <2>3. to_server[k] = <<>> /\ held[k] = <<>>
    BY <2>1 DEF TypeInv, HandlerReady
  <2>4. TypeOK'
    BY <1>0, <2>1, <2>2 DEF TypeOK, stored, counters
  <2>5. \A l \in Conn : HandlerReady(l)'
    BY <1>0, <2>1, <2>2, <2>3 DEF TypeInv, HandlerReady, TypeOK
  <2>6. ASSUME NEW d \in Client PROVE ClientReady(d)'
    <3>1. CASE d = c
      <4>1. net_client'[c] = k /\ mode'[c] = "auth" /\ handler'[k] = "receive"
        BY <1>0, <2>1 DEF TypeOK
      <4>2. to_server'[k] \in Seq(Unasked)
        BY <2>2, <2>3, SeqType
      <4>3. active_peer[c] = None => from_server'[c] \in Seq(Unanswered)
        BY <2>2 DEF TypeInv, ClientReady
      <4> QED
        BY <2>1, <2>2, <3>1, <4>1, <4>2, <4>3, NoneIsApart DEF ClientReady
    <3>2. CASE d # c
      <4>1. mode'[d] = mode[d] /\ net_client'[d] = net_client[d]
        BY <1>0, <2>1, <3>2 DEF TypeOK
      <4>2. net_client[d] # None => net_client[d] # k
        BY <2>1, LinkOwner
      <4>3. net_client[d] # None => handler'[net_client[d]] = handler[net_client[d]]
        BY <1>0, <2>1, <4>2 DEF TypeOK
      <4> QED
        BY <2>2, <3>2, <4>1, <4>3, OthersReady
    <3> QED
      BY <3>1, <3>2
  <2> QED
    BY <2>4, <2>5, <2>6 DEF TypeInv
<1>2. ASSUME NEW a \in Account, Login(c, a) PROVE TypeInv'
  <2>. DEFINE requests == <<[kind |-> "register", address |-> a]>>
  <2>1. /\ to_server' = Sent(c, requests)
        /\ account' = [account EXCEPT ![c] = a]
        /\ mode' = [mode EXCEPT ![c] = "peers"]
        /\ logins' = [logins EXCEPT ![c] = @ + 1]
        /\ UNCHANGED <<active_peer, message_history, unread_counts, stored,
                       ephemeral_aes_keys, net_client, from_server, server, keys, texts, opens>>
    BY <1>2 DEF Login
  <2>2. requests \in Seq(ClientMessage) /\ requests \in Seq(Unasked)
    BY PlainKinds, SeqType
  <2>. HIDE DEF requests
  <2>3. /\ to_server' \in [Conn -> Seq(ClientMessage)]
        /\ \A k \in Conn : HandlerReady(k)'
        /\ \A d \in Client : d # c /\ net_client[d] # None =>
             to_server'[net_client[d]] = to_server[net_client[d]]
    BY <2>1, <2>2, SendReady
  <2>4. TypeOK'
    <3>1. /\ account' \in [Client -> Account] /\ mode' \in [Client -> {"auth", "peers", "chat"}]
          /\ logins' \in [Client -> Nat]
      BY <1>0, <2>1 DEF TypeOK
    <3> QED
      BY <1>0, <2>1, <2>3, <3>1 DEF TypeOK, stored, server
  <2>5. ASSUME NEW d \in Client PROVE ClientReady(d)'
    <3>1. CASE d = c
      <4>1. mode'[c] = "peers"
        BY <1>0, <2>1 DEF TypeOK
      <4>2. ASSUME net_client[c] # None, active_peer[c] = None
            PROVE  to_server'[net_client[c]] \in Seq(Unasked)
        <5>1. net_client[c] \in Conn /\ to_server[net_client[c]] \in Seq(Unasked)
          BY <4>2, LinkOwner DEF TypeInv, ClientReady
        <5>2. to_server'[net_client[c]] = to_server[net_client[c]] \o requests
          BY <2>1, <2>2, <5>1, SentType
        <5> QED
          BY <2>2, <5>1, <5>2, SeqType
      <4> QED
        BY <2>1, <3>1, <4>1, <4>2 DEF TypeInv, ClientReady, server
    <3>2. CASE d # c
      <4>1. mode'[d] = mode[d]
        BY <1>0, <2>1, <3>2 DEF TypeOK
      <4> QED
        BY <2>1, <2>3, <3>2, <4>1, OthersReady DEF server
    <3> QED
      BY <3>1, <3>2
  <2> QED
    BY <2>3, <2>4, <2>5 DEF TypeInv
<1>3. CASE LoseLink(c)
  <2>1. /\ net_client' = [net_client EXCEPT ![c] = None]
        /\ from_server' = [from_server EXCEPT ![c] = <<>>]
        /\ UNCHANGED <<account, view, stored, ephemeral_aes_keys, to_server, server, counters>>
    BY <1>3 DEF LoseLink
  <2>2. TypeOK'
    <3>1. from_server' \in [Client -> Seq(ServerResponse)]
      BY <1>0, <2>1, SeqType DEF TypeOK
    <3> QED
      BY <1>0, <2>1, <3>1 DEF TypeOK, view, stored, server, counters
  <2>3. \A k \in Conn : HandlerReady(k)'
    BY <2>1, HandlersReady
  <2>4. ASSUME NEW d \in Client PROVE ClientReady(d)'
    <3>1. CASE d = c
      <4>1. net_client'[c] = None /\ from_server'[c] = <<>>
        BY <1>0, <2>1 DEF TypeOK
      <4>2. <<>> \in Seq(Unanswered)
        BY SeqType
      <4> QED
        BY <2>1, <3>1, <4>1, <4>2 DEF TypeInv, ClientReady, view
    <3>2. CASE d # c
      <4>1. net_client'[d] = net_client[d] /\ from_server'[d] = from_server[d]
        BY <1>0, <2>1, <3>2 DEF TypeOK
      <4> QED
        BY <2>1, <3>2, <4>1, OthersReady DEF view, server
    <3> QED
      BY <3>1, <3>2
  <2> QED
    BY <2>2, <2>3, <2>4 DEF TypeInv
<1>4. CASE RestartClient(c)
  <2>1. net_client[c] = None /\ UNCHANGED <<account, stored, wires, server, counters>>
    BY <1>4 DEF RestartClient
  <2>2. TypeOK'
    BY <1>0, <1>4, SeqType DEF TypeOK, RestartClient, stored, wires, server, counters
  <2>3. \A k \in Conn : HandlerReady(k)'
    BY <2>1, HandlersReady DEF wires
  <2>4. ASSUME NEW d \in Client PROVE ClientReady(d)'
    <3>1. CASE d = c
      <4>1. from_server[c] = <<>>
        BY <2>1 DEF TypeInv, ClientReady
      <4>2. mode'[c] = "auth"
        BY <1>0, <1>4 DEF RestartClient, TypeOK
      <4>3. <<>> \in Seq(Unanswered)
        BY SeqType
      <4> QED
        BY <2>1, <3>1, <4>1, <4>2, <4>3 DEF ClientReady, wires
    <3>2. CASE d # c
      <4>1. mode'[d] = mode[d] /\ active_peer'[d] = active_peer[d]
        BY <1>0, <1>4, <3>2 DEF RestartClient, TypeOK
      <4> QED
        BY <2>1, <3>2, <4>1, OthersReady DEF wires, server
    <3> QED
      BY <3>1, <3>2
  <2> QED
    BY <2>2, <2>3, <2>4 DEF TypeInv
<1>5. ASSUME NEW k \in Conn, CleanUp(k) PROVE TypeInv'
  <2>1. /\ net_client[Owner[k]] # k /\ handler[k] = "receive" /\ held[k] = <<>>
        /\ handler' = [handler EXCEPT ![k] = "closed"]
        /\ to_server' = [to_server EXCEPT ![k] = <<>>]
        /\ UNCHANGED <<account, view, stored, ephemeral_aes_keys, net_client, from_server,
                       held, server_queue, known, missed, counters>>
    BY <1>5 DEF CleanUp
  <2>2. /\ current_user_address' = [current_user_address EXCEPT ![k] = None]
        /\ clients' \in [Account -> Conn \cup {None}]
    BY <1>0, <1>5 DEF CleanUp, TypeOK
  <2>3. TypeOK'
    <3>1. to_server' \in [Conn -> Seq(ClientMessage)]
      BY <1>0, <2>1, SeqType DEF TypeOK
    <3> QED
      BY <1>0, <2>1, <2>2, <3>1 DEF TypeOK, view, stored, counters
  <2>4. \A l \in Conn : HandlerReady(l)'
    BY <1>0, <2>1, <2>2 DEF TypeInv, HandlerReady, TypeOK
  <2>5. \A d \in Client : net_client[d] # None => net_client[d] # k
    BY <2>1, LinkOwner
  <2>6. \A d \in Client : net_client[d] # None =>
          /\ net_client[d] \in Conn
          /\ to_server'[net_client[d]] = to_server[net_client[d]]
          /\ handler'[net_client[d]] = handler[net_client[d]]
    BY <1>0, <2>1, <2>5 DEF TypeOK
  <2>7. \A d \in Client : ClientReady(d)'
    BY <2>1, <2>6 DEF TypeInv, ClientReady, view
  <2> QED
    BY <2>3, <2>4, <2>7 DEF TypeInv
<1> QED
  BY <1>1, <1>2, <1>3, <1>4, <1>5

LEMMA TypeStep == TypeInv /\ [Next]_vars => TypeInv'
<1>. SUFFICES ASSUME TypeInv, [Next]_vars PROVE TypeInv'
  OBVIOUS
<1>1. CASE Next
  <2>1. ASSUME NEW k \in Conn, CleanUp(k) PROVE TypeInv'
    BY <2>1, TypeRest, NoneIsApart
  <2> QED
    BY <1>1, <2>1, TypePress, TypeReceive, TypeServe, TypeRest DEF Next
<1>2. CASE UNCHANGED vars
  <2>1. TypeOK'
    BY <1>2 DEF TypeInv, TypeOK, vars, view, stored, wires, server, counters
  <2>2. \A k \in Conn : HandlerReady(k)'
    BY <1>2, HandlersReady DEF vars, wires
  <2>3. \A d \in Client : ClientReady(d)'
    BY <1>2 DEF TypeInv, ClientReady, vars, view, wires, server
  <2> QED
    BY <2>1, <2>2, <2>3 DEF TypeInv
<1> QED
  BY <1>1, <1>2

\* Every variable of the chats keeps its type.
THEOREM ChatTypeCorrect == Spec => []TypeOK
<1>1. TypeInv => TypeOK
  BY DEF TypeInv
<1> QED
  BY TypeInit, TypeStep, <1>1, PTL DEF Spec

-----------------------------------------------------------------------------
(* Who knows a session key *)

\* A KeyInit carries a key of its sender for its target, a SecureText a text.
Honest(S) ==
  {r \in S : r.kind = "message" =>
     /\ r.payload.kind = "key_init"
          => r.payload.key.by = r.from /\ r.payload.key.for = r.to
     /\ r.payload.kind = "secure_text"
          => r.payload.text.from = r.from /\ r.payload.text.to = r.to}

\* What client c asks for, what it is sent, and what is queued for account a.
AskedBy(c) ==
  {r \in Honest(ClientMessage) :
     /\ r.kind = "register" => Home[r.address] = c
     /\ r.kind = "message" => Home[r.from] = c}

DeliveredTo(c) == {r \in Honest(ServerResponse) : r.kind = "message" => Home[r.to] = c}

QueuedFor(a) == {m \in Honest(Message) : m.to = a}

HonestWires ==
  /\ \A k \in Conn : to_server[k] \in Seq(AskedBy(Owner[k]))
  /\ \A c \in Client : from_server[c] \in Seq(DeliveredTo(c))
  /\ \A k \in Conn : held[k] \in Seq(DeliveredTo(Owner[k]))
  /\ \A a \in Account : server_queue[a] \in Seq(QueuedFor(a))

\* Clients use and register accounts of their own only.
AtHome ==
  /\ \A c \in Client : Home[account[c]] = c
  /\ \A k \in Conn : current_user_address[k] # None =>
       Home[current_user_address[k]] = Owner[k]
  /\ \A a \in Account : clients[a] # None => Owner[clients[a]] = Home[a]

Wired == AtHome /\ HonestWires

KeyInv == TypeInv /\ Wired /\ KeyStaysBetweenPair

LEMMA KeyInitially == Init => KeyInv
<1>. SUFFICES ASSUME Init PROVE KeyInv
  OBVIOUS
<1>1. AtHome
  BY NoneIsApart DEF Init, AtHome
<1>2. HonestWires
  BY SeqType DEF Init, HonestWires
<1> QED
  BY TypeInit, <1>1, <1>2 DEF Init, KeyInv, Wired, KeyStaysBetweenPair

\* Honest requests, responses and queues are requests, responses and messages.
LEMMA HonestType ==
  /\ \A c \in Client : AskedBy(c) \subseteq ClientMessage
  /\ \A c \in Client : DeliveredTo(c) \subseteq ServerResponse
  /\ \A a \in Account : QueuedFor(a) \subseteq Message /\ QueuedFor(a) \subseteq DeliveredTo(Home[a])
<1>1. Message \subseteq ServerResponse
  BY Kinds
<1> QED
  BY <1>1 DEF AskedBy, DeliveredTo, QueuedFor, Honest

\* A sequence over a part of a set is one over the set.
LEMMA SeqWider ==
  ASSUME NEW S, NEW T, S \subseteq T, NEW s \in Seq(S)
  PROVE  s \in Seq(T)
  OBVIOUS

\* A new key, and the KeyInit that carries it.
LEMMA NewKey ==
  ASSUME TypeOK, AtHome, NEW c \in Client, NEW p \in Account, NEW pub \in Account
  PROVE  /\ FreshKey(c, p).for = p /\ Home[FreshKey(c, p).by] = c
         /\ KeyInit(c, p, pub, FreshKey(c, p)) \in AskedBy(c)
<1>1. KeyInit(c, p, pub, FreshKey(c, p)) \in ClientMessage
  BY MessageType, Kinds
<1> QED
  BY <1>1 DEF AtHome, AskedBy, Honest, KeyInit, MessageTo, FreshKey

\* A client only adds honest requests to its channel.
LEMMA SentHonest ==
  ASSUME TypeInv, HonestWires, NEW c \in Client,
         NEW requests \in Seq(AskedBy(c)), to_server' = Sent(c, requests)
  PROVE  \A k \in Conn : to_server'[k] \in Seq(AskedBy(Owner[k]))
<1>. SUFFICES ASSUME NEW k \in Conn PROVE to_server'[k] \in Seq(AskedBy(Owner[k]))
  OBVIOUS
<1>1. requests \in Seq(ClientMessage)
  BY HonestType, SeqWider
<1>2. to_server'[k] = IF k = net_client[c] THEN to_server[k] \o requests ELSE to_server[k]
  BY <1>1, SentType
<1>3. to_server[k] \in Seq(AskedBy(Owner[k]))
  BY DEF HonestWires
<1>4. CASE k = net_client[c]
  <2>1. Owner[k] = c
    BY <1>4, LinkOwner, NoneIsApart
  <2> QED
    BY <1>2, <1>3, <1>4, <2>1, SeqType
<1> QED
  BY <1>2, <1>3, <1>4

\* What a handler pushes keeps the client's channel honest.
LEMMA PushHonest ==
  ASSUME TypeInv, HonestWires, NEW k \in Conn, NEW r \in DeliveredTo(Owner[k]),
         from_server' = Push(k, r)
  PROVE  \A d \in Client : from_server'[d] \in Seq(DeliveredTo(d))
<1>. SUFFICES ASSUME NEW d \in Client PROVE from_server'[d] \in Seq(DeliveredTo(d))
  OBVIOUS
<1>1. r \in ServerResponse
  BY HonestType, NoneIsApart
<1>2. from_server'[d] = IF net_client[d] = k THEN Append(from_server[d], r) ELSE from_server[d]
  BY <1>1, PushType
<1>3. from_server[d] \in Seq(DeliveredTo(d))
  BY DEF HonestWires
<1>4. CASE net_client[d] = k
  <2>1. Owner[k] = d
    BY <1>4, LinkOwner, NoneIsApart
  <2> QED
    BY <1>2, <1>3, <1>4, <2>1, SeqType
<1> QED
  BY <1>2, <1>3, <1>4

\* Learning a key of the pair keeps the property.
LEMMA KeyLearned ==
  ASSUME TypeOK, KeyStaysBetweenPair, NEW c \in Client, NEW p \in Account, NEW key,
         \/ key.for = p /\ Home[key.by] = c
         \/ key.by = p /\ Home[key.for] = c,
         ephemeral_aes_keys' = [ephemeral_aes_keys EXCEPT ![c][p] = key]
  PROVE  KeyStaysBetweenPair'
<1>. SUFFICES ASSUME NEW d \in Client, NEW q \in Account, ephemeral_aes_keys'[d][q] # None
             PROVE  \/ /\ ephemeral_aes_keys'[d][q].for = q
                       /\ Home[ephemeral_aes_keys'[d][q].by] = d
                    \/ /\ ephemeral_aes_keys'[d][q].by = q
                       /\ Home[ephemeral_aes_keys'[d][q].for] = d
  BY DEF KeyStaysBetweenPair
<1>1. CASE d = c /\ q = p
  BY <1>1 DEF TypeOK
<1>2. CASE ~(d = c /\ q = p)
  <2>1. ephemeral_aes_keys'[d][q] = ephemeral_aes_keys[d][q]
    BY <1>2 DEF TypeOK
  <2> QED
    BY <2>1 DEF KeyStaysBetweenPair
<1> QED
  BY <1>1, <1>2

\* A key press that sends requests keeps the channels honest.
LEMMA PressHonest ==
  ASSUME KeyInv, NEW c \in Client, NEW requests \in Seq(AskedBy(c)),
         to_server' = Sent(c, requests), UNCHANGED <<account, from_server, server>>
  PROVE  Wired'
<1>1. \A k \in Conn : to_server'[k] \in Seq(AskedBy(Owner[k]))
  BY SentHonest DEF KeyInv, Wired
<1>2. AtHome'
  BY DEF KeyInv, Wired, AtHome, server
<1> QED
  BY <1>1, <1>2 DEF KeyInv, Wired, HonestWires, server

LEMMA KeyPress ==
  ASSUME KeyInv, NEW c \in Client, Press(c)
  PROVE  Wired' /\ KeyStaysBetweenPair'
<1>. USE DEF KeyInv
<1>0. TypeOK /\ AtHome
  BY DEF TypeInv, Wired
<1>1. ASSUME NEW p \in Account, OpenChat(c, p) PROVE Wired' /\ KeyStaysBetweenPair'
  <2>. DEFINE request == [kind |-> "get_public_key", target |-> p]
  <2>1. request \in AskedBy(c)
    BY DEF ClientMessage, Honest, AskedBy
  <2>2. to_server' = Sent(c, <<request>>) /\ <<request>> \in Seq(AskedBy(c))
    BY <1>1, <2>1, SeqType DEF OpenChat
  <2>. HIDE DEF request
  <2>3. UNCHANGED <<account, ephemeral_aes_keys, from_server, server>>
    BY <1>1 DEF OpenChat
  <2> QED
    BY <2>2, <2>3, PressHonest DEF KeyStaysBetweenPair
<1>2. CASE CloseChat(c)
  <2>1. UNCHANGED <<account, ephemeral_aes_keys, wires, server>>
    BY <1>2 DEF CloseChat
  <2> QED
    BY <2>1 DEF Wired, AtHome, HonestWires, KeyStaysBetweenPair, wires, server
<1>3. CASE SendPlain(c)
  <2>. DEFINE p    == active_peer[c]
              text == [from |-> account[c], to |-> p, nr |-> texts]
              msg  == MessageTo(c, p, [kind |-> "plain", text |-> text])
  <2>1. p \in Account
    BY <1>3, PeerKnown DEF SendPlain
  <2>2. msg \in ClientMessage
    BY <1>0, <2>1, MessageType, Kinds
  <2>3. msg \in AskedBy(c)
    BY <1>0, <2>2 DEF AskedBy, Honest, MessageTo, AtHome
  <2>4. to_server' = Sent(c, <<msg>>) /\ <<msg>> \in Seq(AskedBy(c))
    BY <1>3, <2>3, SeqType DEF SendPlain
  <2>. HIDE DEF msg
  <2>5. UNCHANGED <<account, ephemeral_aes_keys, from_server, server>>
    BY <1>3 DEF SendPlain
  <2> QED
    BY <2>4, <2>5, PressHonest DEF KeyStaysBetweenPair
<1>4. CASE SendSecure(c)
  <2>. DEFINE p     == active_peer[c]
              first == ephemeral_aes_keys[c][p] = None
              key   == IF first THEN FreshKey(c, p) ELSE ephemeral_aes_keys[c][p]
              text  == [from |-> account[c], to |-> p, nr |-> texts]
              init  == IF first THEN <<KeyInit(c, p, public_key[c][p], key)>> ELSE <<>>
              msg   == MessageTo(c, p, [kind |-> "secure_text", key |-> key, text |-> text])
  <2>1. p \in Account
    BY <1>4, PeerKnown DEF SendSecure
  <2>2. key \in AesKey /\ public_key[c][p] \in Account
    <3>1. FreshKey(c, p) \in AesKey
      BY <1>0, <2>1, MessageType
    <3>2. ephemeral_aes_keys[c][p] \in AesKey \cup {None}
      BY <1>0, <2>1 DEF TypeOK
    <3>3. public_key[c][p] # None /\ public_key[c][p] \in Account \cup {None}
      BY <1>0, <1>4, <2>1 DEF TypeOK, SendSecure
    <3> QED
      BY <3>1, <3>2, <3>3
  <2>3. msg \in AskedBy(c)
    <3>1. msg \in ClientMessage
      BY <1>0, <2>1, <2>2, MessageType, Kinds
    <3> QED
      BY <1>0, <3>1 DEF AskedBy, Honest, MessageTo, AtHome
  <2>4. init \in Seq(AskedBy(c))
    BY <1>0, <2>1, <2>2, NewKey, SeqType
  <2>5. to_server' = Sent(c, Append(init, msg)) /\ Append(init, msg) \in Seq(AskedBy(c))
    BY <1>4, <2>3, <2>4, SeqType DEF SendSecure
  <2>6. /\ ephemeral_aes_keys' = [ephemeral_aes_keys EXCEPT ![c][p] = key]
        /\ UNCHANGED <<account, from_server, server>>
    BY <1>4 DEF SendSecure
  <2>7. \/ key.for = p /\ Home[key.by] = c
        \/ key.by = p /\ Home[key.for] = c
    BY <1>0, <2>1, <2>2, NewKey, NoneIsApart DEF KeyStaysBetweenPair
  <2>. HIDE DEF p, key, init, msg
  <2>8. KeyStaysBetweenPair'
    BY <1>0, <2>1, <2>6, <2>7, KeyLearned
  <2> QED
    BY <2>5, <2>6, <2>8, PressHonest
<1> QED
  BY <1>1, <1>2, <1>3, <1>4 DEF Press

LEMMA KeyReceive ==
  ASSUME KeyInv, NEW c \in Client, Receive(c)
  PROVE  Wired' /\ KeyStaysBetweenPair'
<1>. USE DEF KeyInv
<1>0. TypeOK /\ AtHome /\ HonestWires
  BY DEF TypeInv, Wired
<1>. DEFINE m == Head(from_server[c])
<1>1. /\ from_server[c] # <<>> /\ from_server' = [from_server EXCEPT ![c] = Tail(@)]
      /\ UNCHANGED <<account, server>>
  BY DEF Receive, ReceiveKeyInit, ReceiveOnScreen, ReceiveUnread, Ignore,
     ReceiveKeyResponse, HandlesPayload, Handles
<1>2. m \in DeliveredTo(c) /\ Tail(from_server[c]) \in Seq(DeliveredTo(c))
  BY <1>0, <1>1, SeqType DEF HonestWires
<1>3. \A d \in Client : from_server'[d] \in Seq(DeliveredTo(d))
  BY <1>0, <1>1, <1>2 DEF TypeOK, HonestWires
<1>4. /\ AtHome'
      /\ \A a \in Account : server_queue'[a] \in Seq(QueuedFor(a))
      /\ \A k \in Conn : held'[k] \in Seq(DeliveredTo(Owner[k]))
  BY <1>0, <1>1 DEF AtHome, HonestWires, server
<1>5. CASE ReceiveKeyInit(c)
  <2>1. m \in ServerResponse /\ m.kind = "message" /\ m.payload.kind = "key_init"
    BY <1>2, <1>5, HonestType DEF ReceiveKeyInit, HandlesPayload, Handles
  <2>2. m \in Message
    BY <2>1, Kinds
  <2>3. m.from \in Account /\ m.payload.key.by = m.from /\ Home[m.payload.key.for] = c
    BY <1>2, <2>1, <2>2, PayloadKinds DEF DeliveredTo, Honest
  <2>4. /\ \/ ephemeral_aes_keys' = [ephemeral_aes_keys EXCEPT ![c][m.from] = m.payload.key]
           \/ ephemeral_aes_keys' = ephemeral_aes_keys
        /\ to_server' = to_server
    BY <1>5 DEF ReceiveKeyInit
  <2>5. KeyStaysBetweenPair'
    <3>. DEFINE from == m.from
                key  == m.payload.key
    <3>1. from \in Account /\ key.by = from /\ Home[key.for] = c
      BY <2>3
    <3>2. \/ ephemeral_aes_keys' = [ephemeral_aes_keys EXCEPT ![c][from] = key]
          \/ ephemeral_aes_keys' = ephemeral_aes_keys
      BY <2>4
    <3>. HIDE DEF from, key
    <3>3. CASE ephemeral_aes_keys' = [ephemeral_aes_keys EXCEPT ![c][from] = key]
      BY <1>0, <3>1, <3>3, KeyLearned
    <3>4. CASE ephemeral_aes_keys' = ephemeral_aes_keys
      BY <3>4 DEF KeyStaysBetweenPair
    <3> QED
      BY <3>2, <3>3, <3>4
  <2> QED
    BY <1>0, <1>3, <1>4, <2>4, <2>5 DEF Wired, HonestWires
<1>6. CASE ReceiveOnScreen(c) \/ ReceiveUnread(c) \/ Ignore(c)
  <2>1. UNCHANGED <<ephemeral_aes_keys, to_server>>
    BY <1>6 DEF ReceiveOnScreen, ReceiveUnread, Ignore
  <2> QED
    BY <1>0, <1>3, <1>4, <2>1 DEF Wired, HonestWires, KeyStaysBetweenPair
<1>7. CASE ReceiveKeyResponse(c)
  <2>. DEFINE p    == active_peer[c]
              pub  == m.public_key
              key  == FreshKey(c, p)
              init == KeyInit(c, p, pub, key)
  <2>1. m \in ServerResponse /\ m.kind = "key_response"
    BY <1>2, <1>7, HonestType DEF ReceiveKeyResponse, Handles
  <2>2. p \in Account /\ pub \in Account
    BY <1>1, <2>1, PeerKnown, Kinds
  <2>3. /\ key.for = p /\ Home[key.by] = c
        /\ <<init>> \in Seq(AskedBy(c))
    BY <1>0, <2>2, NewKey, SeqType
  <2>4. \/ /\ to_server' = Sent(c, <<init>>)
           /\ ephemeral_aes_keys' = [ephemeral_aes_keys EXCEPT ![c][p] = key]
        \/ UNCHANGED <<to_server, ephemeral_aes_keys>>
    BY <1>7 DEF ReceiveKeyResponse
  <2>. HIDE DEF p, pub, key, init
  <2>5. \A k \in Conn : to_server'[k] \in Seq(AskedBy(Owner[k]))
    BY <1>0, <2>3, <2>4, SentHonest DEF HonestWires
  <2>6. KeyStaysBetweenPair'
    <3>1. CASE ephemeral_aes_keys' = [ephemeral_aes_keys EXCEPT ![c][p] = key]
      BY <1>0, <2>2, <2>3, <3>1, KeyLearned
    <3>2. CASE ephemeral_aes_keys' = ephemeral_aes_keys
      BY <3>2 DEF KeyStaysBetweenPair
    <3> QED
      BY <2>4, <3>1, <3>2
  <2> QED
    BY <1>3, <1>4, <2>5, <2>6 DEF Wired, HonestWires
<1> QED
  BY <1>5, <1>6, <1>7 DEF Receive

\* A request that is served is taken off its channel.
LEMMA ServedHonest ==
  ASSUME KeyInv, NEW k \in Conn, to_server[k] # <<>>
  PROVE  /\ Head(to_server[k]) \in AskedBy(Owner[k])
         /\ Head(to_server[k]) \in ClientMessage
         /\ to_server' = [to_server EXCEPT ![k] = Tail(@)]
              => \A l \in Conn : to_server'[l] \in Seq(AskedBy(Owner[l]))
<1>1. to_server \in [Conn -> Seq(ClientMessage)] /\ Owner[k] \in Client
      /\ \A l \in Conn : to_server[l] \in Seq(AskedBy(Owner[l]))
  BY NoneIsApart DEF KeyInv, TypeInv, TypeOK, Wired, HonestWires
<1>2. Head(to_server[k]) \in AskedBy(Owner[k]) /\ Tail(to_server[k]) \in Seq(AskedBy(Owner[k]))
  BY <1>1, SeqType
<1>3. Head(to_server[k]) \in ClientMessage
  BY <1>1, <1>2, HonestType
<1> QED
  BY <1>1, <1>2, <1>3

LEMMA WiredServe ==
  ASSUME KeyInv, NEW k \in Conn, Serve(k)
  PROVE  Wired'
<1>. USE DEF KeyInv
<1>0. TypeInv /\ TypeOK /\ AtHome /\ HonestWires /\ Owner[k] \in Client
  BY NoneIsApart DEF TypeInv, Wired
<1>. DEFINE m == Head(to_server[k])
<1>1. CASE RegisterUser(k)
  <2>1. UNCHANGED <<account, wires, current_user_address, held, clients, server_queue>>
    BY <1>1 DEF RegisterUser
  <2> QED
    BY <1>0, <2>1 DEF Wired, AtHome, HonestWires, wires
<1>2. CASE InsertClient(k)
  <2>. DEFINE a == m.address
  <2>1. /\ clients' = [clients EXCEPT ![a] = k]
        /\ current_user_address' = [current_user_address EXCEPT ![k] = a]
        /\ to_server' = [to_server EXCEPT ![k] = Tail(@)]
        /\ UNCHANGED <<account, from_server, held, server_queue>>
    BY <1>2 DEF InsertClient
  <2>2. to_server[k] # <<>> /\ m.kind = "register"
    BY <1>0, <1>2 DEF InsertClient, TypeInv, HandlerReady
  <2>3. a \in Account /\ Home[a] = Owner[k]
    <3>1. m \in AskedBy(Owner[k]) /\ m \in ClientMessage
      BY <2>2, ServedHonest
    <3> QED
      BY <2>2, <3>1, Kinds DEF AskedBy
  <2>. HIDE DEF a
  <2>4. \A l \in Conn : to_server'[l] \in Seq(AskedBy(Owner[l]))
    BY <2>1, <2>2, ServedHonest
  <2>5. AtHome'
    BY <1>0, <2>1, <2>3 DEF AtHome, TypeOK
  <2> QED
    BY <1>0, <2>1, <2>4, <2>5 DEF Wired, HonestWires
<1>3. CASE TakePending(k)
  <2>. DEFINE a == current_user_address[k]
  <2>1. /\ held' = [held EXCEPT ![k] = server_queue[a]]
        /\ server_queue' = [server_queue EXCEPT ![a] = <<>>]
        /\ UNCHANGED <<account, wires, current_user_address, clients>>
    BY <1>3 DEF TakePending
  <2>2. a \in Account /\ Home[a] = Owner[k]
    BY <1>0, <1>3 DEF TakePending, TypeInv, HandlerReady, AtHome, TypeOK
  <2>. HIDE DEF a
  <2>3. server_queue[a] \in Seq(DeliveredTo(Owner[k]))
    BY <1>0, <2>2, HonestType, SeqWider DEF HonestWires
  <2>4. \A l \in Conn : held'[l] \in Seq(DeliveredTo(Owner[l]))
    BY <1>0, <2>1, <2>3 DEF TypeOK, HonestWires
  <2>5. \A b \in Account : server_queue'[b] \in Seq(QueuedFor(b))
    BY <1>0, <2>1, SeqType DEF TypeOK, HonestWires
  <2> QED
    BY <1>0, <2>1, <2>4, <2>5 DEF Wired, AtHome, HonestWires, wires
<1>4. CASE SendPending(k)
  <2>. DEFINE r == Head(held[k])
  <2>1. /\ held[k] # <<>> /\ from_server' = Push(k, r)
        /\ held' = [held EXCEPT ![k] = Tail(@)]
        /\ UNCHANGED <<account, to_server, current_user_address, clients, server_queue>>
    BY <1>4 DEF SendPending
  <2>2. held[k] \in Seq(DeliveredTo(Owner[k]))
    BY <1>0 DEF HonestWires
  <2>3. r \in DeliveredTo(Owner[k]) /\ Tail(held[k]) \in Seq(DeliveredTo(Owner[k]))
    BY <2>1, <2>2, SeqType
  <2>. HIDE DEF r
  <2>4. \A d \in Client : from_server'[d] \in Seq(DeliveredTo(d))
    BY <1>0, <2>1, <2>3, PushHonest
  <2>5. \A l \in Conn : held'[l] \in Seq(DeliveredTo(Owner[l]))
    BY <1>0, <2>1, <2>3 DEF TypeOK, HonestWires
  <2> QED
    BY <1>0, <2>1, <2>4, <2>5 DEF Wired, AtHome, HonestWires
<1>5. ASSUME ServePublicKey(k) \/ ServeForward(k) \/ ServeQueue(k)
      PROVE  /\ to_server[k] # <<>> /\ m \in AskedBy(Owner[k]) /\ m \in ClientMessage
             /\ \A l \in Conn : to_server'[l] \in Seq(AskedBy(Owner[l]))
  <2>1. to_server[k] # <<>> /\ to_server' = [to_server EXCEPT ![k] = Tail(@)]
    BY <1>5 DEF ServePublicKey, ServeForward, ServeQueue, Serves, Receives
  <2> QED
    BY <2>1, ServedHonest
<1>6. CASE ServePublicKey(k)
  <2>. DEFINE r == IF m.target \in known THEN [kind |-> "key_response", public_key |-> m.target]
                   ELSE [kind |-> "error"]
  <2>1. m.target \in Account
    BY <1>5, <1>6, Kinds DEF ServePublicKey, Serves, Receives
  <2>2. r \in DeliveredTo(Owner[k])
    BY <2>1 DEF DeliveredTo, Honest, ServerResponse
  <2>3. from_server' = Push(k, r) /\ UNCHANGED <<account, server>>
    BY <1>6 DEF ServePublicKey
  <2>. HIDE DEF r
  <2>4. \A d \in Client : from_server'[d] \in Seq(DeliveredTo(d))
    BY <1>0, <2>2, <2>3, PushHonest
  <2> QED
    BY <1>0, <1>5, <1>6, <2>3, <2>4 DEF Wired, AtHome, HonestWires, server
<1>7. CASE ServeForward(k)
  <2>. DEFINE l == clients[m.to]
  <2>1. /\ l # None /\ from_server' = Push(l, m) /\ UNCHANGED <<account, server>>
        /\ m.kind = "message"
    BY <1>7 DEF ServeForward, Serves, Receives
  <2>2. m \in Message /\ m \in Honest(ClientMessage) /\ m.to \in Account
    BY <1>5, <1>7, <2>1, Kinds, PayloadKinds DEF AskedBy
  <2>3. l \in Conn /\ Owner[l] = Home[m.to]
    BY <1>0, <2>1, <2>2 DEF AtHome, TypeOK
  <2>4. m \in DeliveredTo(Owner[l])
    BY <2>2, <2>3, Kinds DEF DeliveredTo, Honest
  <2>. HIDE DEF l, m
  <2>5. \A d \in Client : from_server'[d] \in Seq(DeliveredTo(d))
    BY <1>0, <2>1, <2>3, <2>4, PushHonest
  <2> QED
    BY <1>0, <1>5, <1>7, <2>1, <2>5 DEF Wired, AtHome, HonestWires, server
<1>8. CASE ServeQueue(k)
  <2>1. /\ m.kind = "message"
        /\ server_queue' = [server_queue EXCEPT ![m.to] = Append(@, m)]
        /\ UNCHANGED <<account, from_server, current_user_address, held, clients>>
    BY <1>8 DEF ServeQueue, Serves, Receives
  <2>2. m \in QueuedFor(m.to) /\ m.to \in Account
    BY <1>5, <1>8, <2>1, Kinds, PayloadKinds DEF AskedBy, QueuedFor, Honest
  <2>3. \A a \in Account : server_queue'[a] \in Seq(QueuedFor(a))
    <3>1. server_queue[m.to] \in Seq(QueuedFor(m.to))
      BY <1>0, <2>2 DEF HonestWires
    <3>2. Append(server_queue[m.to], m) \in Seq(QueuedFor(m.to))
      BY <2>2, <3>1, SeqType
    <3> QED
      BY <1>0, <2>1, <2>2, <3>2 DEF TypeOK, HonestWires
  <2> QED
    BY <1>0, <1>5, <1>8, <2>1, <2>3 DEF Wired, AtHome, HonestWires
<1> QED
  BY <1>1, <1>2, <1>3, <1>4, <1>6, <1>7, <1>8 DEF Serve

LEMMA WiredRest ==
  ASSUME KeyInv,
         \/ \E c \in Client : \/ LoseLink(c)
                              \/ \E a \in Account : Login(c, a)
                              \/ \E k \in Conn : Connect(c, k)
         \/ \E k \in Conn : CleanUp(k)
  PROVE  Wired'
<1>. USE DEF KeyInv
<1>0. TypeOK /\ AtHome /\ HonestWires
  BY DEF TypeInv, Wired
<1>1. ASSUME NEW c \in Client, NEW a \in Account, Login(c, a) PROVE Wired'
  <2>. DEFINE request == [kind |-> "register", address |-> a]
  <2>1. /\ Home[a] = c /\ to_server' = Sent(c, <<request>>)
        /\ account' = [account EXCEPT ![c] = a]
        /\ UNCHANGED <<from_server, server>>
    BY <1>1 DEF Login
  <2>2. request \in AskedBy(c)
    BY <2>1 DEF ClientMessage, Honest, AskedBy
  <2>3. <<request>> \in Seq(AskedBy(c))
    BY <2>2, SeqType
  <2>. HIDE DEF request
  <2>4. \A l \in Conn : to_server'[l] \in Seq(AskedBy(Owner[l]))
    BY <1>0, <2>1, <2>3, SentHonest
  <2>5. AtHome'
    BY <1>0, <2>1 DEF AtHome, TypeOK, server
  <2> QED
    BY <1>0, <2>1, <2>4, <2>5 DEF Wired, HonestWires, server
<1>2. ASSUME NEW c \in Client, NEW k \in Conn, Connect(c, k) PROVE Wired'
  <2>1. UNCHANGED <<account, to_server, from_server, current_user_address, held, clients, server_queue>>
    BY <1>2 DEF Connect
  <2> QED
    BY <1>0, <2>1 DEF Wired, AtHome, HonestWires
<1>3. ASSUME NEW c \in Client, LoseLink(c) PROVE Wired'
  <2>1. /\ from_server' = [from_server EXCEPT ![c] = <<>>]
        /\ UNCHANGED <<account, to_server, server>>
    BY <1>3 DEF LoseLink
  <2>2. \A d \in Client : from_server'[d] \in Seq(DeliveredTo(d))
    BY <1>0, <2>1, SeqType DEF TypeOK, HonestWires
  <2> QED
    BY <1>0, <2>1, <2>2 DEF Wired, AtHome, HonestWires, server
<1>4. ASSUME NEW k \in Conn, CleanUp(k) PROVE Wired'
  <2>1. /\ to_server' = [to_server EXCEPT ![k] = <<>>]
        /\ current_user_address' = [current_user_address EXCEPT ![k] = None]
        /\ \A a \in Account : clients'[a] \in {clients[a], None}
        /\ UNCHANGED <<account, from_server, held, server_queue>>
    BY <1>0, <1>4 DEF CleanUp, TypeOK
  <2>2. \A l \in Conn : to_server'[l] \in Seq(AskedBy(Owner[l]))
    BY <1>0, <2>1, SeqType DEF TypeOK, HonestWires
  <2>3. AtHome'
    BY <1>0, <2>1 DEF AtHome, TypeOK
  <2> QED
    BY <1>0, <2>1, <2>2, <2>3 DEF Wired, HonestWires
<1> QED
  BY <1>1, <1>2, <1>3, <1>4

LEMMA KeyStep == KeyInv /\ [Next]_vars => KeyInv'
<1>. SUFFICES ASSUME KeyInv, [Next]_vars PROVE Wired' /\ KeyStaysBetweenPair'
  BY TypeStep DEF KeyInv
<1>1. ASSUME \/ \E c \in Client : \/ LoseLink(c)
                                  \/ \E a \in Account : Login(c, a)
                                  \/ \E k \in Conn : Connect(c, k)
             \/ \E k \in Conn : Serve(k) \/ CleanUp(k)
      PROVE  Wired' /\ KeyStaysBetweenPair'
  <2>1. ephemeral_aes_keys' = ephemeral_aes_keys
    BY <1>1 DEF Login, Connect, LoseLink, CleanUp, Serve, RegisterUser, InsertClient,
       TakePending, SendPending, ServePublicKey, ServeForward, ServeQueue
  <2>2. Wired'
    BY <1>1, WiredServe, WiredRest
  <2> QED
    BY <2>1, <2>2 DEF KeyInv, KeyStaysBetweenPair
<1>2. ASSUME NEW c \in Client, RestartClient(c) PROVE Wired' /\ KeyStaysBetweenPair'
  <2>1. /\ ephemeral_aes_keys' =
             [ephemeral_aes_keys EXCEPT ![c] = [b \in Account |-> None]]
        /\ UNCHANGED <<account, wires, server>>
    BY <1>2 DEF RestartClient
  <2>2. \A d \in Client, q \in Account :
          ephemeral_aes_keys'[d][q] \in {ephemeral_aes_keys[d][q], None}
    BY <2>1 DEF KeyInv, TypeInv, TypeOK
  <2>3. KeyStaysBetweenPair'
    BY <2>2 DEF KeyInv, KeyStaysBetweenPair
  <2> QED
    BY <2>1, <2>3 DEF KeyInv, Wired, AtHome, HonestWires, wires, server
<1>3. CASE UNCHANGED vars
  BY <1>3 DEF vars, wires, server, KeyInv, Wired, AtHome, HonestWires, KeyStaysBetweenPair
<1> QED
  BY <1>1, <1>2, <1>3, KeyPress, KeyReceive DEF Next

\* A session key is known to the client that made it and to the one it was made
\* for, and to nobody else, through restarts, lost connections, account switches
\* and public keys filed under the wrong contact (cli.rs:185-196, :228-252).
THEOREM KeysStayBetweenPairs == Spec => []KeyStaysBetweenPair
<1>1. KeyInv => KeyStaysBetweenPair
  BY DEF KeyInv
<1> QED
  BY KeyInitially, KeyStep, <1>1, PTL DEF Spec

-----------------------------------------------------------------------------
(* What a chat shows *)

\* The screen of client c shows the first rows of the chat opened last, and the
\* rows that follow are unread and from the peer; none follow in an open chat.
ScreenFits(c) ==
  LET p     == active_peer[c]
      rows  == chat_db[c][p]
      shown == message_history[c]
  IN  p # None /\ Len(rows) <= HistoryLimit =>
        /\ Len(rows) = Len(shown) + unread_counts[c][p]
        /\ mode[c] = "chat" => unread_counts[c][p] = 0
        /\ \A i \in 1 .. Len(shown) : shown[i] = rows[i]
        /\ \A i \in Len(shown) + 1 .. Len(rows) : rows[i].sender = p

ScreenInv == TypeInv /\ \A c \in Client : ScreenFits(c)

LEMMA ScreenInitially == Init => ScreenInv
  BY TypeInit DEF Init, ScreenInv, ScreenFits

\* What ScreenFits says of a client depends on its own state only.
LEMMA OthersFit ==
  ASSUME ScreenInv, NEW d \in Client,
         active_peer'[d] = active_peer[d], mode'[d] = mode[d],
         message_history'[d] = message_history[d],
         unread_counts'[d] = unread_counts[d], chat_db'[d] = chat_db[d]
  PROVE  ScreenFits(d)'
  BY DEF ScreenInv, ScreenFits

\* A row that is stored and shown in the open chat.
LEMMA ShownRow ==
  ASSUME ScreenInv, NEW c \in Client, mode[c] = "chat", NEW row \in Row,
         Insert(c, active_peer[c], row), Show(c, row),
         UNCHANGED <<mode, active_peer, unread_counts>>
  PROVE  \A d \in Client : ScreenFits(d)'
<1>. SUFFICES ASSUME NEW d \in Client PROVE ScreenFits(d)'
  OBVIOUS
<1>. USE DEF ScreenInv
<1>. DEFINE p     == active_peer[c]
            rows  == chat_db[c][p]
            shown == message_history[c]
<1>0. TypeOK /\ p \in Account
  BY PeerKnown DEF TypeInv
<1>1. CASE d # c
  BY <1>0, <1>1, OthersFit DEF TypeOK, Insert, Show
<1>2. CASE d = c
  <2>1. rows \in Seq(Row) /\ shown \in Seq(Row) /\ unread_counts[c][p] \in Nat
    BY <1>0 DEF TypeOK
  <2>2. /\ chat_db'[c][p] = Append(rows, row)
        /\ message_history'[c] = Append(shown, row)
        /\ active_peer'[c] = p /\ mode'[c] = "chat"
        /\ unread_counts'[c][p] = unread_counts[c][p]
    BY <1>0 DEF TypeOK, Insert, Show
  <2>3. /\ Len(Append(rows, row)) = Len(rows) + 1 /\ Len(rows) \in Nat
        /\ Len(Append(shown, row)) = Len(shown) + 1 /\ Len(shown) \in Nat
        /\ \A i \in 1 .. Len(rows) : Append(rows, row)[i] = rows[i]
        /\ \A i \in 1 .. Len(shown) : Append(shown, row)[i] = shown[i]
        /\ Append(rows, row)[Len(rows) + 1] = row
        /\ Append(shown, row)[Len(shown) + 1] = row
    BY <2>1, AppendProperties, LenProperties
  <2>4. p # None
    BY <1>0, ChatAssumption
  <2>. HIDE DEF p, rows, shown
  <2>5. ASSUME Len(rows) + 1 <= HistoryLimit
        PROVE  /\ Len(rows) = Len(shown) /\ unread_counts[c][p] = 0
               /\ \A i \in 1 .. Len(shown) : shown[i] = rows[i]
    <3>1. Len(rows) <= HistoryLimit
      BY <2>3, <2>5, ChatAssumption
    <3>2. ScreenFits(c)
      OBVIOUS
    <3> QED
      BY <2>3, <2>4, <3>1, <3>2 DEF ScreenFits, p, rows, shown
  <2>6. ASSUME Len(Append(rows, row)) <= HistoryLimit
        PROVE  /\ Len(Append(rows, row)) = Len(Append(shown, row)) + 0
               /\ \A i \in 1 .. Len(Append(shown, row)) : Append(shown, row)[i] = Append(rows, row)[i]
               /\ \A i \in Len(Append(shown, row)) + 1 .. Len(Append(rows, row)) : FALSE
    BY <2>3, <2>5, <2>6
  <2>7. Len(Append(rows, row)) <= HistoryLimit => unread_counts'[c][p] = 0
    BY <2>2, <2>3, <2>5
  <2> QED
    BY <1>2, <2>2, <2>6, <2>7 DEF ScreenFits
<1> QED
  BY <1>1, <1>2

\* A row that is stored and counted while its chat is not on screen.
LEMMA UnreadRow ==
  ASSUME ScreenInv, NEW c \in Client, NEW from \in Account, NEW row \in Row,
         row.sender = from, ~(active_peer[c] = from /\ mode[c] = "chat"),
         Insert(c, from, row),
         unread_counts' = [unread_counts EXCEPT ![c][from] = @ + 1],
         UNCHANGED <<mode, active_peer, message_history>>
  PROVE  \A d \in Client : ScreenFits(d)'
<1>. SUFFICES ASSUME NEW d \in Client PROVE ScreenFits(d)'
  OBVIOUS
<1>. USE DEF ScreenInv
<1>0. TypeOK /\ active_peer[c] \in Account \cup {None}
  BY DEF TypeInv, TypeOK
<1>1. CASE d # c
  BY <1>0, <1>1, OthersFit DEF TypeOK, Insert
<1>2. CASE d = c /\ active_peer[c] # from
  <2>1. CASE active_peer[c] = None
    BY <1>2, <2>1 DEF ScreenFits
  <2>2. CASE active_peer[c] # None
    <3>. DEFINE p == active_peer[c]
    <3>1. p \in Account /\ p # from
      BY <1>0, <1>2, <2>2
    <3>2. chat_db'[c][p] = chat_db[c][p] /\ unread_counts'[c][p] = unread_counts[c][p]
      BY <1>0, <3>1 DEF TypeOK, Insert
    <3> QED
      BY <1>2, <3>2 DEF ScreenFits
  <2> QED
    BY <2>1, <2>2
<1>3. CASE d = c /\ active_peer[c] = from
  <2>. DEFINE rows  == chat_db[c][from]
              shown == message_history[c]
              n     == unread_counts[c][from]
  <2>1. rows \in Seq(Row) /\ shown \in Seq(Row) /\ n \in Nat
    BY <1>0 DEF TypeOK
  <2>2. /\ chat_db'[c][from] = Append(rows, row)
        /\ unread_counts'[c][from] = n + 1
        /\ active_peer'[c] = from /\ mode'[c] # "chat" /\ message_history'[c] = shown
    BY <1>0, <1>3 DEF TypeOK, Insert
  <2>3. /\ Len(Append(rows, row)) = Len(rows) + 1 /\ Len(rows) \in Nat /\ Len(shown) \in Nat
        /\ \A i \in 1 .. Len(rows) : Append(rows, row)[i] = rows[i]
        /\ Append(rows, row)[Len(rows) + 1] = row
    BY <2>1, AppendProperties, LenProperties
  <2>4. from # None
    BY ChatAssumption
  <2>. HIDE DEF rows, shown, n
  <2>5. ASSUME Len(rows) + 1 <= HistoryLimit
        PROVE  /\ Len(rows) = Len(shown) + n
               /\ \A i \in 1 .. Len(shown) : shown[i] = rows[i]
               /\ \A i \in Len(shown) + 1 .. Len(rows) : rows[i].sender = from
    <3>1. Len(rows) <= HistoryLimit
      BY <2>3, <2>5, ChatAssumption
    <3>2. ScreenFits(c)
      OBVIOUS
    <3> QED
      BY <1>3, <2>4, <3>1, <3>2 DEF ScreenFits, rows, shown, n
  <2>6. ASSUME Len(Append(rows, row)) <= HistoryLimit
        PROVE  /\ Len(Append(rows, row)) = Len(shown) + (n + 1)
               /\ \A i \in 1 .. Len(shown) : shown[i] = Append(rows, row)[i]
               /\ \A i \in Len(shown) + 1 .. Len(Append(rows, row)) :
                    Append(rows, row)[i].sender = from
    <3>1. Len(rows) + 1 <= HistoryLimit
      BY <2>3, <2>6
    <3>2. Len(rows) = Len(shown) + n /\ n \in Nat
      BY <2>1, <2>5, <3>1 DEF n
    <3>3. \A i \in 1 .. Len(shown) : shown[i] = Append(rows, row)[i]
      BY <2>3, <2>5, <3>1, <3>2
    <3>4. ASSUME NEW i \in Len(shown) + 1 .. Len(Append(rows, row))
          PROVE  Append(rows, row)[i].sender = from
      <4>1. CASE i = Len(rows) + 1
        BY <2>3, <4>1
      <4>2. CASE i # Len(rows) + 1
        <5>1. i \in Len(shown) + 1 .. Len(rows) /\ i \in 1 .. Len(rows)
          BY <2>3, <4>2
        <5> QED
          BY <2>3, <2>5, <3>1, <5>1
      <4> QED
        BY <4>1, <4>2
    <3> QED
      BY <2>3, <3>2, <3>3, <3>4
  <2>7. /\ Len(chat_db'[c][active_peer'[c]]) <= HistoryLimit =>
             /\ Len(chat_db'[c][active_peer'[c]])
                  = Len(message_history'[c]) + unread_counts'[c][active_peer'[c]]
             /\ \A i \in 1 .. Len(message_history'[c]) :
                  message_history'[c][i] = chat_db'[c][active_peer'[c]][i]
             /\ \A i \in Len(message_history'[c]) + 1 .. Len(chat_db'[c][active_peer'[c]]) :
                  chat_db'[c][active_peer'[c]][i].sender = active_peer'[c]
        /\ mode'[c] # "chat"
    BY <2>2, <2>6
  <2> QED
    BY <1>3, <2>7 DEF ScreenFits
<1> QED
  BY <1>1, <1>2, <1>3

LEMMA ScreenStep == ScreenInv /\ [Next]_vars => ScreenInv'
<1>. SUFFICES ASSUME ScreenInv, [Next]_vars PROVE \A d \in Client : ScreenFits(d)'
  BY TypeStep DEF ScreenInv
<1>0. TypeInv /\ TypeOK
  BY DEF ScreenInv, TypeInv
<1>1. ASSUME NEW c \in Client, NEW p \in Account, OpenChat(c, p), NEW d \in Client
      PROVE  ScreenFits(d)'
  <2>1. CASE d # c
    BY <1>0, <1>1, <2>1, OthersFit DEF TypeOK, OpenChat, stored
  <2>2. CASE d = c
    <3>. DEFINE rows == chat_db[c][p]
    <3>1. rows \in Seq(Row)
      BY <1>0 DEF TypeOK
    <3>2. /\ active_peer'[c] = p /\ unread_counts'[c][p] = 0
          /\ message_history'[c] = Loaded(rows) /\ chat_db'[c][p] = rows
      BY <1>0, <1>1 DEF TypeOK, OpenChat, stored
    <3>3. Len(rows) <= HistoryLimit => Loaded(rows) = rows
      BY <3>1, LoadedType
    <3>4. Len(rows) \in Nat
      BY <3>1, LenProperties
    <3>. HIDE DEF rows
    <3>5. Len(rows) = Len(rows) + 0 /\ \A i \in Len(rows) + 1 .. Len(rows) : FALSE
      BY <3>4
    <3> QED
      BY <2>2, <3>2, <3>3, <3>5 DEF ScreenFits
  <2> QED
    BY <2>1, <2>2
<1>2. ASSUME NEW c \in Client, NEW d \in Client,
             \/ CloseChat(c)
             \/ \E a \in Account : Login(c, a)
             \/ \E k \in Conn : Connect(c, k)
      PROVE  ScreenFits(d)'
  <2>1. mode'[d] = "chat" => mode[d] = "chat"
    BY <1>0, <1>2 DEF TypeOK, CloseChat, Login, Connect
  <2>2. UNCHANGED <<active_peer, message_history, unread_counts, chat_db>>
    BY <1>2 DEF CloseChat, Login, Connect, stored
  <2> QED
    BY <2>1, <2>2 DEF ScreenInv, ScreenFits
<1>3. ASSUME NEW c \in Client, SendPlain(c) PROVE \A d \in Client : ScreenFits(d)'
  <2>. DEFINE p    == active_peer[c]
              text == [from |-> account[c], to |-> p, nr |-> texts]
              row  == [sender |-> account[c], form |-> "plain", text |-> text]
  <2>1. p \in Account
    BY <1>0, <1>3, PeerKnown DEF SendPlain
  <2>2. row \in Row
    BY <1>0, <2>1, MessageType DEF TypeOK, Row
  <2>3. /\ mode[c] = "chat" /\ Insert(c, p, row) /\ Show(c, row)
        /\ UNCHANGED <<mode, active_peer, unread_counts>>
    BY <1>3 DEF SendPlain
  <2> QED
    BY <2>2, <2>3, ShownRow
<1>4. ASSUME NEW c \in Client, SendSecure(c) PROVE \A d \in Client : ScreenFits(d)'
  <2>. DEFINE p    == active_peer[c]
              text == [from |-> account[c], to |-> p, nr |-> texts]
              row  == [sender |-> account[c], form |-> "secure", text |-> text]
  <2>1. p \in Account
    BY <1>0, <1>4, PeerKnown DEF SendSecure
  <2>2. row \in Row
    BY <1>0, <2>1, MessageType DEF TypeOK, Row
  <2>3. /\ mode[c] = "chat" /\ Insert(c, p, row) /\ Show(c, row)
        /\ UNCHANGED <<mode, active_peer, unread_counts>>
    BY <1>4 DEF SendSecure
  <2> QED
    BY <2>2, <2>3, ShownRow
<1>5. ASSUME NEW c \in Client, Receive(c) PROVE \A d \in Client : ScreenFits(d)'
  <2>. DEFINE m == Head(from_server[c])
  <2>1. ASSUME ReceiveOnScreen(c) \/ ReceiveUnread(c)
        PROVE  m.from \in Account /\ RowOf(c, m) \in Row /\ RowOf(c, m).sender = m.from
    <3>1. from_server[c] # <<>> /\ m.kind = "message" /\ m.payload.kind = "secure_text"
      BY <2>1 DEF ReceiveOnScreen, ReceiveUnread, HandlesPayload, Handles
    <3>2. m \in Message
      BY <1>0, <3>1, Kinds, SeqType DEF TypeOK
    <3> QED
      BY <1>0, <3>1, <3>2, PayloadKinds, RowType
  <2>2. CASE ReceiveOnScreen(c)
    <3>1. /\ mode[c] = "chat" /\ active_peer[c] = m.from
          /\ Insert(c, m.from, RowOf(c, m)) /\ Show(c, RowOf(c, m))
          /\ UNCHANGED <<mode, active_peer, unread_counts>>
      BY <2>2 DEF ReceiveOnScreen
    <3> QED
      BY <2>1, <2>2, <3>1, ShownRow
  <2>3. CASE ReceiveUnread(c)
    <3>1. /\ ~(active_peer[c] = m.from /\ mode[c] = "chat")
          /\ Insert(c, m.from, RowOf(c, m))
          /\ unread_counts' = [unread_counts EXCEPT ![c][m.from] = @ + 1]
          /\ UNCHANGED <<mode, active_peer, message_history>>
      BY <2>3 DEF ReceiveUnread
    <3> QED
      BY <2>1, <2>3, <3>1, UnreadRow
  <2>4. CASE ReceiveKeyInit(c) \/ Ignore(c) \/ ReceiveKeyResponse(c)
    <3>1. UNCHANGED <<view, chat_db>>
      BY <2>4 DEF ReceiveKeyInit, Ignore, ReceiveKeyResponse, stored
    <3> QED
      BY <3>1, OthersFit DEF view
  <2> QED
    BY <1>5, <2>2, <2>3, <2>4 DEF Receive
<1>6. ASSUME \/ \E c \in Client : LoseLink(c)
             \/ \E k \in Conn : Serve(k) \/ CleanUp(k)
      PROVE  \A d \in Client : ScreenFits(d)'
  <2>1. UNCHANGED <<view, stored>>
    BY <1>6 DEF LoseLink, CleanUp, Serve, RegisterUser, InsertClient, TakePending,
       SendPending, ServePublicKey, ServeForward, ServeQueue
  <2> QED
    BY <2>1, OthersFit DEF view, stored
<1>7. ASSUME NEW c \in Client, RestartClient(c), NEW d \in Client PROVE ScreenFits(d)'
  <2>1. CASE d # c
    BY <1>0, <1>7, <2>1, OthersFit DEF TypeOK, RestartClient, stored
  <2>2. CASE d = c
    BY <1>0, <1>7, <2>2 DEF TypeOK, RestartClient, ScreenFits
  <2> QED
    BY <2>1, <2>2
<1>8. CASE UNCHANGED vars
  BY <1>8, OthersFit DEF vars, view, stored
<1> QED
  BY <1>1, <1>2, <1>3, <1>4, <1>5, <1>6, <1>7, <1>8 DEF Next, Press

\* In a chat that fits the limit the rows on screen are those of the chat's
\* database, whatever arrives while it is open, closed or another one is open
\* (cli.rs:202-214, :637-650, :704-772).
THEOREM ScreenIsConversation == Spec => []ScreenShowsConversation
<1>1. ASSUME ScreenInv PROVE ScreenShowsConversation
  <2>. SUFFICES ASSUME NEW c \in Client, mode[c] = "chat",
                       Len(chat_db[c][active_peer[c]]) <= HistoryLimit
                PROVE  message_history[c] = chat_db[c][active_peer[c]]
    BY DEF ScreenShowsConversation
  <2>. DEFINE p     == active_peer[c]
              rows  == chat_db[c][p]
              shown == message_history[c]
  <2>1. p \in Account /\ p # None
    BY <1>1, PeerKnown, ChatAssumption DEF ScreenInv
  <2>2. rows \in Seq(Row) /\ shown \in Seq(Row)
    BY <1>1, <2>1 DEF ScreenInv, TypeInv, TypeOK
  <2>3. /\ Len(rows) = Len(shown) + 0
        /\ \A i \in 1 .. Len(shown) : shown[i] = rows[i]
    BY <1>1, <2>1 DEF ScreenInv, ScreenFits
  <2>4. Len(rows) = Len(shown)
    BY <2>2, <2>3, LenProperties
  <2> QED
    BY <2>2, <2>3, <2>4, SeqEqual
<1> QED
  BY ScreenInitially, ScreenStep, <1>1, PTL DEF Spec

\* Of the chat opened last the unread counter counts exactly the rows that
\* followed what was on screen, all of them from the peer (cli.rs:202-207, :625).
THEOREM UnreadIsExact == Spec => []UnreadIsTheRest
<1>1. ScreenInv => UnreadIsTheRest
  BY DEF ScreenInv, ScreenFits, UnreadIsTheRest
<1> QED
  BY ScreenInitially, ScreenStep, <1>1, PTL DEF Spec

-----------------------------------------------------------------------------
(* What a chat holds *)

\* r is the SecureText of the text with number n.
SecureText(r, n) ==
  r.kind = "message" /\ r.payload.kind = "secure_text" /\ r.payload.text.nr = n

TextAt(s, i, n) == i \in 1..Len(s) /\ SecureText(s[i], n)

\* The places of text n: on the two wires, in a queue, with the handler that took
\* the queue, and as a row that was received from another program and could be
\* read.  A read row is found under <<client, peer>>.
ToAt(k, i, n)     == k \in Conn /\ TextAt(to_server[k], i, n)
FromAt(c, i, n)   == c \in Client /\ TextAt(from_server[c], i, n)
HeldAt(k, i, n)   == k \in Conn /\ TextAt(held[k], i, n)
QueuedAt(a, i, n) == a \in Account /\ TextAt(server_queue[a], i, n)

ReadAt(chat, i, n) ==
  \E c \in Client, p \in Account :
    /\ chat = <<c, p>> /\ Home[p] # c
    /\ i \in 1..Len(chat_db[c][p])
    /\ chat_db[c][p][i].sender = p
    /\ chat_db[c][p][i].form = "secure"
    /\ chat_db[c][p][i].text.nr = n

At(b, o, i, n) ==
  \/ b = "to" /\ ToAt(o, i, n)
  \/ b = "from" /\ FromAt(o, i, n)
  \/ b = "held" /\ HeldAt(o, i, n)
  \/ b = "queue" /\ QueuedAt(o, i, n)
  \/ b = "read" /\ ReadAt(o, i, n)

Unique(n) ==
  \A b, o, i, l, p, j : At(b, o, i, n) /\ At(l, p, j, n) => b = l /\ o = p /\ i = j

\* A text has its number from the counter of texts.
Numbered(n) == \A b, o, i : At(b, o, i, n) => n < texts

\* A row was written by the client or received from the peer.
RightRow(c, p, row) ==
  /\ row.sender = p \/ Home[row.sender] = c
  /\ row.sender = p /\ row.form = "secure" => row.text.from = p /\ Home[row.text.to] = c

RowsRight ==
  \A c \in Client, p \in Account : \A i \in 1..Len(chat_db[c][p]) :
    RightRow(c, p, chat_db[c][p][i])

ReadInv ==
  /\ KeyInv
  /\ RowsRight
  /\ \A n \in Nat : Unique(n) /\ Numbered(n)

\* Where the texts of a wire are after it was extended or its head was taken.
LEMMA TextMoves ==
  ASSUME NEW S, NEW s \in Seq(S), NEW i, NEW n
  PROVE  /\ \A x \in S : TextAt(Append(s, x), i, n) <=>
              TextAt(s, i, n) \/ (i = Len(s) + 1 /\ SecureText(x, n))
         /\ \A t \in Seq(S) : TextAt(s \o t, i, n) <=>
              TextAt(s, i, n) \/ (i \in Nat /\ i > Len(s) /\ TextAt(t, i - Len(s), n))
         /\ s # <<>> => (TextAt(Tail(s), i, n) <=> i \in Nat \ {0} /\ TextAt(s, i + 1, n))
         /\ s # <<>> => (TextAt(s, 1, n) <=> SecureText(Head(s), n))
         /\ ~TextAt(<<>>, i, n)
<1>0. Len(s) \in Nat
  OBVIOUS
<1>1. ASSUME NEW x \in S
      PROVE  TextAt(Append(s, x), i, n) <=>
               TextAt(s, i, n) \/ (i = Len(s) + 1 /\ SecureText(x, n))
  <2>1. /\ Len(Append(s, x)) = Len(s) + 1 /\ Append(s, x)[Len(s) + 1] = x
        /\ \A j \in 1..Len(s) : Append(s, x)[j] = s[j]
    OBVIOUS
  <2> HIDE DEF SecureText
  <2> QED BY <1>0, <2>1 DEF TextAt
<1>2. ASSUME NEW t \in Seq(S)
      PROVE  TextAt(s \o t, i, n) <=>
               TextAt(s, i, n) \/ (i \in Nat /\ i > Len(s) /\ TextAt(t, i - Len(s), n))
  <2>1. /\ Len(s \o t) = Len(s) + Len(t) /\ Len(t) \in Nat
        /\ \A j \in 1..Len(s) : (s \o t)[j] = s[j]
        /\ \A j \in Len(s) + 1 .. Len(s) + Len(t) : (s \o t)[j] = t[j - Len(s)]
    OBVIOUS
  <2>2. CASE i \in 1..Len(s)
    BY <1>0, <2>1, <2>2 DEF TextAt
  <2>3. CASE i \in Len(s) + 1 .. Len(s) + Len(t)
    BY <1>0, <2>1, <2>3 DEF TextAt
  <2>4. CASE i \notin 1 .. Len(s) + Len(t)
    BY <1>0, <2>1, <2>4 DEF TextAt
  <2> QED BY <1>0, <2>1, <2>2, <2>3, <2>4
<1>3. ASSUME s # <<>>
      PROVE  TextAt(Tail(s), i, n) <=> i \in Nat \ {0} /\ TextAt(s, i + 1, n)
  <2>1. /\ Len(Tail(s)) = Len(s) - 1
        /\ \A j \in 1..(Len(s) - 1) : Tail(s)[j] = s[j + 1]
    BY <1>3
  <2> QED BY <1>0, <2>1 DEF TextAt
<1>4. s # <<>> => (TextAt(s, 1, n) <=> SecureText(Head(s), n))
  BY DEF TextAt
<1>5. ~TextAt(<<>>, i, n)
  BY DEF TextAt
<1> HIDE DEF TextAt, SecureText
<1> QED BY <1>1, <1>2, <1>3, <1>4, <1>5

\* The same for one entry that is added, and for the head.
LEMMA TextAppended ==
  ASSUME NEW S, NEW s \in Seq(S), NEW x \in S, NEW i, NEW n
  PROVE  TextAt(Append(s, x), i, n) <=>
           TextAt(s, i, n) \/ (i = Len(s) + 1 /\ SecureText(x, n))
<1> HIDE DEF TextAt, SecureText
<1> QED BY TextMoves

LEMMA TextTaken ==
  ASSUME NEW S, NEW s \in Seq(S), s # <<>>, NEW i, NEW n
  PROVE  /\ TextAt(Tail(s), i, n) <=> i \in Nat \ {0} /\ TextAt(s, i + 1, n)
         /\ TextAt(s, 1, n) <=> SecureText(Head(s), n)
<1> HIDE DEF TextAt, SecureText
<1> QED BY TextMoves

\* A client that sends no SecureText moves none.
LEMMA SentQuiet ==
  ASSUME TypeInv, NEW c \in Client, NEW requests \in Seq(ClientMessage),
         \A i \in 1..Len(requests), n \in Nat : ~SecureText(requests[i], n),
         to_server' = Sent(c, requests)
  PROVE  \A o, i : \A n \in Nat : ToAt(o, i, n)' <=> ToAt(o, i, n)
<1>. SUFFICES ASSUME NEW k \in Conn, NEW i, NEW n \in Nat
              PROVE  TextAt(to_server'[k], i, n) <=> TextAt(to_server[k], i, n)
  BY DEF ToAt
<1>1. ~TextAt(requests, i - Len(to_server[k]), n)
  BY DEF TextAt
<1>2. to_server'[k] = to_server[k] \o requests \/ to_server'[k] = to_server[k]
  <2>1. Sent(c, requests)[k] =
          IF k = net_client[c] THEN to_server[k] \o requests ELSE to_server[k]
    BY SentType
  <2> QED
    BY <2>1
<1>3. to_server[k] \in Seq(ClientMessage)
  BY DEF TypeInv, TypeOK
<1>4. TextAt(to_server[k] \o requests, i, n) <=>
        \/ TextAt(to_server[k], i, n)
        \/ /\ i \in Nat /\ i > Len(to_server[k])
           /\ TextAt(requests, i - Len(to_server[k]), n)
  BY <1>3, TextMoves
<1> QED
  BY <1>1, <1>2, <1>4

\* The head of a wire is taken.
LEMMA ServedMoves ==
  ASSUME TypeOK, NEW k \in Conn, to_server[k] # <<>>,
         to_server' = [to_server EXCEPT ![k] = Tail(@)], NEW o, NEW i, NEW n
  PROVE  /\ o # k => (ToAt(o, i, n)' <=> ToAt(o, i, n))
         /\ ToAt(k, i, n)' <=> i \in Nat \ {0} /\ ToAt(k, i + 1, n)
         /\ ToAt(k, 1, n) <=> SecureText(Head(to_server[k]), n)
<1>1. to_server \in [Conn -> Seq(ClientMessage)]
  BY DEF TypeOK
<1>2. /\ to_server'[k] = Tail(to_server[k])
      /\ \A l \in Conn : l # k => to_server'[l] = to_server[l]
  BY <1>1
<1>3. /\ TextAt(Tail(to_server[k]), i, n) <=> i \in Nat \ {0} /\ TextAt(to_server[k], i + 1, n)
      /\ TextAt(to_server[k], 1, n) <=> SecureText(Head(to_server[k]), n)
  BY <1>1, TextTaken
<1> QED BY <1>2, <1>3 DEF ToAt

LEMMA HandledMoves ==
  ASSUME TypeOK, NEW c \in Client, from_server[c] # <<>>,
         from_server' = [from_server EXCEPT ![c] = Tail(@)], NEW o, NEW i, NEW n
  PROVE  /\ o # c => (FromAt(o, i, n)' <=> FromAt(o, i, n))
         /\ FromAt(c, i, n)' <=> i \in Nat \ {0} /\ FromAt(c, i + 1, n)
         /\ FromAt(c, 1, n) <=> SecureText(Head(from_server[c]), n)
<1>1. from_server \in [Client -> Seq(ServerResponse)]
  BY DEF TypeOK
<1>2. /\ from_server'[c] = Tail(from_server[c])
      /\ \A d \in Client : d # c => from_server'[d] = from_server[d]
  BY <1>1
<1>3. /\ TextAt(Tail(from_server[c]), i, n) <=> i \in Nat \ {0} /\ TextAt(from_server[c], i + 1, n)
      /\ TextAt(from_server[c], 1, n) <=> SecureText(Head(from_server[c]), n)
  BY <1>1, TextTaken
<1> QED BY <1>2, <1>3 DEF FromAt

\* The head of what a handler holds is taken.
LEMMA HeldMoves ==
  ASSUME TypeOK, NEW k \in Conn, held[k] # <<>>,
         held' = [held EXCEPT ![k] = Tail(@)], NEW o, NEW i, NEW n
  PROVE  /\ o # k => (HeldAt(o, i, n)' <=> HeldAt(o, i, n))
         /\ HeldAt(k, i, n)' <=> i \in Nat \ {0} /\ HeldAt(k, i + 1, n)
         /\ HeldAt(k, 1, n) <=> SecureText(Head(held[k]), n)
<1>1. held \in [Conn -> Seq(Message)]
  BY DEF TypeOK
<1>2. /\ held'[k] = Tail(held[k])
      /\ \A l \in Conn : l # k => held'[l] = held[l]
  BY <1>1
<1>3. /\ TextAt(Tail(held[k]), i, n) <=> i \in Nat \ {0} /\ TextAt(held[k], i + 1, n)
      /\ TextAt(held[k], 1, n) <=> SecureText(Head(held[k]), n)
  BY <1>1, TextTaken
<1> QED BY <1>2, <1>3 DEF HeldAt

\* A response goes behind those on their way to the client of the connection.
LEMMA PushMoves ==
  ASSUME TypeInv, NEW k \in Conn, NEW r \in ServerResponse, from_server' = Push(k, r),
         NEW o, NEW i, NEW n, FromAt(o, i, n)'
  PROVE  \/ FromAt(o, i, n)
         \/ o = Owner[k] /\ i = Len(from_server[Owner[k]]) + 1 /\ SecureText(r, n)
<1>1. o \in Client /\ TextAt(from_server'[o], i, n)
  BY DEF FromAt
<1>2. from_server'[o] = IF net_client[o] = k THEN Append(from_server[o], r) ELSE from_server[o]
  BY <1>1, PushType
<1>3. CASE net_client[o] = k
  <2>1. from_server[o] \in Seq(ServerResponse)
    BY <1>1 DEF TypeInv, TypeOK
  <2>2. TextAt(Append(from_server[o], r), i, n) <=>
          TextAt(from_server[o], i, n) \/ (i = Len(from_server[o]) + 1 /\ SecureText(r, n))
    BY <2>1, TextAppended
  <2>3. o = Owner[k]
    BY <1>1, <1>3, LinkOwner, NoneIsApart
  <2> QED
    BY <1>1, <1>2, <1>3, <2>2, <2>3 DEF FromAt
<1> QED
  BY <1>1, <1>2, <1>3 DEF FromAt

\* A row is added to a chat.
LEMMA InsertMoves ==
  ASSUME TypeOK, RowsRight, NEW c \in Client, NEW p \in Account, NEW row \in Row,
         RightRow(c, p, row), Insert(c, p, row)
  PROVE  /\ RowsRight'
         /\ \A chat, i, n : ReadAt(chat, i, n)' <=>
              \/ ReadAt(chat, i, n)
              \/ /\ chat = <<c, p>> /\ Home[p] # c /\ i = Len(chat_db[c][p]) + 1
                 /\ row.sender = p /\ row.form = "secure" /\ row.text.nr = n
<1>1. /\ chat_db \in [Client -> [Account -> Seq(Row)]]
      /\ chat_db' = [chat_db EXCEPT ![c][p] = Append(@, row)]
  BY DEF TypeOK, Insert
<1>2. /\ chat_db'[c][p] = Append(chat_db[c][p], row)
      /\ \A d \in Client, q \in Account : d # c \/ q # p => chat_db'[d][q] = chat_db[d][q]
      /\ Len(chat_db[c][p]) \in Nat
      /\ Len(chat_db'[c][p]) = Len(chat_db[c][p]) + 1
      /\ chat_db'[c][p][Len(chat_db[c][p]) + 1] = row
      /\ \A i \in 1..Len(chat_db[c][p]) : chat_db'[c][p][i] = chat_db[c][p][i]
  BY <1>1
<1>3. RowsRight'
  <2> SUFFICES ASSUME NEW d \in Client, NEW q \in Account, NEW i \in 1..Len(chat_db'[d][q])
               PROVE  RightRow(d, q, chat_db'[d][q][i])
    BY DEF RowsRight, RightRow
  <2>1. CASE d # c \/ q # p
    BY <1>2, <2>1 DEF RowsRight
  <2>2. CASE d = c /\ q = p /\ i \in 1..Len(chat_db[c][p])
    BY <1>2, <2>2 DEF RowsRight
  <2>3. CASE d = c /\ q = p /\ i = Len(chat_db[c][p]) + 1
    BY <1>2, <2>3
  <2> QED BY <1>2, <2>1, <2>2, <2>3
<1>4. ASSUME NEW chat, NEW i, NEW n
      PROVE  ReadAt(chat, i, n)' <=>
               \/ ReadAt(chat, i, n)
               \/ /\ chat = <<c, p>> /\ Home[p] # c /\ i = Len(chat_db[c][p]) + 1
                  /\ row.sender = p /\ row.form = "secure" /\ row.text.nr = n
  <2>1. ASSUME NEW d \in Client, NEW q \in Account, chat = <<d, q>>
        PROVE  ReadAt(chat, i, n)' <=>
                 \/ ReadAt(chat, i, n)
                 \/ /\ chat = <<c, p>> /\ Home[p] # c /\ i = Len(chat_db[c][p]) + 1
                    /\ row.sender = p /\ row.form = "secure" /\ row.text.nr = n
    <3>0. \A e, x : chat = <<e, x>> => e = d /\ x = q
      BY <2>1
    <3>a. /\ (\E e \in Client, x \in Account : chat = <<e, x>>)
          /\ \A e \in Client, x \in Account : chat = <<e, x>> <=> e = d /\ x = q
      BY <2>1, <3>0
    <3>1. /\ ReadAt(chat, i, n)' <=>
               /\ Home[q] # d /\ i \in 1..Len(chat_db'[d][q]) /\ chat_db'[d][q][i].sender = q
               /\ chat_db'[d][q][i].form = "secure" /\ chat_db'[d][q][i].text.nr = n
          /\ ReadAt(chat, i, n) <=>
               /\ Home[q] # d /\ i \in 1..Len(chat_db[d][q]) /\ chat_db[d][q][i].sender = q
               /\ chat_db[d][q][i].form = "secure" /\ chat_db[d][q][i].text.nr = n
      BY <3>a DEF ReadAt
    <3>2. chat = <<c, p>> <=> d = c /\ q = p
      BY <2>1
    <3>3. CASE d # c \/ q # p
      BY <1>2, <3>1, <3>2, <3>3
    <3>4. CASE d = c /\ q = p
      <4> DEFINE L == Len(chat_db[c][p])
      <4>1. /\ L \in Nat /\ Len(chat_db'[c][p]) = L + 1 /\ chat_db'[c][p][L + 1] = row
            /\ \A j \in 1..L : chat_db'[c][p][j] = chat_db[c][p][j]
        BY <1>2
      <4> HIDE DEF L
      <4>2. i \in 1..(L + 1) <=> i \in 1..L \/ i = L + 1
        BY <4>1
      <4>3. L + 1 \notin 1..L
        BY <4>1
      <4>4. /\ ReadAt(chat, i, n)' <=>
                 /\ Home[p] # c /\ i \in 1..(L + 1) /\ chat_db'[c][p][i].sender = p
                 /\ chat_db'[c][p][i].form = "secure" /\ chat_db'[c][p][i].text.nr = n
            /\ ReadAt(chat, i, n) <=>
                 /\ Home[p] # c /\ i \in 1..L /\ chat_db[c][p][i].sender = p
                 /\ chat_db[c][p][i].form = "secure" /\ chat_db[c][p][i].text.nr = n
        BY <3>1, <3>4, <4>1 DEF L
      <4>5. ReadAt(chat, i, n)' <=>
              \/ ReadAt(chat, i, n)
              \/ /\ chat = <<c, p>> /\ Home[p] # c /\ i = L + 1
                 /\ row.sender = p /\ row.form = "secure" /\ row.text.nr = n
        BY <3>2, <3>4, <4>1, <4>2, <4>3, <4>4
      <4> QED BY <4>5 DEF L
    <3> QED BY <3>3, <3>4
  <2>2. ASSUME ~\E d \in Client, q \in Account : chat = <<d, q>>
        PROVE  ~ReadAt(chat, i, n) /\ ~ReadAt(chat, i, n)' /\ chat # <<c, p>>
    BY <2>2 DEF ReadAt
  <2> QED BY <2>1, <2>2
<1> QED BY <1>3, <1>4

\* The texts stay where they are, or are lost.
LEMMA TextsStay ==
  ASSUME ReadInv, KeyInv', RowsRight', texts <= texts',
         \A b, o, i : \A n \in Nat : At(b, o, i, n)' => At(b, o, i, n)
  PROVE  ReadInv'
<1>1. texts \in Nat /\ texts' \in Nat
  BY DEF ReadInv, KeyInv, TypeInv, TypeOK
<1>2. ASSUME NEW n \in Nat PROVE Unique(n)' /\ Numbered(n)'
  BY <1>1 DEF ReadInv, Unique, Numbered
<1> QED BY <1>2 DEF ReadInv

\* The head of one box is taken, and its text lost or put in one new place.
HeadGoes(K, box, l, p, j) ==
  \A b, o, i : \A n \in Nat : At(b, o, i, n)' =>
    \/ At(b, o, i, n) /\ ~(b = K /\ o = box)
    \/ b = K /\ o = box /\ i \in Nat \ {0} /\ At(K, box, i + 1, n)
    \/ b = l /\ o = p /\ i = j /\ At(K, box, 1, n)

LEMMA HeadMoves ==
  ASSUME ReadInv, KeyInv', RowsRight', texts' = texts,
         NEW K, NEW box, NEW l, NEW p, NEW j, HeadGoes(K, box, l, p, j)
  PROVE  ReadInv'
<1>1. ASSUME NEW n \in Nat PROVE Unique(n)' /\ Numbered(n)'
  <2>1. /\ \A b, o, i, b2, o2, i2 : At(b, o, i, n) /\ At(b2, o2, i2, n)
             => b = b2 /\ o = o2 /\ i = i2
        /\ \A b, o, i : At(b, o, i, n) => n < texts
    BY DEF ReadInv, Unique, Numbered
  <2>2. \A b, o, i : At(b, o, i, n)' =>
           \/ At(b, o, i, n) /\ ~(b = K /\ o = box)
           \/ b = K /\ o = box /\ i \in Nat \ {0} /\ At(K, box, i + 1, n)
           \/ b = l /\ o = p /\ i = j /\ At(K, box, 1, n)
    BY DEF HeadGoes
  <2>3. \A i \in Nat \ {0} : i + 1 # 1 /\ \A h \in Nat \ {0} : i + 1 = h + 1 => i = h
    OBVIOUS
  <2>4. Unique(n)'
    <3> SUFFICES ASSUME NEW b, NEW o, NEW i, NEW b2, NEW o2, NEW i2,
                        At(b, o, i, n)', At(b2, o2, i2, n)'
                 PROVE  b = b2 /\ o = o2 /\ i = i2
      BY DEF Unique
    <3>1. CASE At(b, o, i, n) /\ ~(b = K /\ o = box)
      BY <2>1, <2>2, <3>1
    <3>2. CASE b = K /\ o = box /\ i \in Nat \ {0} /\ At(K, box, i + 1, n)
      BY <2>1, <2>2, <2>3, <3>2
    <3>3. CASE b = l /\ o = p /\ i = j /\ At(K, box, 1, n)
      BY <2>1, <2>2, <2>3, <3>3
    <3> QED BY <2>2, <3>1, <3>2, <3>3
  <2>5. Numbered(n)'
    BY <2>1, <2>2 DEF Numbered
  <2> QED BY <2>4, <2>5
<1> QED BY <1>1 DEF ReadInv

LEMMA ReadInitially == Init => ReadInv
<1> SUFFICES ASSUME Init PROVE ReadInv
  OBVIOUS
<1>1. \A b, o, i, n : ~At(b, o, i, n)
  BY DEF Init, At, ToAt, FromAt, HeldAt, QueuedAt, ReadAt, TextAt
<1>2. RowsRight
  BY DEF Init, RowsRight
<1> QED BY <1>1, <1>2, KeyInitially DEF ReadInv, Unique, Numbered

\* What a step leaves alone, the texts in it stay.
LEMMA Unmoved ==
  /\ chat_db' = chat_db => \A o, i, n : ReadAt(o, i, n)' <=> ReadAt(o, i, n)
  /\ server_queue' = server_queue => \A o, i, n : QueuedAt(o, i, n)' <=> QueuedAt(o, i, n)
  /\ held' = held => \A o, i, n : HeldAt(o, i, n)' <=> HeldAt(o, i, n)
  /\ from_server' = from_server => \A o, i, n : FromAt(o, i, n)' <=> FromAt(o, i, n)
  /\ to_server' = to_server => \A o, i, n : ToAt(o, i, n)' <=> ToAt(o, i, n)
  BY DEF ReadAt, QueuedAt, HeldAt, FromAt, ToAt

LEMMA ReadPress ==
  ASSUME ReadInv, KeyInv', NEW c \in Client, Press(c)
  PROVE  ReadInv'
<1>0. /\ KeyInv /\ TypeInv /\ TypeOK /\ RowsRight /\ Home[account[c]] = c
      /\ texts \in Nat /\ account[c] \in Account
  BY DEF ReadInv, KeyInv, Wired, AtHome, TypeInv, TypeOK
<1>k. chat_db' = chat_db => RowsRight'
  BY <1>0 DEF RowsRight
<1>1. ASSUME NEW p \in Account, OpenChat(c, p) PROVE ReadInv'
  <2> DEFINE request == [kind |-> "get_public_key", target |-> p]
  <2>1. /\ to_server' = Sent(c, <<request>>)
        /\ UNCHANGED <<chat_db, from_server, held, server_queue, texts>>
    BY <1>1 DEF OpenChat, stored, server
  <2>2. request \in ClientMessage /\ \A n : ~SecureText(request, n)
    BY DEF ClientMessage, SecureText
  <2> HIDE DEF request
  <2>3. <<request>> \in Seq(ClientMessage) /\ \A i \in 1..Len(<<request>>), n \in Nat :
          ~SecureText(<<request>>[i], n)
    BY <2>2
  <2>4. \A o, i : \A n \in Nat : ToAt(o, i, n)' <=> ToAt(o, i, n)
    BY <1>0, <2>1, <2>3, SentQuiet
  <2>5. \A b, o, i : \A n \in Nat : At(b, o, i, n)' => At(b, o, i, n)
    BY <2>1, <2>4, Unmoved DEF At
  <2> QED BY <1>0, <1>k, <2>1, <2>5, TextsStay
<1>2. CASE CloseChat(c)
  <2>1. UNCHANGED <<to_server, from_server, held, server_queue, chat_db, texts>>
    BY <1>2 DEF CloseChat, stored, wires, server, counters
  <2>2. \A b, o, i : \A n \in Nat : At(b, o, i, n)' => At(b, o, i, n)
    BY <2>1, Unmoved DEF At
  <2> QED BY <1>0, <1>k, <2>1, <2>2, TextsStay
<1>3. CASE SendPlain(c)
  <2> DEFINE p    == active_peer[c]
             text == [from |-> account[c], to |-> p, nr |-> texts]
             row  == [sender |-> account[c], form |-> "plain", text |-> text]
             msg  == MessageTo(c, p, [kind |-> "plain", text |-> text])
  <2>1. /\ to_server' = Sent(c, <<msg>>) /\ Insert(c, p, row)
        /\ UNCHANGED <<from_server, held, server_queue>> /\ texts' = texts + 1
    BY <1>3 DEF SendPlain, server
  <2>2. p \in Account
    BY <1>0, <1>3, PeerKnown DEF SendPlain
  <2>3. /\ msg \in ClientMessage /\ \A n : ~SecureText(msg, n)
        /\ row \in Row /\ RightRow(c, p, row) /\ row.form # "secure"
    BY <1>0, <2>2, MessageType, Kinds DEF SecureText, MessageTo, Row, RightRow
  <2> HIDE DEF msg, row, p
  <2>4. <<msg>> \in Seq(ClientMessage) /\ \A i \in 1..Len(<<msg>>), n \in Nat :
          ~SecureText(<<msg>>[i], n)
    BY <2>3
  <2>5. \A o, i : \A n \in Nat : ToAt(o, i, n)' <=> ToAt(o, i, n)
    BY <1>0, <2>1, <2>4, SentQuiet
  <2>6. RowsRight' /\ \A o, i, n : ReadAt(o, i, n)' <=> ReadAt(o, i, n)
    BY <1>0, <2>1, <2>2, <2>3, InsertMoves
  <2>7. \A b, o, i : \A n \in Nat : At(b, o, i, n)' => At(b, o, i, n)
    BY <2>1, <2>5, <2>6, Unmoved DEF At
  <2>8. texts <= texts'
    BY <1>0, <2>1
  <2> QED BY <1>0, <2>6, <2>7, <2>8, TextsStay
<1>4. CASE SendSecure(c)
  <2> DEFINE p     == active_peer[c]
             first == ephemeral_aes_keys[c][p] = None
             key   == IF first THEN FreshKey(c, p) ELSE ephemeral_aes_keys[c][p]
             text  == [from |-> account[c], to |-> p, nr |-> texts]
             row   == [sender |-> account[c], form |-> "secure", text |-> text]
             init  == IF first THEN <<KeyInit(c, p, public_key[c][p], key)>> ELSE <<>>
             msg   == MessageTo(c, p, [kind |-> "secure_text", key |-> key, text |-> text])
  <2>1. /\ to_server' = Sent(c, Append(init, msg)) /\ Insert(c, p, row)
        /\ UNCHANGED <<from_server, held, server_queue>> /\ texts' = texts + 1
        /\ mode[c] = "chat" /\ public_key[c][p] # None
    BY <1>4 DEF SendSecure, server
  <2>2. p \in Account
    BY <1>0, <2>1, PeerKnown
  <2>3. key \in AesKey /\ public_key[c][p] \in Account
    <3>1. FreshKey(c, p) \in AesKey
      BY <1>0, <2>2, MessageType
    <3>2. ephemeral_aes_keys[c][p] \in AesKey \cup {None}
      BY <1>0, <2>2 DEF TypeOK
    <3>3. public_key[c][p] \in Account \cup {None}
      BY <1>0, <2>2 DEF TypeOK
    <3> QED BY <2>1, <3>1, <3>2, <3>3
  <2>4. /\ msg \in ClientMessage /\ \A n : SecureText(msg, n) <=> n = texts
        /\ row \in Row /\ RightRow(c, p, row) /\ (Home[p] # c => row.sender # p)
    <3>1. text \in Text /\ msg \in Message
      BY <1>0, <2>2, <2>3, MessageType
    <3>2. msg \in ClientMessage /\ \A n : SecureText(msg, n) <=> n = texts
      BY <3>1, Kinds DEF SecureText, MessageTo
    <3>3. row \in Row
      BY <1>0, <3>1 DEF Row
    <3>4. RightRow(c, p, row) /\ (Home[p] # c => row.sender # p)
      BY <1>0 DEF RightRow
    <3> QED BY <3>2, <3>3, <3>4
  <2>5. /\ init \in Seq(ClientMessage)
        /\ \A i, n : ~TextAt(init, i, n)
    <3>1. CASE first
      <4> DEFINE m == KeyInit(c, p, public_key[c][p], key)
      <4>1. m \in ClientMessage /\ \A n : ~SecureText(m, n)
        BY <1>0, <2>2, <2>3, MessageType, Kinds DEF SecureText, KeyInit, MessageTo
      <4> HIDE DEF m
      <4>2. <<m>> \in Seq(ClientMessage) /\ \A i, n : ~TextAt(<<m>>, i, n)
        BY <4>1 DEF TextAt
      <4> QED BY <3>1, <4>2 DEF m
    <3>2. CASE ~first
      BY <3>2 DEF TextAt
    <3> QED BY <3>1, <3>2
  <2> HIDE DEF msg, row, p, init
  <2>6. RowsRight' /\ \A o, i, n : ReadAt(o, i, n)' <=> ReadAt(o, i, n)
    BY <1>0, <2>1, <2>2, <2>4, InsertMoves
  <2> DEFINE k == net_client[c]
             x == Len(to_server[k]) + Len(init) + 1
  <2>7. ASSUME NEW o, NEW i, NEW n \in Nat, ToAt(o, i, n)', ~ToAt(o, i, n)
        PROVE  o = k /\ i = x /\ n = texts
    <3>1. o \in Conn /\ TextAt(to_server'[o], i, n) /\ ~TextAt(to_server[o], i, n)
      BY <2>7 DEF ToAt
    <3>2. Append(init, msg) \in Seq(ClientMessage) /\ to_server[o] \in Seq(ClientMessage)
          /\ Len(to_server[o]) \in Nat /\ Len(init) \in Nat
      BY <1>0, <2>4, <2>5, <3>1 DEF TypeOK
    <3>3. Sent(c, Append(init, msg))[o] =
            IF o = k THEN to_server[o] \o Append(init, msg) ELSE to_server[o]
      <4> DEFINE requests == Append(init, msg)
      <4>1. requests \in Seq(ClientMessage) /\ o \in Conn
        BY <3>1, <3>2
      <4> HIDE DEF requests
      <4>2. Sent(c, requests)[o] =
              IF o = net_client[c] THEN to_server[o] \o requests ELSE to_server[o]
        BY <1>0, <4>1, SentType
      <4> QED
        BY <4>2 DEF requests, k
    <3>4. o = k /\ TextAt(to_server[o] \o Append(init, msg), i, n)
      BY <2>1, <3>1, <3>3
    <3>5. TextAt(to_server[o] \o Append(init, msg), i, n) <=>
            \/ TextAt(to_server[o], i, n)
            \/ /\ i \in Nat /\ i > Len(to_server[o])
               /\ TextAt(Append(init, msg), i - Len(to_server[o]), n)
      BY <3>2, TextMoves
    <3>6. i \in Nat /\ TextAt(Append(init, msg), i - Len(to_server[o]), n)
      BY <3>1, <3>4, <3>5
    <3>7. TextAt(Append(init, msg), i - Len(to_server[o]), n) <=>
            \/ TextAt(init, i - Len(to_server[o]), n)
            \/ i - Len(to_server[o]) = Len(init) + 1 /\ SecureText(msg, n)
      BY <2>4, <2>5, TextAppended
    <3>8. i - Len(to_server[o]) = Len(init) + 1 /\ n = texts
      BY <2>4, <2>5, <3>6, <3>7
    <3> QED BY <3>2, <3>4, <3>6, <3>8
  <2> HIDE DEF k, x
  <2>8. \A b, o, i : \A n \in Nat : At(b, o, i, n)' =>
          At(b, o, i, n) \/ (b = "to" /\ o = k /\ i = x /\ n = texts)
    BY <2>1, <2>6, <2>7, Unmoved DEF At
  <2>9. ASSUME NEW n \in Nat PROVE Unique(n)' /\ Numbered(n)'
    <3>1. /\ \A b, o, i, b2, o2, i2 : At(b, o, i, n) /\ At(b2, o2, i2, n)
               => b = b2 /\ o = o2 /\ i = i2
          /\ \A b, o, i : At(b, o, i, n) => n < texts
      BY DEF ReadInv, Unique, Numbered
    <3>2. CASE n = texts
      BY <1>0, <2>1, <2>8, <3>1, <3>2 DEF Unique, Numbered
    <3>3. CASE n # texts
      BY <1>0, <2>1, <2>8, <3>1, <3>3 DEF Unique, Numbered
    <3> QED BY <3>2, <3>3
  <2> QED BY <2>6, <2>9 DEF ReadInv
<1> QED
  BY <1>1, <1>2, <1>3, <1>4 DEF Press

LEMMA ReadReceive ==
  ASSUME ReadInv, KeyInv', NEW c \in Client, Receive(c)
  PROVE  ReadInv'
<1>0. KeyInv /\ TypeInv /\ TypeOK /\ RowsRight /\ HonestWires
  BY DEF ReadInv, KeyInv, Wired, TypeInv
<1>k. chat_db' = chat_db => RowsRight'
  BY <1>0 DEF RowsRight
<1> DEFINE m == Head(from_server[c])
<1>1. /\ from_server[c] # <<>> /\ from_server' = [from_server EXCEPT ![c] = Tail(@)]
      /\ UNCHANGED <<held, server_queue, texts>>
  BY DEF Receive, ReceiveKeyInit, ReceiveOnScreen, ReceiveUnread, Ignore,
     ReceiveKeyResponse, HandlesPayload, Handles, view, server, counters
<1>2. \A o, i : \A n \in Nat :
        /\ o # c => (FromAt(o, i, n)' <=> FromAt(o, i, n))
        /\ FromAt(c, i, n)' <=> i \in Nat \ {0} /\ FromAt(c, i + 1, n)
        /\ FromAt(c, 1, n) <=> SecureText(m, n)
  BY <1>0, <1>1, HandledMoves
<1>3. m \in DeliveredTo(c)
  BY <1>0, <1>1, SeqType DEF HonestWires
<1>4. CASE ReceiveOnScreen(c) \/ ReceiveUnread(c)
  <2> DEFINE p   == m.from
             row == RowOf(c, m)
             h   == Len(chat_db[c][p]) + 1
  <2>1. Insert(c, p, row) /\ m.payload.kind = "secure_text" /\ m.kind = "message"
        /\ to_server' = to_server
    BY <1>4 DEF ReceiveOnScreen, ReceiveUnread, HandlesPayload, Handles
  <2>2. /\ m \in Message /\ p \in Account /\ Home[m.to] = c
        /\ m.payload.text.from = p /\ m.payload.text.to = m.to
    BY <1>3, <2>1, Kinds, PayloadKinds DEF DeliveredTo, Honest
  <2>3. /\ row \in Row /\ row.sender = p
        /\ row.form = "secure" => row.text = m.payload.text
    BY <1>0, <2>1, <2>2, RowType DEF RowOf
  <2>4. RightRow(c, p, row)
    BY <2>2, <2>3 DEF RightRow
  <2>5. \A n : SecureText(m, n) <=> m.payload.text.nr = n
    BY <2>1 DEF SecureText
  <2> HIDE DEF row, p, m
  <2>6. RowsRight' /\ \A o, i, n : ReadAt(o, i, n)' <=>
          \/ ReadAt(o, i, n)
          \/ /\ o = <<c, p>> /\ Home[p] # c /\ i = h
             /\ row.sender = p /\ row.form = "secure" /\ row.text.nr = n
    BY <1>0, <2>1, <2>2, <2>3, <2>4, InsertMoves
  <2> HIDE DEF h
  <2>7. \A o, i : \A n \in Nat : ReadAt(o, i, n)' =>
          ReadAt(o, i, n) \/ (o = <<c, p>> /\ i = h /\ FromAt(c, 1, n))
    BY <1>2, <2>3, <2>5, <2>6
  <2>8. HeadGoes("from", c, "read", <<c, p>>, h)
    BY <1>1, <1>2, <2>1, <2>7, Unmoved DEF At, HeadGoes
  <2> QED BY <1>0, <1>1, <2>6, <2>8, HeadMoves
<1>5. CASE ReceiveKeyInit(c) \/ Ignore(c) \/ ReceiveKeyResponse(c)
  <2>1. chat_db' = chat_db
    BY <1>5 DEF ReceiveKeyInit, Ignore, ReceiveKeyResponse, stored
  <2>2. \A o, i : \A n \in Nat : ToAt(o, i, n)' <=> ToAt(o, i, n)
    <3>1. CASE to_server' = to_server
      BY <3>1, Unmoved
    <3>2. CASE to_server' # to_server
      <4> DEFINE p   == active_peer[c]
                 pub == m.public_key
                 msg == KeyInit(c, p, pub, FreshKey(c, p))
      <4>1. to_server' = Sent(c, <<msg>>) /\ m.kind = "key_response"
        BY <1>5, <3>2 DEF ReceiveKeyInit, Ignore, ReceiveKeyResponse, Handles
      <4>2. p \in Account /\ pub \in Account
        BY <1>0, <1>1, <1>3, <4>1, PeerKnown, Kinds DEF DeliveredTo, Honest
      <4>3. msg \in ClientMessage
        BY <1>0, <4>2, MessageType, Kinds
      <4>4. \A n : ~SecureText(msg, n)
        BY DEF SecureText, KeyInit, MessageTo
      <4> HIDE DEF msg
      <4>5. <<msg>> \in Seq(ClientMessage) /\ \A i \in 1..Len(<<msg>>), n \in Nat :
              ~SecureText(<<msg>>[i], n)
        BY <4>3, <4>4
      <4> QED BY <1>0, <4>1, <4>5, SentQuiet
    <3> QED BY <3>1, <3>2
  <2>3. HeadGoes("from", c, "lost", c, 0)
    BY <1>1, <1>2, <2>1, <2>2, Unmoved DEF At, HeadGoes
  <2> QED BY <1>0, <1>k, <1>1, <2>1, <2>3, HeadMoves
<1> QED BY <1>4, <1>5 DEF Receive

\* The queue of an account changes hands as a whole.
LEMMA ReadTaken ==
  ASSUME ReadInv, KeyInv', NEW k \in Conn, TakePending(k)
  PROVE  ReadInv'
<1> DEFINE a == current_user_address[k]
<1>1. /\ held' = [held EXCEPT ![k] = server_queue[a]] /\ handler[k] = "flush"
      /\ server_queue' = [server_queue EXCEPT ![a] = <<>>]
      /\ UNCHANGED <<to_server, from_server, chat_db, texts>>
  BY DEF TakePending, wires, stored, counters
<1>2. /\ a \in Account /\ held \in [Conn -> Seq(Message)] /\ held[k] = <<>>
      /\ server_queue \in [Account -> Seq(Message)] /\ texts \in Nat
  BY <1>1 DEF ReadInv, KeyInv, TypeInv, HandlerReady, TypeOK
<1> HIDE DEF a
<1>3. \A o, i, n : QueuedAt(o, i, n)' => QueuedAt(o, i, n) /\ o # a
  BY <1>1, <1>2 DEF QueuedAt, TextAt
<1>4. \A o, i, n : HeldAt(o, i, n)' => HeldAt(o, i, n) \/ (o = k /\ QueuedAt(a, i, n))
  BY <1>1, <1>2 DEF HeldAt, QueuedAt
<1>5. \A b, o, i : \A n \in Nat : At(b, o, i, n)' =>
        \/ At(b, o, i, n) /\ ~(b = "queue" /\ o = a)
        \/ b = "held" /\ o = k /\ At("queue", a, i, n)
  BY <1>1, <1>3, <1>4, Unmoved DEF At
<1>6. ASSUME NEW n \in Nat PROVE Unique(n)' /\ Numbered(n)'
  <2>1. /\ \A b, o, i, b2, o2, i2 : At(b, o, i, n) /\ At(b2, o2, i2, n)
             => b = b2 /\ o = o2 /\ i = i2
        /\ \A b, o, i : At(b, o, i, n) => n < texts
    BY DEF ReadInv, Unique, Numbered
  <2> QED BY <1>1, <1>5, <2>1 DEF Unique, Numbered
<1>7. RowsRight'
  BY <1>1 DEF ReadInv, RowsRight
<1> QED BY <1>6, <1>7 DEF ReadInv

LEMMA ReadServe ==
  ASSUME ReadInv, KeyInv', NEW k \in Conn, Serve(k)
  PROVE  ReadInv'
<1>0. KeyInv /\ TypeInv /\ TypeOK /\ AtHome /\ texts \in Nat
  BY DEF ReadInv, KeyInv, Wired, TypeInv, TypeOK
<1>k. UNCHANGED <<chat_db, texts>> /\ RowsRight'
  BY DEF ReadInv, RowsRight, Serve, RegisterUser, InsertClient, TakePending, SendPending,
     ServePublicKey, ServeForward, ServeQueue, stored, counters
<1> DEFINE m == Head(to_server[k])
<1>1. CASE RegisterUser(k)
  <2>1. UNCHANGED <<to_server, from_server, held, server_queue>>
    BY <1>1 DEF RegisterUser, wires
  <2>2. \A b, o, i : \A n \in Nat : At(b, o, i, n)' => At(b, o, i, n)
    BY <1>k, <2>1, Unmoved DEF At
  <2>3. texts <= texts'
    BY <1>0, <1>k
  <2> QED BY <1>k, <2>2, <2>3, TextsStay
<1>2. CASE SendPending(k)
  <2> DEFINE r == Head(held[k])
             x == Len(from_server[Owner[k]]) + 1
  <2>1. /\ held[k] # <<>> /\ from_server' = Push(k, r)
        /\ held' = [held EXCEPT ![k] = Tail(@)]
        /\ UNCHANGED <<to_server, server_queue>>
    BY <1>2 DEF SendPending
  <2>2. r \in ServerResponse
    BY <1>0, <2>1, Kinds, SeqType DEF TypeOK
  <2>3. \A o, i : \A n \in Nat :
          /\ o # k => (HeldAt(o, i, n)' <=> HeldAt(o, i, n))
          /\ HeldAt(k, i, n)' <=> i \in Nat \ {0} /\ HeldAt(k, i + 1, n)
          /\ HeldAt(k, 1, n) <=> SecureText(r, n)
    BY <1>0, <2>1, HeldMoves
  <2> HIDE DEF r
  <2>4. ASSUME NEW o, NEW i, NEW n \in Nat, FromAt(o, i, n)'
        PROVE  FromAt(o, i, n) \/ (o = Owner[k] /\ i = x /\ HeldAt(k, 1, n))
    BY <1>0, <2>1, <2>2, <2>3, <2>4, PushMoves
  <2> HIDE DEF x
  <2>5. HeadGoes("held", k, "from", Owner[k], x)
    BY <1>k, <2>1, <2>3, <2>4, Unmoved DEF At, HeadGoes
  <2> QED BY <1>k, <2>5, HeadMoves
<1>3. ASSUME \/ InsertClient(k) \/ ServePublicKey(k) \/ ServeForward(k) \/ ServeQueue(k)
      PROVE  /\ to_server[k] # <<>> /\ m \in ClientMessage
             /\ \A o, i : \A n \in Nat :
                  /\ o # k => (ToAt(o, i, n)' <=> ToAt(o, i, n))
                  /\ ToAt(k, i, n)' <=> i \in Nat \ {0} /\ ToAt(k, i + 1, n)
                  /\ ToAt(k, 1, n) <=> SecureText(m, n)
  <2>1. to_server[k] # <<>> /\ to_server' = [to_server EXCEPT ![k] = Tail(@)]
    BY <1>0, <1>3 DEF InsertClient, ServePublicKey, ServeForward, ServeQueue, Serves, Receives,
       TypeInv, HandlerReady
  <2>2. m \in ClientMessage
    BY <1>0, <2>1, SeqType DEF TypeOK
  <2> HIDE DEF m
  <2>3. \A o, i : \A n \in Nat :
          /\ o # k => (ToAt(o, i, n)' <=> ToAt(o, i, n))
          /\ ToAt(k, i, n)' <=> i \in Nat \ {0} /\ ToAt(k, i + 1, n)
          /\ ToAt(k, 1, n) <=> SecureText(m, n)
    BY <1>0, <2>1, ServedMoves DEF m
  <2> QED BY <2>1, <2>2, <2>3
<1>4. CASE InsertClient(k)
  <2>1. UNCHANGED <<from_server, held, server_queue>>
    BY <1>4 DEF InsertClient
  <2>2. HeadGoes("to", k, "lost", k, 0)
    BY <1>k, <1>3, <1>4, <2>1, Unmoved DEF At, HeadGoes
  <2> QED BY <1>k, <2>2, HeadMoves
<1>5. CASE ServePublicKey(k)
  <2> DEFINE r == IF m.target \in known THEN [kind |-> "key_response", public_key |-> m.target]
                  ELSE [kind |-> "error"]
  <2>1. m.target \in Account
    BY <1>3, <1>5, Kinds DEF ServePublicKey, Serves, Receives
  <2>2. r \in ServerResponse /\ \A n : ~SecureText(r, n)
    BY <2>1 DEF ServerResponse, SecureText
  <2>3. from_server' = Push(k, r) /\ UNCHANGED <<held, server_queue>>
    BY <1>5 DEF ServePublicKey, server
  <2> HIDE DEF r
  <2>4. \A o, i : \A n \in Nat : FromAt(o, i, n)' => FromAt(o, i, n)
    BY <1>0, <2>2, <2>3, PushMoves
  <2>5. HeadGoes("to", k, "lost", k, 0)
    BY <1>k, <1>3, <1>5, <2>3, <2>4, Unmoved DEF At, HeadGoes
  <2> QED BY <1>k, <2>5, HeadMoves
<1>6. CASE ServeForward(k)
  <2> DEFINE l == clients[m.to]
             x == Len(from_server[Owner[l]]) + 1
  <2>1. /\ l # None /\ from_server' = Push(l, m) /\ UNCHANGED <<held, server_queue>>
        /\ m.kind = "message"
    BY <1>6 DEF ServeForward, Serves, Receives, server
  <2>2. m \in ServerResponse /\ m.to \in Account
    BY <1>3, <1>6, <2>1, Kinds, PayloadKinds
  <2>3. l \in Conn
    BY <1>0, <2>1, <2>2 DEF TypeOK
  <2> HIDE DEF l, m
  <2>4. ASSUME NEW o, NEW i, NEW n \in Nat, FromAt(o, i, n)'
        PROVE  FromAt(o, i, n) \/ (o = Owner[l] /\ i = x /\ ToAt(k, 1, n))
    BY <1>0, <1>3, <1>6, <2>1, <2>2, <2>3, <2>4, PushMoves
  <2> HIDE DEF x
  <2>5. HeadGoes("to", k, "from", Owner[l], x)
    BY <1>k, <1>3, <1>6, <2>1, <2>4, Unmoved DEF At, HeadGoes
  <2> QED BY <1>k, <2>5, HeadMoves
<1>7. CASE ServeQueue(k)
  <2> DEFINE a == m.to
             x == Len(server_queue[a]) + 1
  <2>1. /\ m.kind = "message"
        /\ server_queue' = [server_queue EXCEPT ![a] = Append(@, m)]
        /\ UNCHANGED <<from_server, held>>
    BY <1>7 DEF ServeQueue, Serves, Receives
  <2>2. m \in Message /\ a \in Account
    BY <1>3, <1>7, <2>1, Kinds, PayloadKinds
  <2> HIDE DEF m, a
  <2>3. /\ server_queue[a] \in Seq(Message) /\ server_queue'[a] = Append(server_queue[a], m)
        /\ \A o \in Account : o # a => server_queue'[o] = server_queue[o]
    BY <1>0, <2>1, <2>2 DEF TypeOK
  <2>4. ASSUME NEW i, NEW n
        PROVE  TextAt(Append(server_queue[a], m), i, n) <=>
                 TextAt(server_queue[a], i, n) \/ (i = x /\ SecureText(m, n))
    BY <2>2, <2>3, TextAppended
  <2> HIDE DEF x
  <2>5. \A o, i : \A n \in Nat : QueuedAt(o, i, n)' =>
          QueuedAt(o, i, n) \/ (o = a /\ i = x /\ ToAt(k, 1, n))
    BY <1>3, <1>7, <2>3, <2>4 DEF QueuedAt
  <2>6. HeadGoes("to", k, "queue", a, x)
    BY <1>k, <1>3, <1>7, <2>1, <2>5, Unmoved DEF At, HeadGoes
  <2> QED BY <1>k, <2>6, HeadMoves
<1> QED
  BY <1>1, <1>2, <1>4, <1>5, <1>6, <1>7, ReadTaken DEF Serve

LEMMA ReadStep == ReadInv /\ [Next]_vars => ReadInv'
<1> SUFFICES ASSUME ReadInv, [Next]_vars PROVE ReadInv'
  OBVIOUS
<1>0. KeyInv /\ KeyInv' /\ TypeInv /\ TypeOK /\ RowsRight /\ texts \in Nat
  BY KeyStep DEF ReadInv, KeyInv, TypeInv, TypeOK
<1>k. chat_db' = chat_db => RowsRight'
  BY <1>0 DEF RowsRight
<1>1. ASSUME NEW c \in Client, NEW a \in Account, Login(c, a) PROVE ReadInv'
  <2> DEFINE request == [kind |-> "register", address |-> a]
  <2>1. /\ to_server' = Sent(c, <<request>>)
        /\ UNCHANGED <<chat_db, from_server, held, server_queue, texts>>
    BY <1>1 DEF Login, stored, server
  <2>2. request \in ClientMessage /\ \A n : ~SecureText(request, n)
    BY DEF ClientMessage, SecureText
  <2> HIDE DEF request
  <2>3. <<request>> \in Seq(ClientMessage) /\ \A i \in 1..Len(<<request>>), n \in Nat :
          ~SecureText(<<request>>[i], n)
    BY <2>2
  <2>4. \A o, i : \A n \in Nat : ToAt(o, i, n)' <=> ToAt(o, i, n)
    BY <1>0, <2>1, <2>3, SentQuiet
  <2>5. \A b, o, i : \A n \in Nat : At(b, o, i, n)' => At(b, o, i, n)
    BY <2>1, <2>4, Unmoved DEF At
  <2> QED BY <1>0, <1>k, <2>1, <2>5, TextsStay
<1>2. ASSUME \/ UNCHANGED vars
             \/ \E c \in Client : LoseLink(c) \/ RestartClient(c) \/ \E k \in Conn : Connect(c, k)
             \/ \E k \in Conn : CleanUp(k)
      PROVE  ReadInv'
  <2>1. UNCHANGED <<held, server_queue, chat_db, texts>>
    BY <1>2 DEF vars, LoseLink, RestartClient, Connect, CleanUp, stored, server, counters
  <2>2. \A o, i, n : ToAt(o, i, n)' => ToAt(o, i, n)
    <3>1. \A k \in Conn : to_server'[k] = to_server[k] \/ to_server'[k] = <<>>
      BY <1>0, <1>2 DEF TypeOK, vars, LoseLink, RestartClient, Connect, CleanUp, wires
    <3> QED BY <3>1 DEF ToAt, TextAt
  <2>3. \A o, i, n : FromAt(o, i, n)' => FromAt(o, i, n)
    <3>1. \A c \in Client : from_server'[c] = from_server[c] \/ from_server'[c] = <<>>
      BY <1>0, <1>2 DEF TypeOK, vars, LoseLink, RestartClient, Connect, CleanUp, wires
    <3> QED BY <3>1 DEF FromAt, TextAt
  <2>4. \A b, o, i : \A n \in Nat : At(b, o, i, n)' => At(b, o, i, n)
    BY <2>1, <2>2, <2>3, Unmoved DEF At
  <2> QED BY <1>0, <1>k, <2>1, <2>4, TextsStay
<1> QED
  BY <1>0, <1>1, <1>2, ReadPress, ReadReceive, ReadServe DEF Next

\* A chat holds what its two sides wrote: a text that could be read was written
\* by the peer to this client, and nothing of another program is read twice, over
\* whichever connections and queues it came (cli.rs:197-215).
THEOREM ChatsReadRight == Spec => []ReadInRightChat
<1>1. ReadInv => ReadInRightChat
  <2> SUFFICES ASSUME ReadInv, NEW c \in Client, NEW p \in Account
               PROVE  LET rows == chat_db[c][p]
                          read == {i \in DOMAIN rows : rows[i].sender = p /\ rows[i].form = "secure"}
                      IN  /\ \A i \in DOMAIN rows : rows[i].sender = p \/ Home[rows[i].sender] = c
                          /\ \A i \in read : rows[i].text.from = p /\ Home[rows[i].text.to] = c
                          /\ Home[p] # c =>
                               \A i, j \in read : rows[i].text = rows[j].text => i = j
    BY DEF ReadInRightChat
  <2> DEFINE rows == chat_db[c][p]
             read == {i \in DOMAIN rows : rows[i].sender = p /\ rows[i].form = "secure"}
  <2>1. /\ RowsRight /\ rows \in Seq(Row) /\ DOMAIN rows = 1..Len(rows)
        /\ \A n \in Nat : Unique(n)
    BY DEF ReadInv, KeyInv, TypeInv, TypeOK
  <2>2. /\ \A i \in DOMAIN rows : rows[i].sender = p \/ Home[rows[i].sender] = c
        /\ \A i \in read : rows[i].text.from = p /\ Home[rows[i].text.to] = c
    BY <2>1 DEF RowsRight, RightRow
  <2>3. ASSUME Home[p] # c, NEW i \in read, NEW j \in read, rows[i].text = rows[j].text
        PROVE  i = j
    <3> DEFINE n == rows[i].text.nr
    <3>1. n \in Nat
      <4>1. rows[i] \in Row /\ rows[i].form = "secure"
        BY <2>1, <2>3
      <4> QED BY <4>1 DEF Row, Text
    <3>2. ReadAt(<<c, p>>, i, n) /\ ReadAt(<<c, p>>, j, n)
      BY <2>1, <2>3 DEF ReadAt
    <3> HIDE DEF n
    <3>3. At("read", <<c, p>>, i, n) /\ At("read", <<c, p>>, j, n)
      BY <3>2 DEF At
    <3> QED BY <2>1, <3>1, <3>3 DEF Unique
  <2> QED BY <2>2, <2>3
<1> QED BY ReadInitially, ReadStep, <1>1, PTL DEF Spec

-----------------------------------------------------------------------------
(* Which messages the server takes *)

\* Account b is the one registered last before place i of requests s on a
\* connection that had registered a (or None) before them.
Speaks(s, i, a, b) ==
  \/ a = b /\ \A j \in 1 .. i - 1 : s[j].kind # "register"
  \/ \E j \in 1 .. i - 1 :
       /\ s[j].kind = "register" /\ s[j].address = b
       /\ \A l \in j + 1 .. i - 1 : s[l].kind # "register"

Introduced(s, a) ==
  \A i \in 1 .. Len(s) : s[i].kind = "message" => Speaks(s, i, a, s[i].from)

\* The account that a connection speaks for after request r.
After(r, a) == IF r.kind = "register" THEN r.address ELSE a

\* After login a client speaks for the account it uses; before it, it neither
\* asks for anything nor gets an answer.
ClientSpeaks(c) ==
  LET k == net_client[c]
      s == to_server[k]
  IN  k # None =>
        /\ mode[c] # "auth" => Speaks(s, Len(s) + 1, current_user_address[k], account[c])
        /\ mode[c] = "auth" => s = <<>> /\ from_server[c] \in Seq(Unanswered)

SenderInv ==
  /\ TypeInv
  /\ \A k \in Conn : Introduced(to_server[k], current_user_address[k])
  /\ \A c \in Client : ClientSpeaks(c)

LEMMA SpeaksOnEmpty ==
  ASSUME NEW a, NEW b
  PROVE  Introduced(<<>>, a) /\ (Speaks(<<>>, 1, a, b) <=> a = b)
  BY DEF Introduced, Speaks

\* A request more on the channel.
LEMMA SpeaksMore ==
  ASSUME NEW s \in Seq(ClientMessage), NEW x \in ClientMessage, NEW a, NEW b,
         Introduced(s, a), Speaks(s, Len(s) + 1, a, b) \/ x.kind = "register",
         x.kind = "message" => x.from = b
  PROVE  /\ Introduced(Append(s, x), a)
         /\ Speaks(Append(s, x), Len(Append(s, x)) + 1, a, After(x, b))
<1>. DEFINE t == Append(s, x)
            n == Len(s)
<1>1. /\ n \in Nat /\ Len(t) = n + 1 /\ t[n + 1] = x
      /\ \A j \in 1 .. n : t[j] = s[j]
  BY AppendProperties, LenProperties
<1>2. \A i \in 1 .. n + 1 : \A d : Speaks(s, i, a, d) => Speaks(t, i, a, d)
  <2>. SUFFICES ASSUME NEW i \in 1 .. n + 1, NEW d, Speaks(s, i, a, d)
                PROVE  Speaks(t, i, a, d)
    OBVIOUS
  <2>. HIDE DEF t, n
  <2>1. \A j \in 1 .. i - 1 : t[j] = s[j]
    BY <1>1
  <2>2. \A j \in 1 .. i - 1, l \in Int : l >= j + 1 /\ l <= i - 1 => l \in 1 .. i - 1
    BY <1>1
  <2>3. CASE a = d /\ \A j \in 1 .. i - 1 : s[j].kind # "register"
    BY <2>1, <2>3 DEF Speaks
  <2>4. ASSUME NEW j \in 1 .. i - 1, s[j].kind = "register", s[j].address = d,
               \A l \in j + 1 .. i - 1 : s[l].kind # "register"
        PROVE  Speaks(t, i, a, d)
    <3>1. t[j].kind = "register" /\ t[j].address = d
      BY <2>1, <2>4
    <3>2. \A l \in j + 1 .. i - 1 : t[l].kind # "register"
      BY <2>1, <2>2, <2>4
    <3> QED
      BY <3>1, <3>2 DEF Speaks
  <2> QED
    BY <2>3, <2>4 DEF Speaks
<1>. HIDE DEF t, n
<1>3. Introduced(t, a)
  <2>. SUFFICES ASSUME NEW i \in 1 .. n + 1, t[i].kind = "message"
                PROVE  Speaks(t, i, a, t[i].from)
    BY <1>1 DEF Introduced
  <2>1. CASE i = n + 1
    BY <1>1, <1>2, <2>1 DEF n
  <2>2. CASE i # n + 1
    <3>1. i \in 1 .. n /\ t[i] = s[i]
      BY <1>1, <2>2
    <3> QED
      BY <1>2, <3>1 DEF Introduced, n
  <2> QED
    BY <2>1, <2>2
<1>4. Speaks(t, n + 2, a, After(x, b))
  <2>1. CASE x.kind = "register"
    <3>1. /\ n + 1 \in 1 .. (n + 2) - 1
          /\ t[n + 1].kind = "register" /\ t[n + 1].address = After(x, b)
          /\ \A l \in (n + 1) + 1 .. (n + 2) - 1 : t[l].kind # "register"
      BY <1>1, <2>1 DEF After
    <3>2. \E j \in 1 .. (n + 2) - 1 :
            /\ t[j].kind = "register" /\ t[j].address = After(x, b)
            /\ \A l \in j + 1 .. (n + 2) - 1 : t[l].kind # "register"
      BY <3>1
    <3> QED
      BY <3>2 DEF Speaks
  <2>2. CASE x.kind # "register"
    <3>1. Speaks(t, n + 1, a, b) /\ After(x, b) = b
      BY <1>1, <1>2, <2>2 DEF After, n
    <3>2. \A l \in 1 .. (n + 2) - 1 : l \in 1 .. (n + 1) - 1 \/ t[l].kind # "register"
      BY <1>1, <2>2
    <3>3. CASE a = b /\ \A j \in 1 .. (n + 1) - 1 : t[j].kind # "register"
      BY <3>1, <3>2, <3>3 DEF Speaks
    <3>4. ASSUME NEW j \in 1 .. (n + 1) - 1, t[j].kind = "register", t[j].address = b,
                 \A l \in j + 1 .. (n + 1) - 1 : t[l].kind # "register"
          PROVE  Speaks(t, n + 2, a, b)
      <4>1. j \in 1 .. (n + 2) - 1
        BY <1>1
      <4>2. \A l \in j + 1 .. (n + 2) - 1 : l \in j + 1 .. (n + 1) - 1 \/ t[l].kind # "register"
        BY <1>1, <2>2
      <4>3. \A l \in j + 1 .. (n + 2) - 1 : t[l].kind # "register"
        BY <3>4, <4>2
      <4> QED
        BY <3>4, <4>1, <4>3 DEF Speaks
    <3> QED
      BY <3>1, <3>3, <3>4 DEF Speaks
  <2> QED
    BY <2>1, <2>2
<1>5. Len(t) + 1 = n + 2
  BY <1>1
<1> QED
  BY <1>3, <1>4, <1>5 DEF t

\* The first request is taken.
LEMMA SpeaksLess ==
  ASSUME NEW s \in Seq(ClientMessage), s # <<>>, NEW a, Introduced(s, a)
  PROVE  /\ Introduced(Tail(s), After(Head(s), a))
         /\ \A b : Speaks(s, Len(s) + 1, a, b)
              => Speaks(Tail(s), Len(Tail(s)) + 1, After(Head(s), a), b)
<1>. DEFINE t == Tail(s)
            n == Len(t)
            h == Head(s)
<1>1. /\ n \in Nat /\ Len(s) = n + 1 /\ s[1] = h
      /\ \A j \in 1 .. n : t[j] = s[j + 1]
  OBVIOUS
<1>. HIDE DEF t, n, h
<1>2. ASSUME NEW i \in 1 .. n + 1, NEW b, Speaks(s, i + 1, a, b)
      PROVE  Speaks(t, i, After(h, a), b)
  <2>1. \A j \in 1 .. i - 1 : j + 1 \in 1 .. (i + 1) - 1 /\ t[j] = s[j + 1]
    BY <1>1
  <2>2. CASE a = b /\ \A j \in 1 .. (i + 1) - 1 : s[j].kind # "register"
    <3>1. s[1].kind # "register"
      BY <1>1, <2>2
    <3> QED
      BY <1>1, <2>1, <2>2, <3>1 DEF Speaks, After
  <2>3. ASSUME NEW j \in 1 .. (i + 1) - 1, s[j].kind = "register", s[j].address = b,
               \A l \in j + 1 .. (i + 1) - 1 : s[l].kind # "register"
        PROVE  Speaks(t, i, After(h, a), b)
    <3>1. \A l \in 1 .. i - 1 : l >= j => t[l].kind # "register"
      BY <1>1, <2>1, <2>3
    <3>2. CASE j = 1
      BY <1>1, <2>3, <3>1, <3>2 DEF Speaks, After
    <3>3. CASE j # 1
      <4>1. j - 1 \in 1 .. i - 1 /\ t[j - 1] = s[j]
        BY <1>1, <3>3
      <4>2. \A l \in (j - 1) + 1 .. i - 1 : l \in 1 .. i - 1 /\ l >= j
        BY <1>1, <3>3
      <4>3. \A l \in (j - 1) + 1 .. i - 1 : t[l].kind # "register"
        BY <3>1, <4>2
      <4> QED
        BY <2>3, <4>1, <4>3 DEF Speaks
    <3> QED
      BY <3>2, <3>3
  <2> QED
    BY <1>2, <2>2, <2>3 DEF Speaks
<1>3. Introduced(t, After(h, a))
  <2>. SUFFICES ASSUME NEW i \in 1 .. n, t[i].kind = "message"
                PROVE  Speaks(t, i, After(h, a), t[i].from)
    BY DEF Introduced, n
  <2>1. i \in 1 .. n + 1 /\ i + 1 \in 1 .. Len(s) /\ t[i] = s[i + 1]
    BY <1>1
  <2>2. Speaks(s, i + 1, a, t[i].from)
    BY <2>1 DEF Introduced
  <2> QED
    BY <1>2, <2>1, <2>2
<1>4. n + 1 \in 1 .. n + 1 /\ Len(s) + 1 = (n + 1) + 1
  BY <1>1
<1>5. \A b : Speaks(s, Len(s) + 1, a, b) => Speaks(t, n + 1, After(h, a), b)
  BY <1>2, <1>4
<1> QED
  BY <1>3, <1>5 DEF t, n, h

LEMMA SenderInitially == Init => SenderInv
<1>. SUFFICES ASSUME Init PROVE SenderInv
  OBVIOUS
<1>1. \A k \in Conn : to_server[k] = <<>>
  BY DEF Init
<1>2. \A k \in Conn : Introduced(to_server[k], current_user_address[k])
  BY <1>1, SpeaksOnEmpty
<1>3. \A c \in Client : net_client[c] = None
  BY DEF Init
<1> QED
  BY TypeInit, <1>2, <1>3 DEF SenderInv, ClientSpeaks

\* Nothing changes for the other clients.
LEMMA OthersSpeak ==
  ASSUME SenderInv, NEW d \in Client,
         net_client'[d] = net_client[d], mode'[d] = mode[d], account'[d] = account[d],
         net_client[d] # None =>
           /\ to_server'[net_client[d]] = to_server[net_client[d]]
           /\ current_user_address'[net_client[d]] = current_user_address[net_client[d]]
           /\ mode[d] = "auth" => from_server'[d] \in Seq(Unanswered)
  PROVE  ClientSpeaks(d)'
  BY DEF SenderInv, ClientSpeaks

\* Client c sends a request: a Register, or a message in the name of its account.
LEMMA OneMoreSent ==
  ASSUME SenderInv, NEW c \in Client, NEW x \in ClientMessage, NEW k \in Conn, NEW s,
         k = net_client[c], s = Append(to_server[k], x), NEW b,
         \/ x.kind = "register"
         \/ mode[c] # "auth" /\ (x.kind = "message" => x.from = account[c]),
         b = After(x, account[c])
  PROVE  /\ Introduced(s, current_user_address[k])
         /\ Speaks(s, Len(s) + 1, current_user_address[k], b)
<1>1. to_server[k] \in Seq(ClientMessage) /\ k # None
  BY NoneIsApart DEF SenderInv, TypeInv, TypeOK
<1>2. /\ Introduced(to_server[k], current_user_address[k])
      /\ mode[c] # "auth" =>
           Speaks(to_server[k], Len(to_server[k]) + 1, current_user_address[k], account[c])
  BY <1>1 DEF SenderInv, ClientSpeaks
<1> QED
  BY <1>1, <1>2, SpeaksMore DEF After

\* A client that sends requests speaks for its account.
LEMMA SentSpeaks ==
  ASSUME SenderInv, TypeInv', NEW c \in Client, NEW requests \in Seq(ClientMessage),
         to_server' = Sent(c, requests), UNCHANGED <<net_client, current_user_address>>,
         net_client[c] # None =>
           LET k == net_client[c]
               s == to_server[k] \o requests
           IN  /\ Introduced(s, current_user_address[k])
               /\ Speaks(s, Len(s) + 1, current_user_address[k], account'[c])
               /\ mode'[c] # "auth",
         \A d \in Client : d # c => /\ mode'[d] = mode[d] /\ account'[d] = account[d]
                                    /\ from_server'[d] = from_server[d]
  PROVE  SenderInv'
<1>0. TypeInv
  BY DEF SenderInv
<1>1. \A k \in Conn : to_server'[k] =
        IF k = net_client[c] THEN to_server[k] \o requests ELSE to_server[k]
  BY <1>0, SentType
<1>2. ASSUME NEW k \in Conn PROVE Introduced(to_server'[k], current_user_address'[k])
  <2>1. CASE k = net_client[c]
    <3>1. k # None
      BY NoneIsApart
    <3> QED
      BY <1>1, <2>1, <3>1
  <2> QED
    BY <1>1, <2>1 DEF SenderInv
<1>3. ASSUME NEW d \in Client PROVE ClientSpeaks(d)'
  <2>1. CASE d = c /\ net_client[c] = None
    BY <2>1 DEF ClientSpeaks
  <2>2. CASE d = c /\ net_client[c] # None
    <3>1. net_client[c] \in Conn
      BY <1>0, <2>2, LinkOwner
    <3> QED
      BY <1>1, <2>2, <3>1 DEF ClientSpeaks
  <2>3. CASE d # c
    <3>1. net_client[d] # None => net_client[d] \in Conn /\ net_client[d] # net_client[c]
      BY <1>0, <2>3, LinkOwner
    <3>2. ClientSpeaks(d)
      BY DEF SenderInv
    <3>3. net_client[d] # None /\ mode[d] = "auth" => from_server'[d] \in Seq(Unanswered)
      BY <2>3, <3>2 DEF ClientSpeaks
    <3> QED
      BY <1>1, <2>3, <3>1, <3>3, OthersSpeak
  <2> QED
    BY <2>1, <2>2, <2>3
<1> QED
  BY <1>2, <1>3 DEF SenderInv

\* The same for a client that sends one request.
LEMMA SentOne ==
  ASSUME SenderInv, TypeInv', NEW c \in Client, NEW x \in ClientMessage,
         to_server' = Sent(c, <<x>>), UNCHANGED <<net_client, current_user_address>>,
         \/ x.kind = "register"
         \/ mode[c] # "auth" /\ (x.kind = "message" => x.from = account[c]),
         mode'[c] # "auth", account'[c] = After(x, account[c]),
         \A d \in Client : d # c => /\ mode'[d] = mode[d] /\ account'[d] = account[d]
                                    /\ from_server'[d] = from_server[d]
  PROVE  SenderInv'
<1>1. <<x>> \in Seq(ClientMessage)
  BY SeqType
<1>2. ASSUME net_client[c] # None
      PROVE  LET k == net_client[c]
                 s == to_server[k] \o <<x>>
             IN  /\ Introduced(s, current_user_address[k])
                 /\ Speaks(s, Len(s) + 1, current_user_address[k], account'[c])
  <2>. DEFINE k == net_client[c]
              s == to_server[k] \o <<x>>
  <2>1. k \in Conn /\ to_server[k] \in Seq(ClientMessage)
    BY <1>2, LinkOwner DEF SenderInv, TypeInv, TypeOK
  <2>2. s = Append(to_server[k], x)
    BY <2>1
  <2>. HIDE DEF k, s
  <2>3. k = net_client[c]
    BY DEF k
  <2>4. /\ Introduced(s, current_user_address[k])
        /\ Speaks(s, Len(s) + 1, current_user_address[k], account'[c])
    BY <2>1, <2>2, <2>3, OneMoreSent
  <2> QED
    BY <2>4 DEF k, s
<1> QED
  BY <1>1, <1>2, SentSpeaks

LEMMA SenderPress ==
  ASSUME SenderInv, TypeInv', NEW c \in Client, Press(c)
  PROVE  SenderInv'
<1>0. TypeInv /\ TypeOK /\ mode \in [Client -> {"auth", "peers", "chat"}]
  BY DEF SenderInv, TypeInv, TypeOK
<1>1. ASSUME NEW p \in Account, OpenChat(c, p) PROVE SenderInv'
  <2>. DEFINE x == [kind |-> "get_public_key", target |-> p]
  <2>1. /\ to_server' = Sent(c, <<x>>) /\ mode[c] = "peers"
        /\ mode' = [mode EXCEPT ![c] = "chat"]
        /\ UNCHANGED <<account, net_client, from_server, current_user_address>>
    BY <1>1 DEF OpenChat, server
  <2>2. x \in ClientMessage /\ x.kind = "get_public_key"
    BY PlainKinds
  <2>. HIDE DEF x
  <2>3. mode'[c] # "auth" /\ mode[c] # "auth" /\ account'[c] = After(x, account[c])
        /\ (x.kind = "message" => x.from = account[c])
    BY <1>0, <2>1, <2>2 DEF After
  <2>4. \A d \in Client : d # c => /\ mode'[d] = mode[d] /\ account'[d] = account[d]
                                   /\ from_server'[d] = from_server[d]
    BY <1>0, <2>1
  <2>5. UNCHANGED <<net_client, current_user_address>>
    BY <2>1
  <2> QED
    BY <2>1, <2>2, <2>3, <2>4, <2>5, SentOne
<1>2. CASE CloseChat(c)
  <2>1. /\ mode[c] = "chat" /\ mode' = [mode EXCEPT ![c] = "peers"]
        /\ UNCHANGED <<account, wires, server>>
    BY <1>2 DEF CloseChat
  <2>2. \A d \in Client : mode'[d] = "auth" <=> mode[d] = "auth"
    BY <1>0, <2>1
  <2> QED
    BY <2>1, <2>2 DEF SenderInv, ClientSpeaks, wires, server
<1>3. CASE SendPlain(c)
  <2>. DEFINE p    == active_peer[c]
              text == [from |-> account[c], to |-> p, nr |-> texts]
              x    == MessageTo(c, p, [kind |-> "plain", text |-> text])
  <2>1. /\ to_server' = Sent(c, <<x>>) /\ mode[c] = "chat"
        /\ UNCHANGED <<account, mode, net_client, from_server, current_user_address>>
    BY <1>3 DEF SendPlain, server
  <2>2. p \in Account
    BY <1>0, <2>1, PeerKnown
  <2>3. x \in ClientMessage /\ x.kind = "message" /\ x.from = account[c]
    BY <1>0, <2>2, MessageType, Kinds DEF MessageTo
  <2>. HIDE DEF x
  <2>4. mode'[c] # "auth" /\ mode[c] # "auth" /\ account'[c] = After(x, account[c])
        /\ UNCHANGED <<net_client, current_user_address>>
    BY <2>1, <2>3 DEF After
  <2>5. \A d \in Client : d # c => /\ mode'[d] = mode[d] /\ account'[d] = account[d]
                                   /\ from_server'[d] = from_server[d]
    BY <2>1
  <2> QED
    BY <2>1, <2>3, <2>4, <2>5, SentOne
<1>4. CASE SendSecure(c)
  <2>. DEFINE p     == active_peer[c]
              first == ephemeral_aes_keys[c][p] = None
              key   == IF first THEN FreshKey(c, p) ELSE ephemeral_aes_keys[c][p]
              text  == [from |-> account[c], to |-> p, nr |-> texts]
              ki    == KeyInit(c, p, public_key[c][p], key)
              init  == IF first THEN <<ki>> ELSE <<>>
              msg   == MessageTo(c, p, [kind |-> "secure_text", key |-> key, text |-> text])
  <2>1. /\ to_server' = Sent(c, Append(init, msg)) /\ mode[c] = "chat"
        /\ public_key[c][p] # None
        /\ UNCHANGED <<account, mode, net_client, from_server, current_user_address>>
    BY <1>4 DEF SendSecure, server
  <2>2. p \in Account
    BY <1>0, <2>1, PeerKnown
  <2>3. key \in AesKey /\ public_key[c][p] \in Account
    <3>1. FreshKey(c, p) \in AesKey
      BY <1>0, <2>2, MessageType
    <3>2. ephemeral_aes_keys[c][p] \in AesKey \cup {None}
      BY <1>0, <2>2 DEF TypeOK
    <3>3. public_key[c][p] \in Account \cup {None}
      BY <1>0, <2>2 DEF TypeOK
    <3> QED
      BY <2>1, <3>1, <3>2, <3>3
  <2>4. /\ msg \in ClientMessage /\ msg.kind = "message" /\ msg.from = account[c]
        /\ ki \in ClientMessage /\ ki.kind = "message" /\ ki.from = account[c]
    BY <1>0, <2>2, <2>3, MessageType, Kinds DEF MessageTo, KeyInit
  <2>5. init \in {<<ki>>, <<>>}
    OBVIOUS
  <2>. HIDE DEF msg, ki, init
  <2>6. Append(init, msg) \in Seq(ClientMessage)
    BY <2>4, <2>5, SeqType
  <2>7. ASSUME net_client[c] # None
        PROVE  LET k == net_client[c]
                   s == to_server[k] \o Append(init, msg)
               IN  /\ Introduced(s, current_user_address[k])
                   /\ Speaks(s, Len(s) + 1, current_user_address[k], account'[c])
                   /\ mode'[c] # "auth"
    <3>. DEFINE k == net_client[c]
                a == current_user_address[k]
                s == to_server[k]
    <3>1. k \in Conn /\ s \in Seq(ClientMessage)
      BY <1>0, <2>7, LinkOwner DEF TypeOK
    <3>2. Introduced(s, a) /\ Speaks(s, Len(s) + 1, a, account[c])
      BY <2>1, <2>7, <3>1 DEF SenderInv, ClientSpeaks
    <3>. HIDE DEF k, a, s
    <3>3. ASSUME NEW t \in Seq(ClientMessage), NEW x \in {msg, ki},
                 Introduced(t, a), Speaks(t, Len(t) + 1, a, account[c])
          PROVE  /\ Append(t, x) \in Seq(ClientMessage)
                 /\ Introduced(Append(t, x), a)
                 /\ Speaks(Append(t, x), Len(Append(t, x)) + 1, a, account[c])
      <4>1. x \in ClientMessage /\ x.kind = "message" /\ x.from = account[c]
        BY <2>4
      <4>2. After(x, account[c]) = account[c]
        BY <4>1 DEF After
      <4>3. Append(t, x) \in Seq(ClientMessage)
        BY <4>1
      <4> QED
        BY <3>3, <4>1, <4>2, <4>3, SpeaksMore
    <3>4. CASE init = <<>>
      <4>1. s \o Append(init, msg) = Append(s, msg)
        BY <2>4, <3>1, <3>4
      <4>2. Introduced(Append(s, msg), a)
            /\ Speaks(Append(s, msg), Len(Append(s, msg)) + 1, a, account[c])
        BY <3>1, <3>2, <3>3
      <4> QED
        BY <2>1, <4>1, <4>2 DEF k, a, s
    <3>5. CASE init = <<ki>>
      <4>. DEFINE t == Append(s, ki)
      <4>1. s \o Append(init, msg) = Append(t, msg)
        BY <2>4, <3>1, <3>5
      <4>2. t \in Seq(ClientMessage) /\ Introduced(t, a) /\ Speaks(t, Len(t) + 1, a, account[c])
        BY <3>1, <3>2, <3>3
      <4>. HIDE DEF t
      <4>3. Introduced(Append(t, msg), a)
            /\ Speaks(Append(t, msg), Len(Append(t, msg)) + 1, a, account[c])
        BY <3>3, <4>2
      <4> QED
        BY <2>1, <4>1, <4>3 DEF k, a, s
    <3> QED
      BY <2>5, <3>4, <3>5
  <2>8. \A d \in Client : d # c => /\ mode'[d] = mode[d] /\ account'[d] = account[d]
                                   /\ from_server'[d] = from_server[d]
    BY <2>1
  <2>9. UNCHANGED <<net_client, current_user_address>>
    BY <2>1
  <2> QED
    BY <2>1, <2>6, <2>7, <2>8, <2>9, SentSpeaks
<1> QED
  BY <1>1, <1>2, <1>3, <1>4 DEF Press

LEMMA SenderReceive ==
  ASSUME SenderInv, TypeInv', NEW c \in Client, Receive(c)
  PROVE  SenderInv'
<1>0. TypeInv /\ TypeOK
  BY DEF SenderInv, TypeInv
<1>. DEFINE m == Head(from_server[c])
<1>1. /\ from_server[c] # <<>> /\ from_server' = [from_server EXCEPT ![c] = Tail(@)]
      /\ UNCHANGED <<account, mode, net_client, current_user_address>>
  BY DEF Receive, ReceiveKeyInit, ReceiveOnScreen, ReceiveUnread, Ignore,
     ReceiveKeyResponse, HandlesPayload, Handles, view, server
<1>2. net_client[c] # None
  BY <1>0, <1>1 DEF TypeInv, ClientReady
<1>3. \A d \in Client : d # c => from_server'[d] = from_server[d]
  BY <1>0, <1>1 DEF TypeOK
<1>4. CASE to_server' = to_server
  <2>1. ASSUME NEW d \in Client, mode[d] = "auth", net_client[d] # None
        PROVE  from_server'[d] \in Seq(Unanswered)
    <3>1. from_server[d] \in Seq(Unanswered)
      BY <2>1 DEF SenderInv, ClientSpeaks
    <3>2. from_server'[d] = from_server[d] \/ (d = c /\ from_server'[d] = Tail(from_server[d]))
      BY <1>0, <1>1, <1>3 DEF TypeOK
    <3> QED
      BY <1>1, <3>1, <3>2, SeqType
  <2>2. \A d \in Client : ClientSpeaks(d)'
    BY <1>1, <1>4, <2>1, OthersSpeak
  <2>3. \A k \in Conn : Introduced(to_server'[k], current_user_address'[k])
    BY <1>1, <1>4 DEF SenderInv
  <2> QED
    BY <2>2, <2>3 DEF SenderInv
<1>5. CASE to_server' # to_server
  <2>. DEFINE p == active_peer[c]
              x == KeyInit(c, p, m.public_key, FreshKey(c, p))
  <2>1. m.kind = "key_response" /\ to_server' = Sent(c, <<x>>)
    BY <1>5 DEF Receive, ReceiveKeyInit, ReceiveOnScreen, ReceiveUnread, Ignore,
       ReceiveKeyResponse, Handles
  <2>2. m \in ServerResponse
    BY <1>0, <1>1, SeqType DEF TypeOK
  <2>3. p \in Account /\ m.public_key \in Account
    BY <1>0, <1>1, <2>1, <2>2, PeerKnown, Kinds
  <2>4. mode[c] # "auth"
    <3>1. ASSUME from_server[c] \in Seq(Unanswered) PROVE FALSE
      BY <1>1, <2>1, <3>1, SeqType DEF Unanswered
    <3> QED
      BY <1>2, <3>1 DEF SenderInv, ClientSpeaks
  <2>5. x \in ClientMessage /\ x.kind = "message" /\ x.from = account[c]
    BY <1>0, <2>3, MessageType, Kinds DEF KeyInit, MessageTo
  <2>. HIDE DEF x, m
  <2>6. mode'[c] # "auth" /\ account'[c] = After(x, account[c])
        /\ UNCHANGED <<net_client, current_user_address>>
    BY <1>1, <2>4, <2>5 DEF After
  <2>7. \A d \in Client : d # c => /\ mode'[d] = mode[d] /\ account'[d] = account[d]
                                   /\ from_server'[d] = from_server[d]
    BY <1>1, <1>3
  <2> QED
    BY <2>1, <2>4, <2>5, <2>6, <2>7, SentOne
<1> QED
  BY <1>4, <1>5

\* A request that is served is one of a client that has logged in.
LEMMA HeadServed ==
  ASSUME SenderInv, TypeInv', NEW k \in Conn, to_server[k] # <<>>,
         to_server' = [to_server EXCEPT ![k] = Tail(@)],
         current_user_address' =
           [current_user_address EXCEPT ![k] = After(Head(to_server[k]), @)],
         UNCHANGED <<account, mode, net_client>>,
         \A d \in Client : mode[d] = "auth" /\ net_client[d] # None /\ net_client[d] # k
           => from_server'[d] \in Seq(Unanswered)
  PROVE  SenderInv'
<1>0. TypeOK
  BY DEF SenderInv, TypeInv
<1>1. /\ to_server'[k] = Tail(to_server[k]) /\ to_server[k] \in Seq(ClientMessage)
      /\ current_user_address'[k] = After(Head(to_server[k]), current_user_address[k])
      /\ \A l \in Conn : l # k => /\ to_server'[l] = to_server[l]
                                  /\ current_user_address'[l] = current_user_address[l]
  BY <1>0 DEF TypeOK
<1>2. /\ Introduced(to_server'[k], current_user_address'[k])
      /\ \A b : Speaks(to_server[k], Len(to_server[k]) + 1, current_user_address[k], b)
           => Speaks(to_server'[k], Len(to_server'[k]) + 1, current_user_address'[k], b)
  <2> DEFINE s == to_server[k]
             a == current_user_address[k]
  <2>1. s \in Seq(ClientMessage) /\ s # <<>> /\ Introduced(s, a)
    BY <1>1 DEF SenderInv
  <2>2. to_server'[k] = Tail(s) /\ current_user_address'[k] = After(Head(s), a)
    BY <1>1
  <2> HIDE DEF s, a
  <2>3. /\ Introduced(Tail(s), After(Head(s), a))
        /\ \A b : Speaks(s, Len(s) + 1, a, b)
             => Speaks(Tail(s), Len(Tail(s)) + 1, After(Head(s), a), b)
    BY <2>1, SpeaksLess
  <2> QED
    BY <2>2, <2>3 DEF s, a
<1>3. \A l \in Conn : Introduced(to_server'[l], current_user_address'[l])
  BY <1>1, <1>2 DEF SenderInv
<1>4. ASSUME NEW d \in Client PROVE ClientSpeaks(d)'
  <2>1. CASE net_client[d] = k
    <3>1. k # None
      BY NoneIsApart
    <3>2. mode[d] # "auth" /\ Speaks(to_server[k], Len(to_server[k]) + 1, current_user_address[k], account[d])
      BY <2>1, <3>1 DEF SenderInv, ClientSpeaks
    <3> QED
      BY <1>2, <2>1, <3>2 DEF ClientSpeaks
  <2>2. CASE net_client[d] # k
    <3>1. net_client[d] # None => net_client[d] \in Conn
      BY <1>0 DEF TypeOK
    <3> QED
      BY <1>1, <2>2, <3>1, OthersSpeak
  <2> QED
    BY <2>1, <2>2
<1> QED
  BY <1>3, <1>4 DEF SenderInv

\* A message on its way to clients does not answer a key request.
LEMMA PushQuiet ==
  ASSUME SenderInv, NEW k \in Conn, NEW r \in ServerResponse, from_server' = Push(k, r),
         NEW d \in Client, mode[d] = "auth", net_client[d] # None,
         r \in Unanswered \/ net_client[d] # k
  PROVE  from_server'[d] \in Seq(Unanswered)
<1>1. from_server'[d] = IF net_client[d] = k THEN Append(from_server[d], r) ELSE from_server[d]
  BY PushType DEF SenderInv
<1>2. from_server[d] \in Seq(Unanswered)
  BY DEF SenderInv, ClientSpeaks
<1> QED
  BY <1>1, <1>2, SeqType

LEMMA SenderServe ==
  ASSUME SenderInv, TypeInv', NEW k \in Conn, Serve(k)
  PROVE  SenderInv'
<1>0. TypeInv /\ TypeOK
  BY DEF SenderInv, TypeInv
<1>. DEFINE m == Head(to_server[k])
<1>q. \A d \in Client : mode[d] = "auth" /\ net_client[d] # None
        => from_server[d] \in Seq(Unanswered)
  BY DEF SenderInv, ClientSpeaks
<1>1. CASE RegisterUser(k) \/ TakePending(k) \/ SendPending(k)
  <2>1. UNCHANGED <<account, mode, net_client, to_server, current_user_address>>
    BY <1>1 DEF RegisterUser, TakePending, SendPending, view, wires
  <2>2. ASSUME NEW d \in Client, mode[d] = "auth", net_client[d] # None
        PROVE  from_server'[d] \in Seq(Unanswered)
    <3>1. CASE from_server' = from_server
      BY <1>q, <2>2, <3>1
    <3>2. CASE SendPending(k)
      <4>. DEFINE r == Head(held[k])
      <4>1. r \in Message /\ from_server' = Push(k, r)
        BY <1>0, <3>2, SeqType DEF SendPending, TypeOK
      <4>. HIDE DEF r
      <4> QED
        BY <2>2, <4>1, Kinds, PushQuiet
    <3> QED
      BY <1>1, <3>1, <3>2 DEF RegisterUser, TakePending, wires
  <2>3. \A d \in Client : ClientSpeaks(d)'
    BY <2>1, <2>2, OthersSpeak
  <2>4. \A l \in Conn : Introduced(to_server'[l], current_user_address'[l])
    BY <2>1 DEF SenderInv
  <2> QED
    BY <2>3, <2>4 DEF SenderInv
<1>2. CASE InsertClient(k)
  <2>1. to_server[k] # <<>> /\ m.kind = "register"
    BY <1>0, <1>2 DEF InsertClient, TypeInv, HandlerReady
  <2>2. /\ to_server' = [to_server EXCEPT ![k] = Tail(@)]
        /\ current_user_address' = [current_user_address EXCEPT ![k] = After(m, @)]
        /\ UNCHANGED <<account, mode, net_client, from_server>>
    BY <1>2, <2>1 DEF InsertClient, view, After
  <2> QED
    BY <1>q, <2>1, <2>2, HeadServed
<1>3. CASE ServePublicKey(k) \/ ServeForward(k) \/ ServeQueue(k)
  <2>1. /\ to_server[k] # <<>> /\ m.kind \in {"get_public_key", "message"}
        /\ to_server' = [to_server EXCEPT ![k] = Tail(@)]
        /\ UNCHANGED <<account, mode, net_client, current_user_address>>
    BY <1>3 DEF ServePublicKey, ServeForward, ServeQueue, Serves, Receives, view, server
  <2>2. current_user_address' = [current_user_address EXCEPT ![k] = After(m, @)]
    BY <1>0, <2>1 DEF After, TypeOK
  <2>3. m \in ClientMessage
    BY <1>0, <2>1, SeqType DEF TypeOK
  <2>4. ASSUME NEW d \in Client, mode[d] = "auth", net_client[d] # None, net_client[d] # k
        PROVE  from_server'[d] \in Seq(Unanswered)
    <3>1. CASE ServePublicKey(k)
      <4>. DEFINE r == IF m.target \in known THEN [kind |-> "key_response", public_key |-> m.target]
                       ELSE [kind |-> "error"]
      <4>1. from_server' = Push(k, r) /\ m.target \in Account
        BY <2>3, <3>1, Kinds DEF ServePublicKey, Serves, Receives
      <4>2. r \in ServerResponse
        BY <4>1, PlainKinds
      <4>. HIDE DEF r
      <4> QED
        BY <2>4, <4>1, <4>2, PushQuiet
    <3>2. CASE ServeForward(k)
      <4>. DEFINE l == clients[m.to]
      <4>1. l # None /\ from_server' = Push(l, m) /\ m.kind = "message"
        BY <3>2 DEF ServeForward, Serves, Receives
      <4>2. m \in Message /\ m.to \in Account
        BY <2>3, <4>1, Kinds, PayloadKinds
      <4>3. l \in Conn
        BY <1>0, <4>1, <4>2 DEF TypeOK
      <4>. HIDE DEF l, m
      <4> QED
        BY <2>4, <4>1, <4>2, <4>3, Kinds, PushQuiet
    <3>3. CASE ServeQueue(k)
      BY <1>q, <2>4, <3>3 DEF ServeQueue
    <3> QED
      BY <1>3, <3>1, <3>2, <3>3
  <2>. HIDE DEF m
  <2>5. UNCHANGED <<account, mode, net_client>>
    BY <2>1
  <2> QED
    BY <2>1, <2>2, <2>4, <2>5, HeadServed DEF m
<1> QED
  BY <1>1, <1>2, <1>3 DEF Serve

LEMMA SenderStep == SenderInv /\ [Next]_vars => SenderInv'
<1>. SUFFICES ASSUME SenderInv, [Next]_vars PROVE SenderInv'
  OBVIOUS
<1>0. TypeInv /\ TypeOK /\ TypeInv'
  BY TypeStep DEF SenderInv, TypeInv
<1>1. ASSUME NEW c \in Client, NEW a \in Account, Login(c, a) PROVE SenderInv'
  <2>. DEFINE x == [kind |-> "register", address |-> a]
  <2>1. /\ to_server' = Sent(c, <<x>>) /\ account' = [account EXCEPT ![c] = a]
        /\ mode' = [mode EXCEPT ![c] = "peers"]
        /\ UNCHANGED <<net_client, from_server, current_user_address>>
    BY <1>1 DEF Login, server
  <2>2. x \in ClientMessage /\ x.kind = "register" /\ After(x, account[c]) = a
    BY PlainKinds DEF After
  <2>. HIDE DEF x
  <2>3. mode'[c] # "auth" /\ account'[c] = After(x, account[c])
        /\ UNCHANGED <<net_client, current_user_address>>
    BY <1>0, <2>1, <2>2 DEF TypeOK
  <2>4. \A d \in Client : d # c => /\ mode'[d] = mode[d] /\ account'[d] = account[d]
                                   /\ from_server'[d] = from_server[d]
    BY <1>0, <2>1 DEF TypeOK
  <2> QED
    BY <1>0, <2>1, <2>2, <2>3, <2>4, SentOne
<1>2. ASSUME NEW c \in Client, NEW k \in Conn, Connect(c, k) PROVE SenderInv'
  <2>1. /\ net_client[c] = None /\ handler[k] = "idle"
        /\ net_client' = [net_client EXCEPT ![c] = k]
        /\ mode' = [mode EXCEPT ![c] = "auth"]
        /\ UNCHANGED <<account, to_server, from_server, current_user_address>>
    BY <1>2 DEF Connect
  <2>2. to_server[k] = <<>> /\ from_server[c] = <<>>
    BY <1>0, <2>1 DEF TypeInv, HandlerReady, ClientReady
  <2>3. ASSUME NEW d \in Client PROVE ClientSpeaks(d)'
    <3>1. CASE d = c
      <4>1. net_client'[c] = k /\ mode'[c] = "auth" /\ to_server'[k] = <<>> /\ from_server'[c] = <<>>
        BY <1>0, <2>1, <2>2 DEF TypeOK
      <4>2. <<>> \in Seq(Unanswered)
        BY SeqType
      <4> QED
        BY <3>1, <4>1, <4>2 DEF ClientSpeaks
    <3>2. CASE d # c
      <4>1. net_client'[d] = net_client[d] /\ mode'[d] = mode[d]
        BY <1>0, <2>1, <3>2 DEF TypeOK
      <4>2. ClientSpeaks(d)
        BY DEF SenderInv
      <4> QED
        BY <2>1, <4>1, <4>2 DEF ClientSpeaks
    <3> QED
      BY <3>1, <3>2
  <2>4. \A l \in Conn : Introduced(to_server'[l], current_user_address'[l])
    BY <2>1 DEF SenderInv
  <2> QED
    BY <1>0, <2>3, <2>4 DEF SenderInv
<1>3. ASSUME NEW c \in Client, LoseLink(c) \/ RestartClient(c) PROVE SenderInv'
  <2>1. /\ net_client'[c] = None
        /\ \A d \in Client : d # c => /\ net_client'[d] = net_client[d] /\ mode'[d] = mode[d]
                                      /\ from_server'[d] = from_server[d]
        /\ UNCHANGED <<account, to_server, current_user_address>>
    BY <1>0, <1>3 DEF LoseLink, RestartClient, TypeOK, view, wires, server
  <2>2. ASSUME NEW d \in Client PROVE ClientSpeaks(d)'
    <3>1. ClientSpeaks(d)
      BY DEF SenderInv
    <3> QED
      BY <2>1, <3>1 DEF ClientSpeaks
  <2>3. \A l \in Conn : Introduced(to_server'[l], current_user_address'[l])
    BY <2>1 DEF SenderInv
  <2> QED
    BY <1>0, <2>2, <2>3 DEF SenderInv
<1>4. ASSUME NEW k \in Conn, CleanUp(k) PROVE SenderInv'
  <2>1. /\ net_client[Owner[k]] # k
        /\ to_server' = [to_server EXCEPT ![k] = <<>>]
        /\ current_user_address' = [current_user_address EXCEPT ![k] = None]
        /\ UNCHANGED <<account, mode, net_client, from_server>>
    BY <1>4 DEF CleanUp, view
  <2>2. ASSUME NEW l \in Conn PROVE Introduced(to_server'[l], current_user_address'[l])
    <3>1. CASE l = k
      <4>1. to_server'[l] = <<>>
        BY <1>0, <2>1, <3>1 DEF TypeOK
      <4> QED
        BY <4>1, SpeaksOnEmpty
    <3>2. CASE l # k
      <4>1. to_server'[l] = to_server[l] /\ current_user_address'[l] = current_user_address[l]
        BY <1>0, <2>1, <3>2 DEF TypeOK
      <4> QED
        BY <4>1 DEF SenderInv
    <3> QED
      BY <3>1, <3>2
  <2>3. ASSUME NEW d \in Client PROVE ClientSpeaks(d)'
    <3>1. net_client[d] # None => net_client[d] \in Conn /\ net_client[d] # k
      BY <1>0, <2>1, LinkOwner
    <3>2. net_client[d] # None =>
            /\ to_server'[net_client[d]] = to_server[net_client[d]]
            /\ current_user_address'[net_client[d]] = current_user_address[net_client[d]]
      BY <1>0, <2>1, <3>1 DEF TypeOK
    <3>3. ClientSpeaks(d)
      BY DEF SenderInv
    <3> QED
      BY <2>1, <3>2, <3>3 DEF ClientSpeaks
  <2> QED
    BY <1>0, <2>2, <2>3 DEF SenderInv
<1>5. CASE UNCHANGED vars
  <2>1. UNCHANGED <<account, mode, net_client, to_server, from_server, current_user_address>>
    BY <1>5 DEF vars, view, wires, server
  <2> QED
    BY <1>0, <2>1 DEF SenderInv, ClientSpeaks
<1> QED
  BY <1>0, <1>1, <1>2, <1>3, <1>4, <1>5, SenderPress, SenderReceive, SenderServe DEF Next

\* The server never takes a client's message for a forged one: whatever was
\* registered on a connection, whenever the user went on without one, and however
\* late the old handlers clean up, a message arrives after the Register of its
\* sender (network.rs:138, cli.rs:139-164).
THEOREM SendersAreRegistered == Spec => []SenderRegistered
<1>1. ASSUME SenderInv PROVE SenderRegistered
  <2>. SUFFICES ASSUME NEW k \in Conn, Receives(k, "message")
                PROVE  Head(to_server[k]).from = current_user_address[k]
    BY DEF SenderRegistered
  <2>. DEFINE s == to_server[k]
              a == current_user_address[k]
  <2>1. s # <<>> /\ Head(s).kind = "message" /\ s \in Seq(ClientMessage)
    BY <1>1 DEF Receives, SenderInv, TypeInv, TypeOK
  <2>2. Introduced(s, a)
    BY <1>1 DEF SenderInv
  <2>. HIDE DEF s, a
  <2>3. 1 \in 1 .. Len(s) /\ s[1] = Head(s)
    BY <2>1
  <2>4. Speaks(s, 1, a, Head(s).from)
    BY <2>1, <2>2, <2>3 DEF Introduced
  <2>5. a = Head(s).from
    BY <2>4 DEF Speaks
  <2> QED
    BY <2>5 DEF s, a
<1> QED
  BY SenderInitially, SenderStep, <1>1, PTL DEF Spec
=============================================================================
