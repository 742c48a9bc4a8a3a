---------------------------- MODULE ChatSession ----------------------------
(***************************************************************************)
(* The chats of CULT.NET clients (src/client/cli.rs): how two clients      *)
(* agree on an AES key through KeyInit messages, what they send and read   *)
(* with it, and what they keep of a chat on screen, in the database and in *)
(* the unread counters.                                                    *)
(*                                                                         *)
(* The event loop of a client is one task: it handles one response of the  *)
(* server or one key press at a time, and each is one action here.  Of the *)
(* server this module keeps what clients can tell apart: a handler serves  *)
(* the requests of its connection in order; a registration is cut where    *)
(* other handlers see it half done; a message goes to the connection that  *)
(* is indexed under its target, or to the target's queue; and a handler    *)
(* cleans up some time after its client let go of the connection.          *)
(* CultServer is the detailed model of it.                                 *)
(***************************************************************************)
EXTENDS Naturals, Sequences, FiniteSets

CONSTANTS
  Client,       \* running programs
  Conn,         \* connections; each is made at most once
  Owner,        \* Owner[k] is the client that makes connection k
  Account,      \* full addresses; an account's RSA key is named by its address
  Home,         \* Home[a] is the client whose accounts file holds account a
  Contacts,     \* Contacts[c] are the addresses in the contacts of client c
  Leader,       \* hypothesis on the users, see MayOpen: who opens chats first
  HistoryLimit, \* rows loaded when a chat is opened (50 in the code)
  MaxTexts,     \* bound on the texts typed
  MaxOpens,     \* bound on the chats opened
  MaxPending,   \* bound on the key requests without an answer yet
  MaxLogins,    \* MaxLogins[c] bounds the Registers of client c
  Roaming,      \* the clients that may lose or leave a connection
  None          \* Rust's None, an empty public_key, and "no entry" of a HashMap

AesKey == [by : Account, for : Account, nr : Nat]

Text == [from : Account, to : Account, nr : Nat]

\* InnerPayload, and a bare text, which does not parse as one.
Payload ==
       [kind : {"key_init"}, sealed_for : Account, key : AesKey]
  \cup [kind : {"secure_text"}, key : AesKey, text : Text]
  \cup [kind : {"plain"}, text : Text]

Message == [kind : {"message"}, from : Account, to : Account, payload : Payload]

ClientMessage ==
       [kind : {"register"}, address : Account]
  \cup [kind : {"get_public_key"}, target : Account]
  \cup Message

ServerResponse ==
  [kind : {"key_response"}, public_key : Account] \cup [kind : {"error"}] \cup Message

\* A row of a chat's database; the text is gone where decryption failed.
Row == [sender : Account, form : {"secure", "plain"}, text : Text]
         \cup [sender : Account, form : {"failed"}, text : {None}]

ASSUME ChatAssumption ==
  /\ Home \in [Account -> Client]
  /\ Owner \in [Conn -> Client]
  /\ \A c \in Client : \E a \in Account : Home[a] = c
  /\ Contacts \in [Client -> SUBSET Account]
  /\ Leader \subseteq Client
  /\ HistoryLimit \in Nat
  /\ MaxTexts \in Nat /\ MaxOpens \in Nat /\ MaxPending \in Nat /\ MaxLogins \in [Client -> Nat]
  /\ Roaming \subseteq Client
  /\ None \notin Account \cup Conn \cup AesKey \cup Text

VARIABLES
  account,            \* [Client -> the account it last registered with]
  mode,               \* [Client -> "auth" before the first login, then "chat", or
                      \*            "peers" for every other mode]
  active_peer,        \* [Client -> the address of the chat opened last, or None]
  public_key,         \* [Client -> [Account -> the contact's stored key, or None]]
  ephemeral_aes_keys, \* [Client -> [Account -> AesKey or None]]
  message_history,    \* [Client -> the rows on screen]
  unread_counts,      \* [Client -> [Account -> Nat]]
  chat_db,            \* [Client -> [Account -> the rows of the chat's database]]
  net_client,         \* [Client -> the connection it uses, or None]
  to_server,          \* [Conn -> requests that its handler has yet to serve]
  from_server,        \* [Client -> responses on their way to it, on net_client]
  handler,            \* [Conn -> where its handle_connection stands]
  current_user_address, \* [Conn -> the account it registered last, or None]
  held,               \* [Conn -> the queued messages it has yet to send on]
  clients,            \* [Account -> the connection indexed under it, or None]
  server_queue,       \* [Account -> the messages queued for it]
  known,              \* the accounts in the server's registry
  missed,             \* only recorded: the accounts for which a message was
                      \* queued although they were known
  keys,               \* how many AES keys were generated
  texts,              \* how many texts were typed
  opens,              \* how many times a chat was opened
  logins              \* [Client -> how often it registered]

view     == <<mode, active_peer, message_history, unread_counts>>
stored   == <<public_key, chat_db>>
wires    == <<net_client, to_server, from_server>>
server   == <<handler, current_user_address, held, clients, server_queue, known, missed>>
counters == <<keys, texts, opens, logins>>
vars     == <<account, view, stored, ephemeral_aes_keys, wires, server, counters>>

Init ==
  /\ account \in {f \in [Client -> Account] : \A c \in Client : Home[f[c]] = c}
  /\ mode = [c \in Client |-> "auth"]
  /\ active_peer = [c \in Client |-> None]
  /\ public_key = [c \in Client |-> [a \in Account |-> None]]
  /\ ephemeral_aes_keys = [c \in Client |-> [a \in Account |-> None]]
  /\ message_history = [c \in Client |-> <<>>]
  /\ unread_counts = [c \in Client |-> [a \in Account |-> 0]]
  /\ chat_db = [c \in Client |-> [a \in Account |-> <<>>]]
  /\ net_client = [c \in Client |-> None]
  /\ to_server = [k \in Conn |-> <<>>]
  /\ from_server = [c \in Client |-> <<>>]
  /\ handler = [k \in Conn |-> "idle"]
  /\ current_user_address = [k \in Conn |-> None]
  /\ held = [k \in Conn |-> <<>>]
  /\ clients = [a \in Account |-> None]
  /\ server_queue = [a \in Account |-> <<>>]
  /\ known = {}
  /\ missed = {}
  /\ keys = 0
  /\ texts = 0
  /\ opens = 0
  /\ logins = [c \in Client |-> 0]

-----------------------------------------------------------------------------
(* Helpers *)

\* client.sender.send, once per request; nothing is sent without a connection.
Sent(c, requests) ==
  IF net_client[c] = None THEN to_server
  ELSE [to_server EXCEPT ![net_client[c]] = @ \o requests]

MessageTo(c, p, payload) ==
  [kind |-> "message", from |-> account[c], to |-> p, payload |-> payload]

\* rand::thread_rng().fill: a key that nobody has.
FreshKey(c, p) == [by |-> account[c], for |-> p, nr |-> keys]

\* The KeyInit with which c hands key to p, readable by the owner of pub.
KeyInit(c, p, pub, key) ==
  MessageTo(c, p, [kind |-> "key_init", sealed_for |-> pub, key |-> key])

\* Mutant of Insert: the newest row comes first.
InsertOnTop(c, p, row) == chat_db' = [chat_db EXCEPT ![c][p] = <<row>> \o @]

Insert(c, p, row) == chat_db' = [chat_db EXCEPT ![c][p] = Append(@, row)]

Show(c, row) == message_history' = [message_history EXCEPT ![c] = Append(@, row)]

\* The next response that client c handles is of this kind.
Handles(c, kind) ==
  /\ from_server[c] # <<>>
  /\ Head(from_server[c]).kind = kind
  /\ from_server' = [from_server EXCEPT ![c] = Tail(@)]

HandlesPayload(c, kind) ==
  /\ Handles(c, "message")
  /\ Head(from_server[c]).payload.kind = kind

\* The key requests of c that are under way, and their answers.
Pending(c) ==
  LET up   == IF net_client[c] = None THEN <<>> ELSE to_server[net_client[c]]
      wire == up \o from_server[c]
  IN
  {i \in DOMAIN wire : wire[i].kind \in {"get_public_key", "key_response", "error"}}

-----------------------------------------------------------------------------
(* The event loop: key presses *)

\* Only leaders open a chat with a peer before that peer sent them a key.  A
\* run without this hypothesis makes every client a leader.
MayOpen(c, p) == c \in Leader \/ ephemeral_aes_keys[c][p] # None

\* The rows that "ORDER BY id ASC LIMIT 50" returns.
Loaded(rows) == SubSeq(rows, 1, IF Len(rows) < HistoryLimit THEN Len(rows) ELSE HistoryLimit)

\* Mutant of OpenChat: the screen is not cleared before the rows are loaded.
OpenChatOnTop(c, p) ==
  /\ mode[c] = "peers"
  /\ p \in Contacts[c]
  /\ MayOpen(c, p)
  /\ opens < MaxOpens
  /\ Cardinality(Pending(c)) < MaxPending
  /\ opens' = opens + 1
  /\ active_peer' = [active_peer EXCEPT ![c] = p]
  /\ unread_counts' = [unread_counts EXCEPT ![c][p] = 0]
  /\ to_server' = Sent(c, <<[kind |-> "get_public_key", target |-> p]>>)
  /\ message_history' = [message_history EXCEPT ![c] = @ \o Loaded(chat_db[c][p])]
  /\ mode' = [mode EXCEPT ![c] = "chat"]
  /\ UNCHANGED <<account, stored, ephemeral_aes_keys, net_client, from_server, server,
                 keys, texts, logins>>

\* Mutant of OpenChat: the unread counter stays.
OpenChatUnread(c, p) ==
  /\ mode[c] = "peers"
  /\ p \in Contacts[c]
  /\ MayOpen(c, p)
  /\ opens < MaxOpens
  /\ Cardinality(Pending(c)) < MaxPending
  /\ opens' = opens + 1
  /\ active_peer' = [active_peer EXCEPT ![c] = p]
  /\ to_server' = Sent(c, <<[kind |-> "get_public_key", target |-> p]>>)
  /\ message_history' = [message_history EXCEPT ![c] = Loaded(chat_db[c][p])]
  /\ mode' = [mode EXCEPT ![c] = "chat"]
  /\ UNCHANGED <<account, unread_counts, stored, ephemeral_aes_keys, net_client,
                 from_server, server, keys, texts, logins>>

\* Enter in Peers.  The status request that is sent as well changes nothing here.
OpenChat(c, p) ==
  /\ mode[c] = "peers"
  /\ p \in Contacts[c]
  /\ MayOpen(c, p)
  /\ opens < MaxOpens
  /\ Cardinality(Pending(c)) < MaxPending
  /\ opens' = opens + 1
  /\ active_peer' = [active_peer EXCEPT ![c] = p]
  /\ unread_counts' = [unread_counts EXCEPT ![c][p] = 0]
  /\ to_server' = Sent(c, <<[kind |-> "get_public_key", target |-> p]>>)
  /\ message_history' = [message_history EXCEPT ![c] = Loaded(chat_db[c][p])]
  /\ mode' = [mode EXCEPT ![c] = "chat"]
  /\ UNCHANGED <<account, stored, ephemeral_aes_keys, net_client, from_server, server,
                 keys, texts, logins>>

\* Esc in Chat.
CloseChat(c) ==
  /\ mode[c] = "chat"
  /\ mode' = [mode EXCEPT ![c] = "peers"]
  /\ UNCHANGED <<account, active_peer, message_history, unread_counts, stored,
                 ephemeral_aes_keys, wires, server, counters>>

\* Enter in Chat while the contact's key is unknown: the bare text is sent.
SendPlain(c) ==
  LET p    == active_peer[c]
      text == [from |-> account[c], to |-> p, nr |-> texts]
      row  == [sender |-> account[c], form |-> "plain", text |-> text]
  IN
  /\ mode[c] = "chat"
  /\ texts < MaxTexts
  /\ public_key[c][p] = None
  /\ to_server' = Sent(c, <<MessageTo(c, p, [kind |-> "plain", text |-> text])>>)
  /\ Insert(c, p, row)
  /\ Show(c, row)
  /\ texts' = texts + 1
  /\ UNCHANGED <<account, mode, active_peer, unread_counts, public_key,
                 ephemeral_aes_keys, net_client, from_server, server, keys, opens, logins>>

\* Enter in Chat: a SecureText, after a KeyInit if there is no key yet.
SendSecure(c) ==
  LET p     == active_peer[c]
      first == ephemeral_aes_keys[c][p] = None
      key   == IF first THEN FreshKey(c, p) ELSE ephemeral_aes_keys[c][p]
      text  == [from |-> account[c], to |-> p, nr |-> texts]
      row   == [sender |-> account[c], form |-> "secure", text |-> text]
      init  == IF first THEN <<KeyInit(c, p, public_key[c][p], key)>> ELSE <<>>
  IN
  /\ mode[c] = "chat"
  /\ texts < MaxTexts
  /\ public_key[c][p] # None
  /\ ephemeral_aes_keys' = [ephemeral_aes_keys EXCEPT ![c][p] = key]
  /\ keys' = IF first THEN keys + 1 ELSE keys
  /\ to_server' = Sent(c, Append(init,
       MessageTo(c, p, [kind |-> "secure_text", key |-> key, text |-> text])))
  /\ Insert(c, p, row)
  /\ Show(c, row)
  /\ texts' = texts + 1
  /\ UNCHANGED <<account, mode, active_peer, unread_counts, public_key,
                 net_client, from_server, server, opens, logins>>

-----------------------------------------------------------------------------
(* The event loop: responses *)

\* Mutant of ReceiveKeyInit: the key is taken for the chat on screen.
ReceiveKeyInitForActive(c) ==
  LET m == Head(from_server[c]) IN
  /\ HandlesPayload(c, "key_init")
  /\ ephemeral_aes_keys' =
       IF m.payload.sealed_for = account[c]
       THEN [ephemeral_aes_keys EXCEPT ![c][active_peer[c]] = m.payload.key]
       ELSE ephemeral_aes_keys
  /\ UNCHANGED <<account, view, stored, net_client, to_server, server, counters>>

\* InnerPayload::KeyInit, ignored unless the account's private key opens it.
ReceiveKeyInit(c) ==
  LET m == Head(from_server[c]) IN
  /\ HandlesPayload(c, "key_init")
  /\ ephemeral_aes_keys' =
       IF m.payload.sealed_for = account[c]
       THEN [ephemeral_aes_keys EXCEPT ![c][m.from] = m.payload.key]
       ELSE ephemeral_aes_keys
  /\ UNCHANGED <<account, view, stored, net_client, to_server, server, counters>>

\* Mutant of RowOf: what could not be decrypted is stored as it came.
RawRow(c, m) ==
  [sender |-> m.from, text |-> m.payload.text,
   form |-> IF ephemeral_aes_keys[c][m.from] = m.payload.key THEN "secure" ELSE "failed"]

\* The row that a SecureText leaves: readable with the key it was made with.
RowOf(c, m) ==
  IF ephemeral_aes_keys[c][m.from] = m.payload.key
  THEN [sender |-> m.from, form |-> "secure", text |-> m.payload.text]
  ELSE [sender |-> m.from, form |-> "failed", text |-> None]

\* Mutant of ReceiveOnScreen: what is on screen is not stored.
ShowOnly(c) ==
  LET m == Head(from_server[c]) IN
  /\ HandlesPayload(c, "secure_text")
  /\ active_peer[c] = m.from /\ mode[c] = "chat"
  /\ Show(c, RowOf(c, m))
  /\ UNCHANGED <<account, mode, active_peer, unread_counts, stored,
                 ephemeral_aes_keys, net_client, to_server, server, counters>>

\* InnerPayload::SecureText of the chat on screen ...
ReceiveOnScreen(c) ==
  LET m == Head(from_server[c]) IN
  /\ HandlesPayload(c, "secure_text")
  /\ active_peer[c] = m.from /\ mode[c] = "chat"
  /\ Show(c, RowOf(c, m))
  /\ Insert(c, m.from, RowOf(c, m))
  /\ UNCHANGED <<account, mode, active_peer, unread_counts, public_key,
                 ephemeral_aes_keys, net_client, to_server, server, counters>>

\* Mutant of ReceiveUnread: the row goes to the database of the active peer.
StoreWithActive(c) ==
  LET m == Head(from_server[c]) IN
  /\ HandlesPayload(c, "secure_text")
  /\ ~(active_peer[c] = m.from /\ mode[c] = "chat")
  /\ unread_counts' = [unread_counts EXCEPT ![c][m.from] = @ + 1]
  /\ Insert(c, IF active_peer[c] = None THEN m.from ELSE active_peer[c], RowOf(c, m))
  /\ UNCHANGED <<account, mode, active_peer, message_history, public_key,
                 ephemeral_aes_keys, net_client, to_server, server, counters>>

\* ... and of any other chat.
ReceiveUnread(c) ==
  LET m == Head(from_server[c]) IN
  /\ HandlesPayload(c, "secure_text")
  /\ ~(active_peer[c] = m.from /\ mode[c] = "chat")
  /\ unread_counts' = [unread_counts EXCEPT ![c][m.from] = @ + 1]
  /\ Insert(c, m.from, RowOf(c, m))
  /\ UNCHANGED <<account, mode, active_peer, message_history, public_key,
                 ephemeral_aes_keys, net_client, to_server, server, counters>>

\* A bare text does not parse as InnerPayload: it is dropped, as is an Error.
Ignore(c) ==
  /\ HandlesPayload(c, "plain") \/ Handles(c, "error")
  /\ UNCHANGED <<account, view, stored, ephemeral_aes_keys, net_client, to_server,
                 server, counters>>

\* Mutant of ReceiveKeyResponse: a new key even if there is one.
RenewKey(c) ==
  LET p   == active_peer[c]
      pub == Head(from_server[c]).public_key
  IN
  /\ Handles(c, "key_response")
  /\ public_key' = [public_key EXCEPT ![c][p] = pub]
  /\ to_server' = Sent(c, <<KeyInit(c, p, pub, FreshKey(c, p))>>)
  /\ ephemeral_aes_keys' = [ephemeral_aes_keys EXCEPT ![c][p] = FreshKey(c, p)]
  /\ keys' = keys + 1
  /\ UNCHANGED <<account, view, chat_db, net_client, server, texts, opens, logins>>

\* KeyResponse does not name its target: it is taken for the active peer.
ReceiveKeyResponse(c) ==
  LET p     == active_peer[c]
      pub   == Head(from_server[c]).public_key
      first == ephemeral_aes_keys[c][p] = None
  IN
  /\ Handles(c, "key_response")
  /\ public_key' = [public_key EXCEPT ![c][p] = pub]
  /\ IF first
     THEN /\ to_server' = Sent(c, <<KeyInit(c, p, pub, FreshKey(c, p))>>)
          /\ ephemeral_aes_keys' = [ephemeral_aes_keys EXCEPT ![c][p] = FreshKey(c, p)]
          /\ keys' = keys + 1
     ELSE UNCHANGED <<to_server, ephemeral_aes_keys, keys>>
  /\ UNCHANGED <<account, view, chat_db, net_client, server, texts, opens, logins>>

-----------------------------------------------------------------------------
(* Connections *)

\* Mutant of Connect: the user stays where the result of the attempt finds them.
ConnectInMode(c, k) ==
  /\ net_client[c] = None
  /\ Owner[k] = c
  /\ handler[k] = "idle"
  /\ net_client' = [net_client EXCEPT ![c] = k]
  /\ handler' = [handler EXCEPT ![k] = "receive"]
  /\ UNCHANGED <<account, view, stored, ephemeral_aes_keys, to_server, from_server,
                 current_user_address, held, clients, server_queue, known, missed, counters>>

\* A connection attempt succeeds, in whatever mode the user is by then.
Connect(c, k) ==
  /\ net_client[c] = None
  /\ Owner[k] = c
  /\ handler[k] = "idle"
  /\ net_client' = [net_client EXCEPT ![c] = k]
  /\ handler' = [handler EXCEPT ![k] = "receive"]
  /\ mode' = [mode EXCEPT ![c] = "auth"]
  /\ UNCHANGED <<account, active_peer, message_history, unread_counts, stored,
                 ephemeral_aes_keys, to_server, from_server, current_user_address,
                 held, clients, server_queue, known, missed, counters>>

\* Register with the account chosen in Auth, or with the one whose login ends
\* now, in whatever mode: the first Register of a connection or a further one.
Login(c, a) ==
  /\ Home[a] = c
  /\ logins[c] < MaxLogins[c]
  /\ logins' = [logins EXCEPT ![c] = @ + 1]
  /\ to_server' = Sent(c, <<[kind |-> "register", address |-> a]>>)
  /\ account' = [account EXCEPT ![c] = a]
  /\ mode' = [mode EXCEPT ![c] = "peers"]
  /\ UNCHANGED <<active_peer, message_history, unread_counts, stored,
                 ephemeral_aes_keys, net_client, from_server, server, keys, texts, opens>>

\* The client is rid of its connection, which broke or which it leaves by
\* Disconnect or by ending: the responses under way are lost, while the handler
\* may go on with the requests that reached it.
LoseLink(c) ==
  /\ c \in Roaming
  /\ net_client[c] # None
  /\ net_client' = [net_client EXCEPT ![c] = None]
  /\ from_server' = [from_server EXCEPT ![c] = <<>>]
  /\ UNCHANGED <<account, view, stored, ephemeral_aes_keys, to_server, server, counters>>

\* The program is started again: what it kept in memory is gone.
RestartClient(c) ==
  /\ net_client[c] = None
  /\ mode' = [mode EXCEPT ![c] = "auth"]
  /\ active_peer' = [active_peer EXCEPT ![c] = None]
  /\ message_history' = [message_history EXCEPT ![c] = <<>>]
  /\ unread_counts' = [unread_counts EXCEPT ![c] = [a \in Account |-> 0]]
  /\ ephemeral_aes_keys' = [ephemeral_aes_keys EXCEPT ![c] = [a \in Account |-> None]]
  /\ UNCHANGED <<account, stored, wires, server, counters>>

-----------------------------------------------------------------------------
(* The server: the handler of connection k *)

\* tx.send to connection k: nobody reads a connection that was left.
Push(k, m) ==
  IF net_client[Owner[k]] = k
  THEN [from_server EXCEPT ![Owner[k]] = Append(@, m)] ELSE from_server

\* Its receive loop is at a request of this kind.
Receives(k, kind) ==
  /\ handler[k] = "receive"
  /\ held[k] = <<>>
  /\ to_server[k] # <<>>
  /\ Head(to_server[k]).kind = kind

Serves(k, kind) ==
  /\ Receives(k, kind)
  /\ to_server' = [to_server EXCEPT ![k] = Tail(@)]

\* Register begins: from here on the registry answers for the account ...
RegisterUser(k) ==
  /\ Receives(k, "register")
  /\ known' = known \cup {Head(to_server[k]).address}
  /\ handler' = [handler EXCEPT ![k] = "insert"]
  /\ UNCHANGED <<account, view, stored, ephemeral_aes_keys, wires, current_user_address,
                 held, clients, server_queue, missed, counters>>

\* ... from here on messages reach the connection (the request is done with) ...
InsertClient(k) ==
  LET a == Head(to_server[k]).address IN
  /\ handler[k] = "insert"
  /\ clients' = [clients EXCEPT ![a] = k]
  /\ current_user_address' = [current_user_address EXCEPT ![k] = a]
  /\ to_server' = [to_server EXCEPT ![k] = Tail(@)]
  /\ handler' = [handler EXCEPT ![k] = "flush"]
  /\ UNCHANGED <<account, view, stored, ephemeral_aes_keys, net_client, from_server,
                 held, server_queue, known, missed, counters>>

\* ... the account's queue is taken ...
TakePending(k) ==
  LET a == current_user_address[k] IN
  /\ handler[k] = "flush"
  /\ held' = [held EXCEPT ![k] = server_queue[a]]
  /\ server_queue' = [server_queue EXCEPT ![a] = <<>>]
  /\ handler' = [handler EXCEPT ![k] = "receive"]
  /\ UNCHANGED <<account, view, stored, ephemeral_aes_keys, wires,
                 current_user_address, clients, known, missed, counters>>

\* ... and sent, one message at a time, while others forward theirs.
SendPending(k) ==
  /\ held[k] # <<>>
  /\ from_server' = Push(k, Head(held[k]))
  /\ held' = [held EXCEPT ![k] = Tail(@)]
  /\ UNCHANGED <<account, view, stored, ephemeral_aes_keys, net_client, to_server,
                 handler, current_user_address, clients, server_queue, known, missed,
                 counters>>

ServePublicKey(k) ==
  LET target == Head(to_server[k]).target IN
  /\ Serves(k, "get_public_key")
  /\ from_server' = Push(k,
       IF target \in known THEN [kind |-> "key_response", public_key |-> target]
       ELSE [kind |-> "error"])
  /\ UNCHANGED <<account, view, stored, ephemeral_aes_keys, net_client, server, counters>>

\* SendMessage to an account that is indexed.  The check of its sender is left
\* out, because it always succeeds (SenderRegistered).
ServeForward(k) ==
  LET m == Head(to_server[k]) IN
  /\ Serves(k, "message")
  /\ clients[m.to] # None
  /\ from_server' = Push(clients[m.to], m)
  /\ UNCHANGED <<account, view, stored, ephemeral_aes_keys, net_client, server, counters>>

\* SendMessage to any other account; missed records that it was known already.
ServeQueue(k) ==
  LET m == Head(to_server[k]) IN
  /\ Serves(k, "message")
  /\ clients[m.to] = None
  /\ server_queue' = [server_queue EXCEPT ![m.to] = Append(@, m)]
  /\ missed' = missed \cup ({m.to} \cap known)
  /\ UNCHANGED <<account, view, stored, ephemeral_aes_keys, net_client, from_server,
                 handler, current_user_address, held, clients, known, counters>>

\* The loop ends some time after the client let go, with or without the requests
\* that were still under way; the address is removed whoever is indexed under it.
CleanUp(k) ==
  /\ net_client[Owner[k]] # k
  /\ handler[k] = "receive"
  /\ held[k] = <<>>
  /\ handler' = [handler EXCEPT ![k] = "closed"]
  /\ to_server' = [to_server EXCEPT ![k] = <<>>]
  /\ clients' = IF current_user_address[k] = None THEN clients
                ELSE [clients EXCEPT ![current_user_address[k]] = None]
  /\ current_user_address' = [current_user_address EXCEPT ![k] = None]
  /\ UNCHANGED <<account, view, stored, ephemeral_aes_keys, net_client, from_server,
                 held, server_queue, known, missed, counters>>

-----------------------------------------------------------------------------

Press(c) == (\E p \in Account : OpenChat(c, p)) \/ CloseChat(c) \/ SendPlain(c) \/ SendSecure(c)

Receive(c) ==
  \/ ReceiveKeyInit(c) \/ ReceiveOnScreen(c) \/ ReceiveUnread(c)
  \/ Ignore(c) \/ ReceiveKeyResponse(c)

Serve(k) ==
  \/ RegisterUser(k) \/ InsertClient(k) \/ TakePending(k) \/ SendPending(k)
  \/ ServePublicKey(k) \/ ServeForward(k) \/ ServeQueue(k)

Next ==
  \/ \E c \in Client :
       \/ Press(c) \/ Receive(c) \/ LoseLink(c) \/ RestartClient(c)
       \/ \E a \in Account : Login(c, a)
       \/ \E k \in Conn : Connect(c, k)
  \/ \E k \in Conn : Serve(k) \/ CleanUp(k)

Spec == Init /\ [][Next]_vars

\* The event loop of a client polls its responses in every round, and the
\* server polls every handler.  Nothing is assumed of the users.
FairSpec ==
  Spec /\ (\A c \in Client : WF_vars(Receive(c))) /\ (\A k \in Conn : WF_vars(Serve(k)))

-----------------------------------------------------------------------------
(* Properties *)

\* Every variable has its type.
TypeOK ==
  /\ account \in [Client -> Account]
  /\ mode \in [Client -> {"auth", "peers", "chat"}]
  /\ active_peer \in [Client -> Account \cup {None}]
  /\ public_key \in [Client -> [Account -> Account \cup {None}]]
  /\ ephemeral_aes_keys \in [Client -> [Account -> AesKey \cup {None}]]
  /\ message_history \in [Client -> Seq(Row)]
  /\ unread_counts \in [Client -> [Account -> Nat]]
  /\ chat_db \in [Client -> [Account -> Seq(Row)]]
  /\ net_client \in [Client -> Conn \cup {None}]
  /\ to_server \in [Conn -> Seq(ClientMessage)]
  /\ from_server \in [Client -> Seq(ServerResponse)]
  /\ handler \in [Conn -> {"idle", "receive", "insert", "flush", "closed"}]
  /\ current_user_address \in [Conn -> Account \cup {None}]
  /\ held \in [Conn -> Seq(Message)]
  /\ clients \in [Account -> Conn \cup {None}]
  /\ server_queue \in [Account -> Seq(Message)]
  /\ known \subseteq Account /\ missed \subseteq Account
  /\ keys \in Nat /\ texts \in Nat /\ opens \in Nat
  /\ logins \in [Client -> Nat]

\* The screen shows the conversation: in a chat that fits the limit the rows on
\* screen are those of the chat's database, whatever arrived while the chat was
\* open, closed, or another one was (cli.rs:202-214, :637-650, :704-772).
ScreenShowsConversation ==
  \A c \in Client :
    LET rows == chat_db[c][active_peer[c]] IN
    mode[c] = "chat" /\ Len(rows) <= HistoryLimit => message_history[c] = rows

\* The unread counter is exact: of the chat opened last it counts the rows that
\* followed what was on screen, all of them from the peer (cli.rs:202-207, :625).
UnreadIsTheRest ==
  \A c \in Client :
    LET p     == active_peer[c]
        rows  == chat_db[c][p]
        shown == Len(message_history[c])
    IN  p # None /\ Len(rows) <= HistoryLimit =>
          /\ Len(rows) = shown + unread_counts[c][p]
          /\ \A i \in shown + 1 .. Len(rows) : rows[i].sender = p

\* A session key is known at its two ends only: whoever holds a key for a peer
\* made it for that peer or got it from that peer, whatever public keys the
\* contacts hold and whichever accounts were used (cli.rs:185-196, :228-252).
KeyStaysBetweenPair ==
  \A c \in Client, p \in Account :
    LET key == ephemeral_aes_keys[c][p] IN
    key # None => \/ key.for = p /\ Home[key.by] = c
                  \/ key.by = p /\ Home[key.for] = c

\* A chat holds what its two sides wrote: what decrypts was written by the peer
\* to this client, and nothing of another program is read twice, over whichever
\* connections and queues it came (cli.rs:197-215).
ReadInRightChat ==
  \A c \in Client, p \in Account :
    LET rows == chat_db[c][p]
        read == {i \in DOMAIN rows : rows[i].sender = p /\ rows[i].form = "secure"}
    IN  /\ \A i \in DOMAIN rows : rows[i].sender = p \/ Home[rows[i].sender] = c
        /\ \A i \in read : rows[i].text.from = p /\ Home[rows[i].text.to] = c
        /\ Home[p] # c => \A i, j \in read : rows[i].text = rows[j].text => i = j

\* The server never takes a client's message for a forged one: whatever was
\* registered on a connection, and whenever the user went on without one, a
\* message arrives after the Register of its sender (network.rs:138, cli.rs:146).
SenderRegistered ==
  \A k \in Conn :
    Receives(k, "message") => Head(to_server[k]).from = current_user_address[k]

\* No message was queued for an account of client c that was known already.
Attended(c) == \A a \in missed : Home[a] # c

\* With one leader and unbroken connections the session works: a SecureText
\* decrypts, because its key came before it, unless a message for the client was
\* queued between the moments when its account became known and when it became
\* reachable (cli.rs:197-200, :715-741, network.rs:82-103 against :140-164).
Readable ==
  \A c \in Client, p \in Account :
    Attended(c) => \A i \in DOMAIN chat_db[c][p] : chat_db[c][p][i].form # "failed"

\* With one leader and unbroken connections a chat keeps the peer's texts in the
\* order in which the peer wrote them, whether they were shown or counted, and
\* whatever was queued before the client was known: only a message queued after
\* that can be passed by others (cli.rs:197-215, network.rs:95-103).
ReadInOrder ==
  \A c \in Client, p \in Account :
    LET rows == chat_db[c][p]
        read == {i \in DOMAIN rows : rows[i].sender = p /\ rows[i].form = "secure"}
    IN  Home[p] # c /\ Attended(c) =>
          \A i, j \in read : i < j => rows[i].text.nr < rows[j].text.nr

\* The text stands in the database of client c, in the chat with p.
Stands(c, p, text) ==
  \E i \in DOMAIN chat_db[c][p] :
    chat_db[c][p][i] = [sender |-> text.from, form |-> "secure", text |-> text]

\* With one leader and unbroken connections a text for another program arrives, readable,
\* unless a message for the receiver was queued while it became reachable.
TextsArrive ==
  \A a \in Account : \A b \in {x \in Account : Home[x] # Home[a]} : \A n \in 0 .. MaxTexts - 1 :
    LET text == [from |-> a, to |-> b, nr |-> n] IN
    Stands(Home[a], b, text) ~> Stands(Home[b], a, text) \/ ~Attended(Home[b])

-----------------------------------------------------------------------------
(* What the documentation says and the code does not do. *)

\* README.md:19 "If an incoming payload fails to decrypt via AES (e.g., due to
\* session desynchronization), the client automatically triggers an RSA
\* decryption fallback": a failure changes the session or asks for a new one.
FallbackAfterFailure ==
  [][\A c \in Client, p \in Account :
       LET rows == chat_db'[c][p] IN
       Len(rows) > Len(chat_db[c][p]) /\ rows[Len(rows)].form = "failed" =>
         \/ ephemeral_aes_keys'[c] # ephemeral_aes_keys[c]
         \/ \E k \in Conn : Owner[k] = c /\ to_server'[k] # to_server[k]]_vars
=============================================================================
