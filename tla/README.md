# CULT.NET: specification, model checking and proofs

CULT.NET is a terminal messenger: a relay server (`src/src/server`) that keeps
everything in memory, and a client (`src/src/client`) that encrypts chat messages
end to end. This directory holds TLA+ modules of both, the TLC configurations
that check them on small instances, and proofs for all instances of what matters
most. Paths below are relative to `src/src` (so `server/network.rs:163` is line
163 of `src/src/server/network.rs`).

## 1. Inventory

| component | state | operations | hard because |
|---|---|---|---|
| connection handler (`server/network.rs`) | per connection: `current_user_address`, an unbounded channel `tx`/`rx`, a send task; shared: `clients`, the index from address to `tx` | accept, the five requests, the clean-up after the loop | one task per connection; every `lock().await` lets the others run; one read guard lives across another await; the peer may vanish at any step |
| registry (`server/registry.rs`, `server/auth.rs`) | address -> key, online flag, last seen, trusted peers | `register_user`, `set_online_status`, `get_public_key`, `add_trust`, `get_status` | its lock is not the index's lock, so presence and index change at different times; an address carries only 16 bits of the key's hash |
| offline queue (`server/queue.rs`) | address -> messages with expiry | `enqueue_message`, `get_messages` (takes all, drops the expired) | races between a sender that found its target offline and the target's registration |
| wire protocol (`shared.rs`) | - | `ClientMessage`, `ServerResponse` | a `KeyResponse` does not name its target |
| server start-up (`server/main.rs`, `start_server`) | - | build the shared state, accept connections | a restart forgets everything |
| chat session (`client/cli.rs`, `client/crypto.rs`) | `active_peer`, `contacts`, `ephemeral_aes_keys`, `message_history`, `unread_counts`, the chat database | open a chat, send, receive `KeyInit`, `SecureText`, `KeyResponse` | answers come later than the questions, the user moves on in between; two clients negotiate keys over two independent FIFO paths |
| transport (`client/network.rs`) | two channels per connection | connect, two forwarding tasks | the task that reads keeps an old connection open after its handle is gone, and nobody is told when a connection breaks |
| account store (`client/auth.rs`, `client/storage.rs`) | `accounts.json`; in the event loop the list `accounts` and `active_acc` | `login`, `switch_account`, `get_active_account`, delete | blocking tasks and the event loop load, change and save one file without a lock; the save is not atomic; three copies of "who is active" |
| modes (`client/cli.rs`, `AppMode`) | mode, `delete_parent_mode`, `input_buffer`, pending connections and logins, `net_client`, `account`, `active_acc` | key presses, results of spawned tasks | results arrive in modes that did not ask for them; several attempts and logins may be under way at once |
| contacts and lists (`client/cli.rs`) | in-memory lists, `contacts.json`, six list selections | add, delete, select, a key stored | indices into a list that was loaded again in between; a failed save goes unnoticed |
| rendering (`ui`) | scroll offset | draw | nothing but layout |
| `client/messages.rs` | - | `send_message`, `handle_incoming` | called from nowhere |

How they interact: the client's two transport tasks carry requests to the
handler of the connection and responses back, each direction in order. Handlers
meet in three maps, each behind its own `tokio::sync::RwLock`: a sender looks its
target up in the index and either pushes into the target's channel or appends to
the target's queue; a registration indexes the connection and then flushes the
queue. The send task of a connection moves its channel to the socket and is
aborted when the handler leaves its loop. On the client the event loop alone
touches the state in memory; connection attempts and key generations run beside
it and report through channels, and key generations write the accounts file.

What makes each part correct:

- *handler, index and queue*: no message is stranded in a queue while its target
  is indexed; no message exists twice; a message enters only the channel of its
  target; index and presence agree with the live connections; a queued message
  comes to the connection that registers its target; no lock keeps a handler from
  finishing; a message is overtaken only while it waits in a queue; the whole keeps
  the custody of each message.
- *registry*: the key under an address has the address's fingerprint; trust and
  last-seen times are never lost while the process lives.
- *chat session*: two clients that talk use one key; what is decrypted is what was
  sent, in the order in which it was written; the server takes what they send for
  genuine; the unread counters, the history on screen and the database agree; a key
  answer is filed under the contact it was asked for.
- *account store*: at most one account is active; no account is lost; the file
  parses; a login comes to an end that the user sees; the account shown is the one
  that is used.
- *modes*: the session on screen is the one the server knows, and no other of this
  client stays there; text typed into one screen is not used by another.
- *contacts and lists*: an index is in range when it is used; what is removed is
  what the user selected and confirmed; memory and file agree.

## 2. Plan

Order: what carries messages first, then what encrypts them, then what the
client keeps.

1. `CultServer` (done): the whole server.
   `MessageCustody` (done): what the server promises about one message, and
   `CultServerCustody` (done): the mapping under which `CultServer` implements it.
   `CultServer_proofs` (done): type correctness, the two queue invariants, the registry
   and, for clients with one session per address, index and presence.
   `CultServerMessages_proofs` (done): where a message is, that it is there once,
   whose channel it enters, and what it may overtake. `CultServerCustody_proofs` (done): the refinement.
2. `ChatSession` (done): clients over the relay, the `KeyInit`/`SecureText`/`KeyResponse`
   protocol, unread counters, screen and database.
   `ChatSession_proofs` (done): type correctness, who knows a session key, which
   messages the server takes, what a chat shows and what it holds.
3. `AccountStore` (done): `login` on blocking threads against `switch_account` and
   deletion over the accounts file, with a crash in the middle of a save.
4. `ClientModes` (done): `AppMode` with connection attempts and key generation against
   the server's sessions. `ClientLists` (done): contact and account lists against
   their selections and files.
5. `ClientModes_proofs`, `AccountStore_proofs`, `ClientLists_proofs` (done, see section 6):
   every safety property of the three modules. `ListLemmas` is what the last two
   share.
6. Every safety property that a passing run checks is proved (section 6) but two,
   `Readable` and `ReadInOrder`, which are the next to prove. What has no proof
   otherwise is liveness, and the two properties that the code violates. Not modelled
   yet and worth it: the list of recent servers, the status requests of the client.

## 3. The server

### `CultServer`

`handle_connection` is cut at each await on a lock: one action per critical
section, `pc[c]` naming the section that handler `c` enters next.

| action | code (`server/network.rs`) |
|---|---|
| `Accept` | 38-60: accept, handshake, channel and send task |
| `Register`, `InsertClient`, `MarkOnline`, `TakePending`, `SendPending`, `FinishRegister` | 77-104: `register_user`; `clients.write().insert`; `set_online_status` and the `Ok` response; `get_messages`; the loop that sends |
| `GetPublicKey`, `LookupKey` | 105-120: `add_trust`, then `get_public_key` and the response |
| `CheckStatus` | 121-135, no answer before a registration |
| `RejectMessage`, `ForwardMessage`, `HoldMessage`, `EnqueueMessage` | 136-168: wrong `from`; target indexed; target not indexed, in two steps that hold the read guard of `clients` between them |
| `EndReceive`, `MarkOffline`, `RemoveClient` | 169-188: `Disconnect`, or the stream failed or ended; clean-up |
| `SendToSocket`, `StopSendTask` | 55-60 and 180: the send task, which may still send after `abort` until it reaches its next await |
| `LoseLink`, `Tick`, `Restart` | the network, the clock, the end of the process |

The state: `registry`, `clients` and `queue` are the three maps (`None` is "no
entry"; an emptied queue is the empty sequence, as `get_messages` leaves it);
`current_user_address`, `rx`, `send_task` belong to a connection; `arg` and `held`
are the local variables that live across an await; `link`, `inbox` and `sent`
belong to the outside. A lock held over an await is a condition on `pc`: the read
guard of `clients` is held exactly at `"enqueue"`, and `ClientsWritable` is what a
writer of `clients` waits for.

Abstracted: a public key is a value, an address a name with the identifier
`PeerIdOf[key]` (any function, so keys may collide as four hex digits allow);
message contents and timestamps are dropped, a message is its identifier, sender
and target; a text that does not parse changes nothing and is left out. The
registry's actions are one critical section each because each takes the
registry's lock once.

`OneSession` is a hypothesis on the *clients*, not on the server: no address is
registered while another connection stands for it, and no connection registers
twice. Nothing in the server enforces it. Runs and theorems that need it say so.
`stale_cleanup` shows what happens without the first half; without the second, a
connection that registers twice is cleaned up for its last address only (90, 183),
and the first stays indexed and online for ever.

### `MessageCustody` and `CultServerCustody`

`MessageCustody` knows neither connections nor locks: a message is unsent, held,
queued, in flight, received or lost, and only the listed moves exist. In
particular a queued message lives exactly until its deadline, a registration
takes a whole queue and loses exactly what has expired, and nothing ever comes
back. `CultServerCustody` reads the custody of a message off the server's state
and states `KeepsCustody`, which TLC checks on one instance and section 6 proves
for all.

### Runs

| run | instance | shows |
|---|---|---|
| `relay` | three connections, two addresses, one message, any registration order, shared addresses | `TypeOK`; `NoStranded`; `TargetStaysOffline`; `AtMostOneCopy` |
| `custody` | two connections, two messages, expiry after one tick, one restart | the server implements `MessageCustody` |
| `session` | three connections that break or disconnect anywhere, two messages, one restart, one session per address | `IndexAccurate`, `PresenceAccurate`, `RoutedToOwner`, `OvertakenOnlyWaiting` |
| `registry` | three keys on two identifiers, one name | `KeyFitsAddress`, `EntriesPersist` |
| `live` | two connections that register, send and disconnect in every order, two addresses, one message | `QueueReachesOwner`, `HandlersFinish` |
| `stale_cleanup` | as `relay` | VIOLATED: `QueuedOnlyWhenOffline` |

Bounds. Three connections are a sender and two connections that compete for the
target's address, the most that any single race in the code involves (lookup,
insertion and clean-up of one address). One message is enough for invariants on
single messages; `custody` and `session` have two, so that a flush of several, a flush
of an expired and a live one, and a message that passes another one occur.
`OvertakenOnlyWaiting` does not depend on `OneSession`, and `OrderIsKept` (section 6) has it
without; `session` is where several messages meet broken connections. `MaxTime` 1 with `TTL` 1 lets a message expire and
not expire. `MaxChannel` bounds only how many responses may wait when a *request*
is read: forwarding to others, flushing and all inner steps are never blocked by
it. A run restricts `Requests` to those that its properties depend on, and lets
links break (`LinksBreak`) where they are about broken links; `Disconnect` ends a
session everywhere else. Runs with symmetry permute connections, messages and
names; the liveness run uses none. Deadlock checking is off because the system
may legitimately come to rest: every connection closed, the clock at its bound.

Fairness (`live` only). `HandlerStep` is weakly fair: tokio polls a task that is
ready. `InsertClient` and `RemoveClient` are strongly fair: they wait for the write
lock of `clients`, which other handlers may take again and again in between, and
tokio's `RwLock` queues its waiters in order, so a waiting writer is served. That a
receive loop ever ends is *not* assumed (`EndReceive` is in no fairness condition):
`ws_receiver.next()` (63) has neither a time-out nor a ping, and a peer that vanishes
without a word leaves a half-open TCP stream on which it may wait for ever, with
its user indexed and online. `HandlersFinish` therefore begins after the loop.
Nothing is assumed of the clients (they may never send anything again), nor of the
send tasks, since writing to a socket may block for ever: `QueueReachesOwner` ends
in the channel of the connection.

The instance of `live` is small but has the races that the two properties are
about: with one connection that sends and one that registers or leaves, a handler
stands at the enqueue, with the read guard, while the other waits for the write
lock to insert the target of that very message, or to remove an address. (Both were
confirmed reachable.) Two mutants show the two sides: a registration that does not
wait for the guard leaves the message in the queue, and an enqueue that waits for
registrations waits for ever.

### Finding

1. `stale_cleanup`. The clean-up removes the index entry by address, whoever it
   belongs to (`network.rs:186`). A user that reconnects before the server has
   noticed the end of the old connection is removed from the index by the old
   handler; messages to it are then queued under the comment "Target is offline,
   enqueue" (155) although it is connected, until it registers once more.

Two more places where code and comment differ, without a run of their own. From
`send_task.abort()` (180) to the removal from the index (186) a target is still
found; the send into its channel fails, the error is dropped (149), and the sender
gets `Delivered` (151-153) for a message that is neither delivered nor queued:
`MessageCustody` calls it lost. And `get_status` asks whether trust is mutual
(`registry.rs:62`), but one request of one side records both directions
(`registry.rs:46-54`).

## 4. The chat session

### `ChatSession`

Several client programs, each with one or more accounts and connections, and of the
server what clients can tell apart. The event loop of a client (`run_app`) is one
task, so each response and each key press is one action; it drains its channel
before it looks at the keyboard, which the model does not insist on: it has every
behaviour of the code and those where a key press comes between two responses.

| action | code |
|---|---|
| `OpenChat` | `client/cli.rs` 621-655: Enter in the list of peers; the counter is reset, the key asked for, the oldest rows loaded |
| `CloseChat` | 658-666: Esc; `active_peer` stays |
| `SendPlain`, `SendSecure` | 682-777: Enter in a chat, without and with the contact's key; the latter makes and sends a session key first if there is none |
| `ReceiveKeyInit` | 185-196 |
| `ReceiveOnScreen`, `ReceiveUnread` | 197-215: shown or counted, and stored in both cases |
| `ReceiveKeyResponse` | 218-253: filed under the *active* peer, and a session key is made if there is none |
| `Ignore` | 182 (a text that is no `InnerPayload`) and 260 (an `Error`) |
| `Connect` | 139-151: the result of an attempt, in any mode; the mode becomes `Auth` |
| `Login` | 392-405, and 153-164 in any mode: `Register` over the connection in use, the first or a further one, with any account of the program |
| `LoseLink` | the connection breaks, is left (`Disconnect`, 497-509) or ends with the program |
| `RestartClient` | the program ends and starts (71-122, session keys are in memory only) |
| `RegisterUser`, `InsertClient`, `TakePending`, `SendPending` | `server/network.rs` 77-82; 89-90; 95-96; 97-103, one message per step |
| `ServePublicKey`, `ServeForward`, `ServeQueue` | 105-120; 136-153; 154-164 |
| `CleanUp` | 180-187, by address |

The state: `active_peer`, `message_history`, `unread_counts`, `ephemeral_aes_keys`,
`account` and `net_client` have the names of the code; `public_key` is the field of each
contact; `chat_db` the rows of each chat's SQLite file; `to_server` and `from_server` are
the channels with the transport tasks and the socket behind them; `handler`,
`current_user_address`, `held` (what the loop of the flush has yet to send), `clients` (the
index), `server_queue` and `known` (the registry) are the server. `missed` only records for
which accounts a message was queued although they were known.

The registration is cut where other handlers meet it. From `RegisterUser` on a key
request for the account is answered, from `InsertClient` on messages are forwarded
to the connection, the queue is taken after that and sent message by message, and
all the while others forward theirs into the same channel. So a `KeyInit` that is sent
between the first two goes to the queue and a text that depends on it may be
forwarded before it. `MarkOnline` and the `Ok` response are left out because no chat
depends on them, and `SendMessage` is one step here while `CultServer` has two: the
read guard keeps all writers of the index out between them (`TargetStaysOffline`), so
the lookup may be read as part of the enqueue.

A connection has two ends that let go of it at different times. `LoseLink` is the
moment from which the client neither sends nor reads over it; a client that does not
notice a break is past this moment, since what it sends is lost either way. `CleanUp`
is the moment of the handler, which may come any time later, after requests that
were under way have been served or without them, after the same account was
registered over another connection - or never, on a half-open TCP stream.

Abstracted. The modes before a login are one, `"auth"`, and so are those after it
other than `Chat`, `"peers"`. The RSA key of an account is
its address: a `KeyInit` sealed for `a` opens for whoever uses `a`, and for nobody
else. An AES key is its maker, its target and a number, which is how "nobody else
has this key" can be said; `aes_decrypt` succeeds exactly with the key of the
encryption (GCM is authenticated). A row that did not decrypt holds the code's fixed
text, `form = "failed"`. Messages do not expire and the server does not restart here, and
an account has one program (`Home`); `CultServer` has the former two and two
connections with one address without that limit. The check of a message's sender
(`network.rs` 138) is not a guard of `ServeForward` and `ServeQueue`, because it always
succeeds: that is `SenderRegistered`, and it is proved. Status requests and answers,
which change no chat, and the editing of the input line are left out.

### Runs

| run | instance | shows |
|---|---|---|
| `chat_switch` | two programs, one with two accounts, two connections and two logins, both may open chats, two key requests at once, broken connections, restarts, late clean-ups | `TypeOK`; `SenderRegistered`; `KeyStaysBetweenPair`; `ReadInRightChat` |
| `chat_agree` | one program opens the chat first, connections hold, three texts, a limit of two rows | `Readable`, `ReadInOrder`, `ScreenShowsConversation`, `UnreadIsTheRest`, `TextsArrive` |
| `chat_fallback` | both programs open the chat | VIOLATED: `FallbackAfterFailure` |

`Leader` is a hypothesis on the *users*: a program that is no leader opens a chat
only after the peer has sent it a key. `Readable`, `ReadInOrder` and `TextsArrive` need
it, together with unbroken connections. The other properties hold without it
(`chat_switch` has two leaders, the theorems any).

That is not enough. With one leader and unbroken connections a text can still fail:
the leader asks for the key of a peer whose registration stands between
`register_user` and `clients.insert`, its `KeyInit` is queued, the registration goes on,
and the leader's text is forwarded before the flush sends the `KeyInit`. The three
properties therefore say `Attended`: no message for the client was queued while its
account was known. Of what was queued *before* that no session depends, since no key
can be had of an account that is not known. Without `Attended` TLC finds each of the
three violated in `chat_agree`; with it the run shows that this window, of a few
statements in the server, is the only way in which two users of whom one begins
lose a text or see two in the wrong order. `TextsArrive` is about
accounts of two programs; a text to an account of one's own is stored where it
stood already.

Bounds. Two programs are the two ends of a session, the third account makes a chat
switch and an account switch possible, the third connection a new one beside an old
one that is not cleaned up yet. `MaxPending` limits the key requests without an answer
(it blocks only a further `OpenChat`): 2 in `chat_switch`, where the program with one
account opens two chats, and the first answer is read under the second chat.
`MaxTexts`, `MaxOpens` and `MaxLogins` bound what users do; `Roaming` are the programs
that lose connections. `HistoryLimit` stands for the 50 of `LIMIT 50`: with 2 and
three texts `chat_agree` passes the limit, beyond which the oldest rows are the
ones shown and the two properties about the screen say nothing; `chat_switch`, which
says nothing about the screen, has 0. Each program of `chat_agree` has one contact: that
another chat is open meanwhile is in `chat_switch` and in the theorems. Deadlock
checking is off: all texts typed and read is a proper end.

Fairness (`chat_agree` only). `Receive(c)` is weakly fair because the event loop polls
the channel in every round, and `Serve(k)` because tokio polls the handler (that locks
do not block a handler for ever is what `live` shows). Nothing is assumed of the
users, nor of `CleanUp`.

### Finding

2. `chat_fallback`. README.md:19 promises an RSA fallback when a payload does not
   decrypt. The code stores the text "[AES Decryption failed or Missing key]"
   (`cli.rs:198-200`) and does nothing else. TLC's trace is the registration described
   above. Two users that open the chat at the same time get there too, however their
   registrations went: each makes a key and each replaces its own by the other's
   (194).

Without a run: README.md:17 has RSA keys identify peers, but a `KeyResponse` does not
name its target (`shared.rs:29-32`) and is stored under whatever contact is active
when it is read (219), so a chat switched before the answer leaves a contact with
the key of another one. `KeyStaysBetweenPair` holds nevertheless: such a `KeyInit`
opens for nobody who reads it. After an account switch or a send without a
connection a session key stays that the peer never got (228, 739), and after a
restart the keys are gone (122): texts then become failed rows, which `chat_switch`
reaches and no property forbids.

## 5. The client beside the chat

One event loop (`run_app`) handles at most one result of each kind, draws, and handles
at most one key per round. Three modules look at it from three sides; each keeps
the part of the loop's state that its side needs and all of the control around it.

### `AccountStore`

The accounts file against everything that writes it. A `Login` is a thread of
`spawn_blocking`; with the event loop (`Loop`) it is a `Writer`. `step[w]` is what
writer `w` does next, `data[w]` the list it is about to save, `subject[w]` the account
that this is about.

| action | code |
|---|---|
| `StartLogin`, `LoadForLogin` or `FailLogin`, `Truncate`, `WriteFile` | `cli.rs` 406-415 and `auth.rs` 20-50: Enter with a name; keys are there, the file is loaded, others deactivated, the account pushed; or the file does not parse and the thread ends in silence; `fs::write` opens and truncates (`storage.rs` 68), then writes |
| `TakeKey` | `cli.rs` 153-164, the result of a login |
| `EnterActive` | 392-405 |
| `OpenList`, `CloseList` | 383-389, 542-548, 591-597; 421-428, 473, 884 |
| `DeleteAccount` | 447-469: the list *in memory* is saved |
| `SwitchAccount` | 494-527, 910-943 with `auth.rs` 52-68: the list *in the file* is changed and saved |
| `Connected`, `NotConnected` | 139-151 |
| `Crash` | the program ends at any point, by a key or a fault, and starts again (76-101) |

A file is a list of accounts, `"empty"` between truncation and
writing, or `"garbled"` after two writers: a text shorter than the one it overwrites
leaves the other's tail behind it. `Contents` allows both outcomes because the
lengths of the texts are not modelled. What a key of an account is does not matter,
and addresses of logins are distinct (2048 bits of key; two keys of one name with
the same four hex digits are outside the model). The modes are four: `ClientModes`
has them all. `CloseList` and `ParentModes` allow the return from a deletion to every
screen that an old `delete_parent_mode` can lead to, which is more than the code
does in one run.

`hasty` is a hypothesis on the *user*: something that writes the file was started
while a login or a connection attempt was pending. The program shows a spinner and
does not prevent it. `NothingLost`, `TornByCrashOrHaste`, `TitleIsEntered` and
`LoginEnds` are stated for users who wait; `OneActive` for all. Without `~hasty` each of
the four fails: a deletion saves a list from before the login; two writers leave a
text that does not parse; a login changes the list after the switch; a login finds
the file torn and ends in silence. A crash alone tears the file too, and what
happens then is in the model: logins fail (`FailLogin`), the list is empty, and
nothing in the program ever repairs the file.

### `ClientModes`

All twelve modes, every key that leads from one to another, and the server's view of
the client: `registers[c]` are the Registers under way on connection `c`, `session[c]` is
what its handler registered last (`current_user_address`), and `clients` is the index. The
server serves a Register some time after it was sent (`ServeRegister`) and cleans up
some time after the connection ended (`CleanUp`), by the address of the handler and
whoever is indexed under it (`server/network.rs` 183-186): after a quick switch to the
same account the old connection's clean-up takes the new entry away, as in
`stale_cleanup`. `displaced` records the accounts to which that happened on the connection
in use.

| action | code (`cli.rs`) |
|---|---|
| `Connected`, `NotConnected` | 139-151: any mode becomes `Auth`; the old connection is let go of, but the task that reads it (`network.rs` 36-42) keeps it open |
| `KeyGenerated` | 153-164: any mode becomes `ShowKey`, after `Register` |
| `LoginFails` | 410-414: an error of `login` is dropped, and nothing tells the event loop |
| `TobyFoxEnds` | 125-133 |
| `BreakLink` | `network.rs` 36-42: both tasks end; the event loop keeps `net_client` |
| `Type`, `Erase` | the `Char`, `Backspace`, `Up` and `Down` keys of the four modes with a line of input |
| `Connect` | 345-378 |
| `EnterActive`, `StartLogin` | 392-415 |
| `OpenDeleteAccount`, `DeleteAccount` | 474-479, 885-891; 447-469 |
| `SwitchAccount` | 494-527, 910-943: `Disconnect` is sent, a new connection is attempted, the mode stays |
| `Walk`, `WalkAfresh`, `OpenDeleteContact` | the other keys: `Leads` and `Clears` list them |
| `Restart` | `q`, Esc or a crash |
| `ServeRegister`, `CleanUp` | `server/network.rs` 77-90; 62-66 with 180-187 |

`input_buffer` is the mode in which its text was typed, `None` when empty. The accounts
file is taken to parse, and the list to be the file (their difference is
`AccountStore`); `LoginFails` may come for any login all the same. The two spinner flags,
which only draw, are left out: a failed login leaves its spinner on for ever
(`cli.rs:411`), and a first result stops the spinner of a second attempt (`:140`). `slips`
records four things that a user may do too early or without noticing: `overlapped`,
`raced`, `ahead` and `strayed` (see the module). Each property names the ones that it
excludes and no others, and TLC finds each of them violated when one is left out.

What a careful client does *not* give the server is the hypothesis `OneSession` of
section 3. Between a break or a switch and the clean-up the old entry stands beside
the new session, whatever the user does. `NoGhost` says what is true: every entry is
that of the session on screen, or its own clean-up is still to come. `SessionOnServer`
says that a session on screen has its entry, or will have it, or lost it to another
connection's handler; that loss is the finding of section 3 and the only one.

### `ClientLists`

The lists, the files behind them and the indices into them. A selection is a number,
0 for `None` and `i` for `Some(i - 1)`. Of accounts only the number matters.

| action | code (`cli.rs`) |
|---|---|
| `Draw` | 273-302 with 1030-1065 and 1155: ratatui clamps the selection of a list that it draws |
| `NoKey` | 304-308 |
| `LoginSaves`, `Connected`, `KeyShown`, `KeyResponse` | a login thread; 139-147; 153-164; 218-226 |
| `OpenAuthSwitch`, `OpenSwitch`, `MoveInSwitch`, `CloseSwitch` | 383-389, 542-548 and 591-597, 472-493 and 883-909 |
| `OpenDeleteAccount`, `MoveInDeleteAccount`, `CloseDeleteAccount`, `RemoveAccount` | 474-479 and 885-891, 429-446, 421-428, 447-469 |
| `OpenPeers`, `MoveInPeers`, `Walk`, `OpenChat` | 532-541, 603-620, 579-602 and 658-666, 621-655 |
| `AddContact` | 786-820 |
| `OpenDeleteContact`, `MoveInDeleteContact`, `CloseDeleteContact`, `ConfirmDelete`, `RemoveContact` | 583-590 and 830-875 |
| `Crash` | the end of the program, perhaps in the middle of a save of the contacts |

`round` keeps the order of a round: results, `Draw`, at most one key. That order carries
`RemovesWhatExists`: `accounts.remove(idx)` panics beyond the end, selections survive
every change of their list, and what protects the call is that the screen with the
list was drawn between the change and the key. Results may come at any time here,
which is more often than `ClientModes` allows. `Connected` also stands for a switch,
which changes no list itself. `Saved` is a save whose error is ignored (`let _ =`): it
writes, or `faults` grows and the file stays.

### Runs

| run | instance | shows |
|---|---|---|
| `accounts` | two login threads, three addresses, one attempt, one crash | `TypeOK`, `OneActive`, `NothingLost`, `TornByCrashOrHaste`, `TitleIsEntered`, `LoginEnds` |
| `modes` | two accounts, two connections, two attempts at once, any number of restarts and broken connections | `TypeOK`, `NoGhost`, `SessionOnServer`, `TypedHere` |
| `lists` | two addresses, up to two contacts (also twice the same) and two accounts, one failed save, one crash | `TypeOK`, `RemovesWhatExists`, `ContactsAreSaved`, `OnlyConfirmedLeave` |

Bounds. Two threads and the event loop are three writers of one file, one more than
any race here needs; three addresses let two logins follow a first account. Two
connections are the one in use and the one let go of; two attempts let them
overlap; after that they repeat. Two contacts are the least with a wrong one to
remove, and two accounts the least with an index beyond the end after a removal.
`MaxCrashes` and `MaxFaults` of 1 separate the states before and after a fault; the
properties about files say nothing after it. All three runs check for deadlock:
the client always has a next key. `lists` and `modes` use the symmetry of their model
values; `accounts` checks liveness and uses none.

Fairness. `accounts`: login threads run (`LoginStep`, `Save` weakly fair, they never
wait), and the event loop takes a result that is there (`TakeKey` strongly fair: it is
not enabled while the loop itself writes). Nothing is assumed of the user.

Found on the way, and what the exclusions above stand for: a deletion from a list
that was opened before a login ended removes the new account (`cli.rs:450`); after a
failed login the spinner goes on for ever (`:411`); two overlapping attempts leave a
registration on the server that no key of the client can end (`:142`); DeleteAccount,
opened from AuthSwitch after a deletion screen of Peers or Switch, returns to a session
screen without a session (`:467`); a failed save of the contacts makes the next
deletion remove another contact from the file (`:854-857`). No text of the
repository says otherwise, so none of them is listed as a finding.

## 6. Proofs

The modules of proofs are checked by TLAPS for every choice of the constants that
satisfies the named assumptions.

`CultServer_proofs`, from the assumptions of `CultServer` (`PeerIdAssumption`: the fingerprint is a
function on keys; `NoneAssumption`: `None` is not a connection, an address, an entry
or a time; `BoundAssumption`: the bounds are numbers). In particular for any number
of connections, users, messages and restarts.

- `TypeCorrect`: `Spec => []TypeOK`. `TypeOK` alone is not inductive: a section uses
  `arg[c]`, `current_user_address[c]` or `Head(held[c])` and needs them to be there.
  The invariant is `TypeInv == TypeOK /\ SectionsReady`. The loop of `get_messages`
  is a recursive function; that it is defined, and that it yields queued messages
  for a queue of any length (`LoopExists`, `LoopType`, `ValidMessagesType`), is
  proved by the induction of `SetInduction`, which rests on the
  well-foundedness of `<` (`LessNatWellFounded`).
- `NothingStranded`: `Spec => []NoStranded`, and `GuardExcludesRegistration`:
  `Spec => []TargetStaysOffline`. `NoStranded` needs the other one: an `EnqueueMessage`
  is harmless only because its target is still unindexed. The invariant is
  `IndexInv == TypeInv /\ TargetStaysOffline /\ NoStranded`; the read guard enters
  through the guard of `InsertClient`.
- `IndexIsAccurate` and `PresenceIsAccurate`: `Spec => []IndexAccurate` and
  `Spec => []PresenceAccurate`, both under `OneSession`. The invariant `SessionInv` adds
  the shape of a session (what a handler's section says of its address) and that
  each address has one claimant; each of the actions that do not touch index,
  presence, section or address is settled by `QuietSession`.
- `KeysFitAddresses`: `Spec => []KeyFitsAddress`, and `RegistryEntriesPersist`:
  `Spec => EntriesPersist`, that no step short of a restart removes an entry, revokes
  a trust or sets a last-seen time back. The invariant `RegistryInv` says of each entry
  that its key has the fingerprint of its address, because a registration computes
  the address from the key, and that its last-seen time is not after `now`, because
  only then is the time that `set_online_status` writes no earlier than the one it
  replaces.

`CultServerMessages_proofs`, under the same assumptions. A message is at a *place*: a
position in a queue, in what a handler holds, in a channel, or in what a peer has
received (`At(k, o, i, id)`).

- `NoDuplicates`: `Spec => []AtMostOneCopy`. The property counts copies; the invariant
  `CopyInv` says that any two places of one message are the same place (`Unique`), that
  a message not yet sent is nowhere (`Fresh`), and that a handler holds messages only
  in the two sections that enqueue or flush (`HeldWhere`). For each action that moves a
  message a lemma (`...Moves`) maps every place after the step to one place before it, and
  different places to different ones. For `TakePending` that map comes from
  what the loop of `get_messages` keeps (`LoopKeeps`: each kept message has its own
  earlier position, by `SetInduction`). `QuietAction` collects the actions that move none.
- `RoutesToOwner`: `Spec => []RoutedToOwner`, which is about clients with `OneSession`. The
  invariant `RouteInv` adds to `SessionInv` that a queue holds only messages to its
  address, that an indexed connection has that address as its current one
  (`IndexedIsCurrent`), and that what a channel or a flush carries is addressed to its
  connection. The second is what makes `ForwardMessage`, which knows only an index entry,
  push into a channel of the target; it fails for a connection that registers twice.
- `OrderIsKept`: `Spec => OvertakenOnlyWaiting`. What the server promises about order is
  less than one expects: a registration enters the index before it flushes (89-103), so
  whatever is forwarded in between passes the older messages in the queue. The theorem says
  that this is all: no message passes one that is in a channel, in what a peer has
  received or behind it in the same queue or flush. The same `CopyInv` carries the proof,
  since "ahead" compares *the* place of one message with that of another. `MayLead` is what
  the property asks of the state before a step; if nothing moves it holds because
  whoever is ahead is not behind (`LeadsAlready`), and for each action that moves messages a
  lemma (`...Order`) finds the old places of the two (`...Places`). A flush keeps the
  order of the queue because what the loop of `get_messages` keeps comes after all that it had
  kept (`LoopGrows`, by `SetInduction`).

`CultServerCustody_proofs`: `ImplementsCustody`, `Spec => KeepsCustody`, for every value of
the constants. The mapping chooses the one place of a message, so it needs
`CopyInv`: `Where(id, s, d)` says for each place what custody and deadline it stands
for, and `MappingDetermined` that `CustodyOf` and `DeadlineOf` are what `Where` says. One
lemma (`...Custody`) per action of the server says which messages change custody, and
one (`As...`) per action of `MessageCustody` that such a change is that action. Handler
sections that move no message, and moves that the abstract specification does not
see (a flush from `held` to `rx`, both in flight), are stutters.

`ChatSession_proofs`, from `ChatAssumption` (homes, owners and contacts are functions,
every program has an account, the bounds are numbers, `None` is no value): for any number
of programs, connections, accounts, contacts, chats and texts, with any leaders,
restarts, lost connections and late clean-ups.

- `ChatTypeCorrect`: `Spec => []TypeOK`. The invariant `TypeInv` says besides why no step
  uses what is not there (`ClientReady`, `HandlerReady`): an open chat has a peer, a program
  without a connection has nothing to read, a connection in use is served by its
  handler, a program that never opened a chat has neither asked for a key nor an
  answer to read, and a handler at `"insert"` or `"flush"` has the address that it needs.
- `KeysStayBetweenPairs`: `Spec => []KeyStaysBetweenPair`. A key enters a program by
  `FreshKey` or by a `KeyInit`; the invariant `KeyInv` therefore follows the `KeyInit`
  through both wires, the queue and the flush: wherever it is, it carries a key of its
  sender for its target (`Honest`). Who it is delivered to does not matter: it opens
  for its target's program only.
- `ScreenIsConversation` and `UnreadIsExact`: `Spec => []ScreenShowsConversation` and
  `Spec => []UnreadIsTheRest`. Neither is inductive without the other; `ScreenFits` says
  of the chat opened last that the screen is a prefix of the database, that the
  counter is the length of the rest, and that the rest is empty while the chat is
  open. `ShownRow` and `UnreadRow` are the two ways a row is added.
- `ChatsReadRight`: `Spec => []ReadInRightChat`, whatever is in the contacts (`AddContact`,
  `cli.rs:789-811`, takes any address). A chat with an account of one's own stores each
  text twice under the same sender, once as written and once as received; that is why
  the property says "read once" of texts of other programs. The invariant `ReadInv` adds to
  `KeyInv` that each row was written by the program or by the peer (`RowsRight`), and that
  a text is in one place only, on a wire, in a queue, in a flush or in a row that could
  be read (`Unique`), below the counter of texts (`Numbered`): this is why nothing is read
  twice. The `...Moves` lemmas say where the texts of a wire are after it was extended or
  its head was taken.
- `SendersAreRegistered`: `Spec => []SenderRegistered`, that the server's check of a sender
  never rejects a message of these clients. The messages on a wire name the account of
  the last Register before them, or that of the handler if there is none (`Speaks`), and a
  program that has not registered over its connection sends nothing (`ClientSpeaks`):
  `Connect` puts the user into `Auth`, and no answer that a `KeyInit` would follow can come
  over a connection that has asked for nothing.

`Readable` and `ReadInOrder`, which are about one leader and unbroken connections, are
checked by TLC on `chat_agree` only.

`ClientModes_proofs`, from `ModesAssumption` (`None` is no account, connection or mode;
the bound on attempts is a number): for any number of accounts, connections and
attempts.

- `ModesTypeCorrect`: `Spec => []TypeOK`, which is inductive here.
- `NoGhostSession`: `Spec => []NoGhost`. Two facts about a careful user carry it (`GhostInv`):
  at most the connection in use is open, and none is while an attempt is pending
  (`OneLink`); and every connection is about one account at most, by Registers under
  way, its handler or an entry, the one in use about the account on screen, so that an
  entry of a connection that ended is the one its handler will remove (`OneClaim`). A
  late clean-up may take the entry of another connection too, which leaves no entry
  behind either.
- `ScreenHasSession`: `Spec => []SessionOnServer`, without any care of the user but `strayed`.
  The invariant `SessionInv` extends the property to a `DeleteAccount` that will return
  to a session (`InSession`). Each Register that the server reaches and each clean-up
  either keeps the entry of the account on screen or adds the account to `displaced`.
- `TextStaysHere`: `Spec => []TypedHere`. `LineKept` adds the screens that lead back to `Auth`
  with its line (`NearAuth`), and that the line is empty while an attempt is pending,
  because its result changes the mode under the hands of the user.

`AccountStore_proofs`, from `AccountAssumption` (the event loop is no login thread, `None`
is no address, the bounds are numbers): for any number of addresses, login
threads, attempts and crashes.

- `StoreTypeCorrect` and `OneAccountActive`: `Spec => []TypeOK` and `Spec => []OneActive`. The
  invariant `ListInv` looks at every list there is, in the file, in memory, or about
  to be saved: one active account, no address twice, and the address of a login
  that has still to load the file in none of them. No address twice is what makes
  `switch_account`, which compares addresses, activate one account. `ListWithLogin`,
  `ListSwitched` and `ListWithout` say what the three operations make of a list.
- `NothingIsLost`, `TornFileExplained`, `TitleIsTrue`: `Spec => []NothingLost`,
  `Spec => []TornByCrashOrHaste`, `Spec => []TitleIsEntered`. `CalmInv` says how a user who
  waits keeps the file in order: one writer at a time (`OneWrites`); a file that no
  one completes is a crash's, and then nothing of it is in memory (`TornInv`); what
  is about to be saved is what the history will be after it (`LedgerInv`); list and
  title agree with the file or, while the loop is saving, with what it saves
  (`MemoryInv`); a switch that waits for its connection was the last operation
  (`AttemptInv`), from which the title is right when the connection is there.

`ClientLists_proofs`, from `ListAssumption` (`None` is no peer, the bounds are numbers): for
any number of contacts, accounts, failed saves and crashes.

- `ListsTypeCorrect`: `Spec => []TypeOK`.
- `RemovalFindsAccount`: `Spec => []RemovesWhatExists`. It is inductive by the order of a round:
  only a login thread moves between `Draw` and the key, and it does not touch the
  list in memory.
- `ContactsStaySaved`: `Spec => []ContactsAreSaved`, and `OnlyConfirmedIsRemoved`:
  `Spec => OnlyConfirmedLeave`. The second needs the first, because the index comes from
  the list in memory and is used on the file, and `ConfirmedInv`: after the first
  Enter the selected contact is the confirmed one whatever is drawn, moved or
  answered until the second.

Checked by TLC only: the safety properties `Readable` and `ReadInOrder`; the four liveness
properties `QueueReachesOwner`, `HandlersFinish`, `TextsArrive` and `LoginEnds`, since
liveness under fairness is outside TLAPS's reach; and the two violated properties of
`stale_cleanup` and `chat_fallback`, of which TLC shows counterexamples.

## 7. Not modelled

Left out of modelled components: the list of recent servers (`cli.rs:325-360`,
`servers.json`), which only fills in an address; status requests and answers of
the client (`cli.rs:166-175`, `:254-259`), which only colour the side bar; scrolling;
the permissions of `accounts.json`; errors of the disk other than a failed save of
the contacts. Left out for good: rendering (`ui`: layout of the terminal, except
that drawing puts a selection back into its list), `client/messages.rs` (dead code
that repeats `cli.rs`), module declarations, build and deployment files, and the
inside of RSA, AES and SHA-256 (used through what they promise).

Three sentences of the repository's README describe no code that could be
modelled: a connection loop of three attempts (README.md:22; `cli.rs:369-376` tries
once), a ping of all peers every 20 seconds (README.md:23; five seconds,
`cli.rs:106`, and only after a login, `cli.rs:166`), and credentials in SQLite
(README.md:24; a JSON file, `storage.rs:65-68`).
