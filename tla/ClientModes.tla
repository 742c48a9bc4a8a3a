---------------------------- MODULE ClientModes -----------------------------
(***************************************************************************)
(* The modes of a CULT.NET client (AppMode and run_app in                  *)
(* src/client/cli.rs) and what the server knows of it meanwhile.           *)
(*                                                                         *)
(* The event loop handles a result or a key press at a time, each an       *)
(* action.  Connection attempts and logins run beside it; their results    *)
(* come whatever the mode is by then and set it, so that a screen appears  *)
(* that the last key press did not ask for.  A connection that the client  *)
(* lets go of without Disconnect stays open, and the server keeps the      *)
(* session on it: the task that reads from it never ends (network.rs).     *)
(*                                                                         *)
(* The server serves a Register some time after it was sent, and cleans up *)
(* some time after a connection ended, by the address and not by the       *)
(* connection (src/server/network.rs).                                     *)
(***************************************************************************)
EXTENDS Naturals, Sequences, FiniteSets

CONSTANTS
  Account,      \* full addresses
  Conn,         \* connections to the server
  MaxAttempts,  \* bound on the connection attempts without a result
  None          \* Rust's None

Mode == {"EnterServerIp", "Auth", "AuthSwitch", "DeleteAccount", "Main", "Peers", "Chat",
         "Switch", "AddContact", "DeleteContact", "ShowKey", "TobyFox"}

\* The modes with a line of input.
TextMode == {"EnterServerIp", "Auth", "Chat", "AddContact"}

\* What the user did too early, or without noticing.
Slip == {"overlapped",  \* a connection attempt was started while another was pending
         "raced",       \* a login, or Enter in Auth, while a login was pending
         "ahead",       \* text was typed while a connection attempt was pending
         "strayed"}     \* AuthSwitch opened DeleteAccount with an old delete_parent_mode

ASSUME ModesAssumption ==
  /\ None \notin Account \cup Conn \cup Mode
  /\ MaxAttempts \in Nat

VARIABLES
  mode,               \* the AppMode
  delete_parent_mode, \* where DeleteAccount returns to, or None
  input_buffer,       \* the mode in which the text in it was typed, or None
  accounts,           \* the accounts in the file and, here, in the list
  active_acc,         \* the account that Enter in Auth logs in, or None
  account,            \* the account of the session on screen, or None
  attempts,           \* connection attempts without a result
  logins,             \* the accounts of logins without a result
  net_client,         \* the connection in use, or None
  open,               \* the connections that neither end has closed and nothing broke
  registers,          \* [Conn -> the accounts of the Registers not served yet]
  session,            \* [Conn -> its current_user_address at the server, or None]
  clients,            \* [Account -> the connection that the server indexed, or None]
  displaced,          \* history: the accounts whose entry for the connection in use
                      \* the handler of another one removed or replaced
  slips               \* history: see Slip

screen  == <<mode, delete_parent_mode, input_buffer>>
users   == <<accounts, active_acc, account>>
pending == <<attempts, logins>>
served  == <<session, clients, displaced>>
net     == <<net_client, open, registers, served>>
vars    == <<screen, users, pending, net, slips>>

-----------------------------------------------------------------------------
(* Helpers *)

\* Register over the connection in use; a broken one loses the message.
Register(a) ==
  registers' = IF net_client \in open
               THEN [registers EXCEPT ![net_client] = Append(@, a)] ELSE registers

\* Nothing at the server is left, or will be, of connection c.
Idle(c) ==
  /\ registers[c] = <<>> /\ session[c] = None
  /\ \A a \in Account : clients[a] # c

Unused(c) == c # net_client /\ c \notin open /\ Idle(c)

\* Address a never reached the server: that of a login's new key.
Fresh(a) ==
  /\ clients[a] = None
  /\ \A c \in Conn : session[c] # a /\ \A i \in DOMAIN registers[c] : registers[c][i] # a

Note(slip, happened) == slips' = IF happened THEN slips \cup {slip} ELSE slips

Press(m) == mode = m

\* Mutant of Parent: the mode that was never set.
ParentUnset == delete_parent_mode

\* delete_parent_mode.unwrap_or(AppMode::AuthSwitch)
Parent == IF delete_parent_mode = None THEN "AuthSwitch" ELSE delete_parent_mode

Init ==
  /\ mode = "EnterServerIp"
  /\ delete_parent_mode = None
  /\ input_buffer = None
  /\ accounts \in SUBSET Account
  /\ active_acc \in accounts \cup {None}
  /\ account = None
  /\ attempts = 0
  /\ logins = {}
  /\ net_client = None
  /\ open = {}
  /\ registers = [c \in Conn |-> <<>>]
  /\ session = [c \in Conn |-> None]
  /\ clients = [a \in Account |-> None]
  /\ displaced = {}
  /\ slips = {}

-----------------------------------------------------------------------------
(* Results *)

\* A connection replaces the one in use, which is not closed.
Connected(c) ==
  /\ attempts > 0
  /\ Unused(c)
  /\ attempts' = attempts - 1
  /\ net_client' = c
  /\ open' = open \cup {c}
  /\ mode' = "Auth"
  /\ displaced' = {}
  /\ UNCHANGED <<delete_parent_mode, input_buffer, users, logins, registers, session,
                 clients, slips>>

\* Three seconds have passed, or the server is not there.
NotConnected ==
  /\ attempts > 0
  /\ attempts' = attempts - 1
  /\ UNCHANGED <<screen, users, logins, net, slips>>

\* Mutant of KeyGenerated: nobody tells the server.
KeyUnregistered(a) ==
  /\ a \in logins
  /\ logins' = logins \ {a}
  /\ accounts' = accounts \cup {a}
  /\ account' = a
  /\ input_buffer' = None
  /\ mode' = "ShowKey"
  /\ UNCHANGED <<delete_parent_mode, active_acc, attempts, net, slips>>

\* A login is through: its account is registered and its key is shown.
KeyGenerated(a) ==
  /\ a \in logins
  /\ logins' = logins \ {a}
  /\ accounts' = accounts \cup {a}
  /\ Register(a)
  /\ account' = a
  /\ input_buffer' = None
  /\ mode' = "ShowKey"
  /\ UNCHANGED <<delete_parent_mode, active_acc, attempts, net_client, open,
                 served, slips>>

\* A login fails (the accounts file, the disk): nothing tells the event loop.
LoginFails(a) ==
  /\ a \in logins
  /\ logins' = logins \ {a}
  /\ UNCHANGED <<screen, users, attempts, net, slips>>

\* Five seconds of the easter egg have passed.
TobyFoxEnds ==
  /\ mode = "TobyFox"
  /\ mode' = "Peers"
  /\ UNCHANGED <<delete_parent_mode, input_buffer, users, pending, net, slips>>

\* A connection breaks; the event loop is not told.
BreakLink(c) ==
  /\ c \in open
  /\ open' = open \ {c}
  /\ UNCHANGED <<screen, users, pending, net_client, registers, served, slips>>

-----------------------------------------------------------------------------
(* Before a session *)

\* A character in a mode with a line of input.
Type ==
  /\ mode \in TextMode
  /\ input_buffer' = mode
  /\ Note("ahead", attempts > 0)
  /\ UNCHANGED <<mode, delete_parent_mode, users, pending, net>>

\* Backspace takes the last character; Up and Down in EnterServerIp take all.
Erase ==
  /\ mode \in TextMode
  /\ input_buffer' = None
  /\ UNCHANGED <<mode, delete_parent_mode, users, pending, net, slips>>

\* Enter in EnterServerIp, with what was typed or the recent address selected.
Connect ==
  /\ Press("EnterServerIp")
  /\ attempts < MaxAttempts
  /\ attempts' = attempts + 1
  /\ input_buffer' = None
  /\ Note("overlapped", attempts > 0)
  /\ UNCHANGED <<mode, delete_parent_mode, users, logins, net>>

\* Enter in Auth on an empty line; a line of blanks counts as one.
EnterActive ==
  /\ Press("Auth")
  /\ active_acc # None
  /\ Register(active_acc)
  /\ account' = active_acc
  /\ input_buffer' = None
  /\ mode' = "Main"
  /\ Note("raced", logins # {})
  /\ UNCHANGED <<delete_parent_mode, accounts, active_acc, pending, net_client, open, served>>

\* Enter in Auth with a name, or without an active account: a login starts.
StartLogin(a) ==
  /\ Press("Auth")
  /\ input_buffer # None \/ active_acc = None
  /\ a \notin accounts \cup logins \cup {account, active_acc}
  /\ Fresh(a)
  /\ logins' = logins \cup {a}
  /\ Note("raced", logins # {})
  /\ UNCHANGED <<screen, users, attempts, net>>

-----------------------------------------------------------------------------
(* Accounts *)

\* 'd' in the lists; only Switch leaves its name behind.
OpenDeleteAccount ==
  /\ accounts # {}
  /\ \/ Press("AuthSwitch") /\ UNCHANGED delete_parent_mode
     \/ Press("Switch") /\ delete_parent_mode' = "Switch"
  /\ mode' = "DeleteAccount"
  /\ Note("strayed", mode = "AuthSwitch" /\ delete_parent_mode # None)
  /\ UNCHANGED <<input_buffer, users, pending, net>>

\* Enter in DeleteAccount.  The session of the account, if there is one, goes on.
DeleteAccount(a) ==
  /\ Press("DeleteAccount")
  /\ a \in accounts
  /\ accounts' = accounts \ {a}
  /\ active_acc' = IF active_acc = a THEN None ELSE active_acc
  /\ mode' = Parent
  /\ UNCHANGED <<delete_parent_mode, input_buffer, account, pending, net, slips>>

\* Mutant of SwitchAccount: the connection is dropped without a Disconnect.
SwitchSilently(a) ==
  /\ Press("AuthSwitch") \/ Press("Switch")
  /\ a \in accounts
  /\ attempts < MaxAttempts
  /\ net_client' = None
  /\ active_acc' = a
  /\ input_buffer' = None
  /\ attempts' = attempts + 1
  /\ Note("overlapped", attempts > 0)
  /\ UNCHANGED <<mode, delete_parent_mode, accounts, account, logins, open, registers, served>>

\* Mutant of SwitchAccount: the line of input stays.
SwitchWithText(a) ==
  /\ Press("AuthSwitch") \/ Press("Switch")
  /\ a \in accounts
  /\ attempts < MaxAttempts
  /\ open' = open \ {net_client}
  /\ net_client' = None
  /\ active_acc' = a
  /\ attempts' = attempts + 1
  /\ Note("overlapped", attempts > 0)
  /\ UNCHANGED <<screen, accounts, account, logins,
                 registers, served>>

\* Enter in AuthSwitch or Switch: Disconnect, and a new connection is attempted.
SwitchAccount(a) ==
  /\ Press("AuthSwitch") \/ Press("Switch")
  /\ a \in accounts
  /\ attempts < MaxAttempts
  /\ open' = open \ {net_client}
  /\ net_client' = None
  /\ active_acc' = a
  /\ input_buffer' = None
  /\ attempts' = attempts + 1
  /\ Note("overlapped", attempts > 0)
  /\ UNCHANGED <<mode, delete_parent_mode, accounts, account, logins, registers, served>>

-----------------------------------------------------------------------------
(* From screen to screen *)

\* Keys that only change the screen, from one mode to another.
Leads(from, to) ==
  \/ from = "Auth" /\ to = "AuthSwitch" /\ accounts # {}
  \/ from = "AuthSwitch" /\ to = "Auth"
  \/ from = "DeleteAccount" /\ to = Parent
  \/ from = "Main" /\ to \in {"Peers", "Switch"}
  \/ from = "Peers" /\ to \in {"Main", "Switch", "TobyFox"}
  \/ from = "Chat" /\ to = "Peers"
  \/ from = "DeleteContact" /\ to = "Peers"
  \/ from = "ShowKey" /\ to = "Main"
  \/ from = "Switch" /\ to = "Main"

Walk(m) ==
  /\ Leads(mode, m)
  /\ mode' = m
  /\ UNCHANGED <<delete_parent_mode, input_buffer, users, pending, net, slips>>

\* Those that empty the line of input: Enter and 'a' in Peers, Enter in Chat, Esc
\* and Enter in AddContact.
Clears(from, to) ==
  \/ from = "Peers" /\ to \in {"Chat", "AddContact"}
  \/ from = "Chat" /\ to = "Chat"
  \/ from = "AddContact" /\ to = "Peers"

WalkAfresh(m) ==
  /\ Clears(mode, m)
  /\ mode' = m
  /\ input_buffer' = None
  /\ UNCHANGED <<delete_parent_mode, users, pending, net, slips>>

\* 'd' in Peers.
OpenDeleteContact ==
  /\ Press("Peers")
  /\ delete_parent_mode' = "Peers"
  /\ mode' = "DeleteContact"
  /\ UNCHANGED <<input_buffer, users, pending, net, slips>>

\* The program ends, by a key or a crash, and is started again.
Restart ==
  /\ mode' = "EnterServerIp" /\ delete_parent_mode' = None /\ input_buffer' = None
  /\ active_acc' \in accounts \cup {None}
  /\ account' = None
  /\ attempts' = 0
  /\ logins' = {}
  /\ net_client' = None
  /\ open' = {}
  /\ slips' = IF \A c \in Conn : Idle(c) THEN {} ELSE slips
  /\ UNCHANGED <<accounts, registers, served>>

-----------------------------------------------------------------------------
(* The server *)

\* The entry of account a for the connection in use goes to connection c, or to None.
Displaced(a, c) ==
  IF c = net_client THEN displaced \ {a}
  ELSE IF clients[a] = net_client THEN displaced \cup {a} ELSE displaced

\* The handler of connection c reaches the next Register.
ServeRegister(c) ==
  LET a == Head(registers[c]) IN
  /\ registers[c] # <<>>
  /\ registers' = [registers EXCEPT ![c] = Tail(@)]
  /\ session' = [session EXCEPT ![c] = a]
  /\ clients' = [clients EXCEPT ![a] = c]
  /\ displaced' = Displaced(a, c)
  /\ UNCHANGED <<screen, users, pending, net_client, open, slips>>

\* The handler of a connection that ended notices it, with or without the
\* Registers under way, and removes its address, whosever entry that is.
CleanUp(c) ==
  /\ c \notin open
  /\ ~Idle(c)
  /\ registers' = [registers EXCEPT ![c] = <<>>]
  /\ session' = [session EXCEPT ![c] = None]
  /\ IF session[c] = None THEN UNCHANGED <<clients, displaced>>
     ELSE /\ clients' = [clients EXCEPT ![session[c]] = None]
          /\ displaced' = Displaced(session[c], None)
  /\ UNCHANGED <<screen, users, pending, net_client, open, slips>>

-----------------------------------------------------------------------------
Results ==
  \/ NotConnected \/ \E c \in Conn : Connected(c)
  \/ \E a \in Account : KeyGenerated(a) \/ LoginFails(a)
  \/ TobyFoxEnds

Keys ==
  \/ Type \/ Erase \/ Connect \/ EnterActive
  \/ OpenDeleteAccount \/ OpenDeleteContact
  \/ \E a \in Account : StartLogin(a) \/ DeleteAccount(a) \/ SwitchAccount(a)
  \/ \E m \in Mode : Walk(m) \/ WalkAfresh(m)

Next ==
  \/ Results \/ Keys \/ Restart
  \/ \E c \in Conn : BreakLink(c) \/ ServeRegister(c) \/ CleanUp(c)

Spec == Init /\ [][Next]_vars

-----------------------------------------------------------------------------
(* Properties *)

TypeOK ==
  /\ mode \in Mode
  /\ delete_parent_mode \in {"Switch", "Peers", None}
  /\ input_buffer \in TextMode \cup {None}
  /\ accounts \subseteq Account /\ logins \subseteq Account
  /\ active_acc \in Account \cup {None} /\ account \in Account \cup {None}
  /\ attempts \in Nat
  /\ net_client \in Conn \cup {None}
  /\ open \subseteq Conn
  /\ registers \in [Conn -> Seq(Account)]
  /\ session \in [Conn -> Account \cup {None}]
  /\ clients \in [Account -> Conn \cup {None}]
  /\ displaced \subseteq Account
  /\ slips \subseteq Slip

\* A client leaves no ghost at the server: every entry is that of the account on
\* screen over the connection in use, or that of a connection which ended and whose
\* clean-up, still to come, takes it away -- unless two connection attempts
\* overlapped or two logins raced (cli.rs:141-146, :152-163, :486-502).
NoGhost ==
  {"overlapped", "raced"} \cap slips = {} =>
    \A a \in Account : clients[a] # None =>
      \/ clients[a] = net_client /\ a = account
      \/ clients[a] \notin open /\ session[clients[a]] = a

SessionMode == {"Main", "Peers", "Chat", "Switch", "AddContact", "DeleteContact", "ShowKey",
                "TobyFox"}

\* Behind every screen of a session on a working connection the server has the
\* entry of its account, or the Register is on its way, or the handler of another
\* connection took the entry -- unless the user strayed there from AuthSwitch
\* (cli.rs:154-163, :394-405, :417-424, src/server/network.rs:89, :186).
SessionOnServer ==
  mode \in SessionMode /\ net_client \in open /\ "strayed" \notin slips =>
    \/ clients[account] = net_client
    \/ \E i \in DOMAIN registers[net_client] : registers[net_client][i] = account
    \/ account \in displaced

\* A line of input holds what was typed into it and nothing that was typed
\* elsewhere, unless somebody typed while a connection was attempted: a text for
\* a chat never becomes a user name (cli.rs:149, :365, :499, :637).
TypedHere ==
  mode \in TextMode /\ "ahead" \notin slips => input_buffer \in {mode, None}
=============================================================================
