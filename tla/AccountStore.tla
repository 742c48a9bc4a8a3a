---------------------------- MODULE AccountStore ----------------------------
(***************************************************************************)
(* The accounts of a CULT.NET client (src/client/auth.rs and storage.rs):  *)
(* the file accounts.json, the list that the event loop keeps of it        *)
(* (cli.rs), and the logins that spawn_blocking runs beside the loop.      *)
(*                                                                         *)
(* Nothing locks the file.  login, switch_account and the deletion in the  *)
(* event loop each load it or use a list loaded before, change their copy, *)
(* and save all of it: fs::write first truncates the file and then writes. *)
(* Every one of these steps is an action, so that the steps of two         *)
(* operations interleave and a crash can fall between any two.             *)
(***************************************************************************)
EXTENDS Naturals, Sequences, SequencesExt

CONSTANTS
  Address,      \* the full addresses of accounts; a login makes an unused one
  Login,        \* the blocking threads that may run a login
  Loop,         \* the event loop, the other one that writes the file
  MaxAttempts,  \* bound on the connection attempts without a result
  MaxCrashes,   \* bound on the crashes of the program
  None          \* Rust's None

Writer == Login \cup {Loop}

StoredAccount == [address : Address, is_active : BOOLEAN]

\* What accounts.json holds.  An "empty" or "garbled" text does not parse.
AccountsFile == [text : {"json"}, accounts : Seq(StoredAccount)]
                  \cup [text : {"empty", "garbled"}, accounts : {<<>>}]

ASSUME AccountAssumption ==
  /\ Loop \notin Login
  /\ None \notin Address
  /\ MaxAttempts \in Nat /\ MaxCrashes \in Nat

VARIABLES
  file,               \* accounts.json
  step,               \* [Writer -> "rest", or the step that comes next]
  data,               \* [Writer -> the accounts that it is about to save]
  subject,            \* [Writer -> the address it adds (a login), removes or selects]
  accounts,           \* the list in the memory of the event loop
  active_acc,         \* the address that Enter on the Auth screen logs in, or None
  mode,               \* "auth"; "auth_list" for AuthSwitch and its DeleteAccount;
                      \* "session" for the modes after a login; "session_list" for
                      \* Switch and its DeleteAccount
  online,             \* net_client is Some
  is_generating_keys, \* the spinner of a login
  key_rx,             \* accounts from logins that the event loop has yet to take
  attempts,           \* connection attempts without a result
  used,               \* the addresses of all logins so far
  ledger,             \* history: addresses that were saved and not deleted since
  hasty,              \* history: something was started before the last thing ended
  crashes             \* how often the program crashed

memory  == <<accounts, active_acc, mode, online, is_generating_keys, attempts>>
writing == <<step, data, subject>>
history == <<used, ledger, hasty, crashes>>
vars    == <<file, writing, memory, key_rx, history>>

-----------------------------------------------------------------------------
(* Helpers *)

JsonFile(s) == [text |-> "json", accounts |-> s]
Unreadable(t) == [text |-> t, accounts |-> <<>>]

\* load_accounts(); where it fails, the callers' unwrap_or_default is this <<>>.
Readable == file.text = "json"
Loaded == file.accounts

Addresses(s) == {s[i].address : i \in DOMAIN s}

\* Mutant of Deactivated: the other accounts stay active.
LeftActive(s) == s

Deactivated(s) == [i \in DOMAIN s |-> [s[i] EXCEPT !.is_active = FALSE]]

\* The loop of switch_account.
Activated(s, a) == [i \in DOMAIN s |-> [s[i] EXCEPT !.is_active = (s[i].address = a)]]

\* Mutant of ActiveOf: the account itself.
ActiveRecord(s) ==
  IF \E i \in DOMAIN s : s[i].is_active
    THEN s[CHOOSE i \in DOMAIN s : s[i].is_active]
    ELSE None

\* The address of find(|a| a.is_active), or None.
ActiveOf(s) ==
  IF \E i \in DOMAIN s : s[i].is_active
    THEN s[CHOOSE i \in DOMAIN s :
             s[i].is_active /\ \A j \in 1..(i - 1) : ~s[j].is_active].address
    ELSE None

Resting(w) == step[w] = "rest"

\* A login that has not ended, or whose account the event loop has yet to take.
LoginPending == key_rx # <<>> \/ \E t \in Login : ~Resting(t)

\* The user starts to change the file while a login or a connection attempt is
\* pending; the program lets him.
NoteHaste == hasty' = (hasty \/ LoginPending \/ attempts > 0)

Saves(w, s, a) ==
  /\ step' = [step EXCEPT ![w] = "truncate"]
  /\ data' = [data EXCEPT ![w] = s]
  /\ subject' = [subject EXCEPT ![w] = a]

Ends(w) ==
  /\ step' = [step EXCEPT ![w] = "rest"]
  /\ data' = [data EXCEPT ![w] = <<>>]
  /\ subject' = [subject EXCEPT ![w] = None]

\* The program starts: the list and the active account come from the file; then
\* the user connects.
Starts ==
  /\ accounts' = Loaded
  /\ active_acc' = ActiveOf(Loaded)
  /\ mode' = "auth"
  /\ online' = TRUE
  /\ is_generating_keys' = FALSE
  /\ attempts' = 0
  /\ key_rx' = <<>>
  /\ step' = [w \in Writer |-> "rest"]
  /\ data' = [w \in Writer |-> <<>>]
  /\ subject' = [w \in Writer |-> None]

Init ==
  /\ file = JsonFile(<<>>)
  /\ step = [w \in Writer |-> "rest"]
  /\ data = [w \in Writer |-> <<>>]
  /\ subject = [w \in Writer |-> None]
  /\ accounts = <<>>
  /\ active_acc = None
  /\ mode = "auth"
  /\ online = TRUE
  /\ is_generating_keys = FALSE
  /\ key_rx = <<>>
  /\ attempts = 0
  /\ used = {}
  /\ ledger = {}
  /\ hasty = FALSE
  /\ crashes = 0

-----------------------------------------------------------------------------
(* A login *)

\* The address of a new key pair: no login before made it (which one it is does
\* not matter).
FreshAddress == CHOOSE a \in Address : a \notin used

\* Enter on the Auth screen with a name, or without an active account.
StartLogin(t) ==
  /\ mode = "auth" /\ Resting(Loop) /\ Resting(t)
  /\ used # Address
  /\ step' = [step EXCEPT ![t] = "generate"]
  /\ subject' = [subject EXCEPT ![t] = FreshAddress]
  /\ is_generating_keys' = TRUE
  /\ used' = used \cup {FreshAddress}
  /\ NoteHaste
  /\ UNCHANGED <<file, data, accounts, active_acc, mode, online, key_rx, attempts, ledger, crashes>>

\* Mutant of LoadForLogin: login takes a file that does not parse for an empty one.
LoadOrDefault(t) ==
  /\ step[t] = "generate"
  /\ Saves(t, Append(Deactivated(Loaded), [address |-> subject[t], is_active |-> TRUE]),
           subject[t])
  /\ UNCHANGED <<file, memory, key_rx, history>>

\* The keys are there; login loads the file and puts the new account at its end.
LoadForLogin(t) ==
  /\ step[t] = "generate"
  /\ Readable
  /\ Saves(t, Append(Deactivated(Loaded), [address |-> subject[t], is_active |-> TRUE]),
           subject[t])
  /\ UNCHANGED <<file, memory, key_rx, history>>

\* load_accounts fails, login returns the error and its thread ends in silence.
FailLogin(t) ==
  /\ step[t] = "generate"
  /\ ~Readable
  /\ Ends(t)
  /\ UNCHANGED <<file, memory, key_rx, history>>

\* Mutant of TakeKey: the spinner goes on.
TakeKeySpinning ==
  /\ key_rx # <<>> /\ Resting(Loop)
  /\ key_rx' = Tail(key_rx)
  /\ mode' = "session"
  /\ UNCHANGED <<file, writing, accounts, active_acc, online, is_generating_keys, attempts,
                 history>>

\* The event loop takes the account of a login and shows its key.
TakeKey ==
  /\ key_rx # <<>> /\ Resting(Loop)
  /\ key_rx' = Tail(key_rx)
  /\ is_generating_keys' = FALSE
  /\ mode' = "session"
  /\ UNCHANGED <<file, writing, accounts, active_acc, online, attempts, history>>

-----------------------------------------------------------------------------
(* fs::write *)

\* Mutant of Truncate: the file is opened for writing as it is.
OpenUntruncated(w) ==
  /\ step[w] = "truncate"
  /\ step' = [step EXCEPT ![w] = "write"]
  /\ UNCHANGED <<file, data, subject, memory, key_rx, history>>

Truncate(w) ==
  /\ step[w] = "truncate"
  /\ file' = Unreadable("empty")
  /\ step' = [step EXCEPT ![w] = "write"]
  /\ UNCHANGED <<data, subject, memory, key_rx, history>>

\* Over the text of another writer that truncated earlier or later, the new text
\* stands alone only if it is not the shorter one.
Contents(w) ==
  {JsonFile(data[w])} \cup (IF file.text = "empty" THEN {} ELSE {Unreadable("garbled")})

\* Only now an operation counts; a login sends its account to the event loop.
WriteFile(w) ==
  /\ step[w] = "write"
  /\ file' \in Contents(w)
  /\ Ends(w)
  /\ IF w \in Login
       THEN /\ key_rx' = Append(key_rx, subject[w])
            /\ ledger' = ledger \cup {subject[w]}
       ELSE /\ ledger' = ledger \ ({subject[w]} \ Addresses(data[w]))
            /\ UNCHANGED key_rx
  /\ UNCHANGED <<memory, used, hasty, crashes>>

-----------------------------------------------------------------------------
(* The event loop *)

\* Enter on the Auth screen without a name: the active account logs in.
EnterActive ==
  /\ mode = "auth" /\ Resting(Loop)
  /\ active_acc # None
  /\ mode' = "session"
  /\ UNCHANGED <<file, writing, accounts, active_acc, online, is_generating_keys, attempts,
                 key_rx, history>>

\* Right on the Auth screen, 's' in a session: a list of what is in the file.
OpenList ==
  /\ mode \in {"auth", "session"} /\ Resting(Loop)
  /\ accounts' = Loaded
  /\ mode' = IF mode = "session" THEN "session_list"
             ELSE IF Loaded = <<>> THEN "auth" ELSE "auth_list"
  /\ UNCHANGED <<file, writing, active_acc, online, is_generating_keys, attempts, key_rx,
                 history>>

Listing == mode \in {"auth_list", "session_list"}

\* An old delete_parent_mode leads from the DeleteAccount that AuthSwitch opens to
\* Switch or to Peers; ClientModes says when.
ParentModes == IF mode = "auth_list" THEN {mode, "session_list", "session"} ELSE {mode}

\* Esc in the lists.
CloseList ==
  /\ Listing /\ Resting(Loop)
  /\ mode' \in IF mode = "auth_list" THEN {"auth", "session_list", "session"}
                                      ELSE {"session"}
  /\ UNCHANGED <<file, writing, accounts, active_acc, online, is_generating_keys, attempts,
                 key_rx, history>>

\* Enter in DeleteAccount: what is saved is the list in memory.
DeleteAccount(i) ==
  /\ Listing /\ Resting(Loop)
  /\ i \in DOMAIN accounts
  /\ accounts' = RemoveAt(accounts, i)
  /\ Saves(Loop, accounts', accounts[i].address)
  /\ active_acc' = IF active_acc = accounts[i].address THEN None ELSE active_acc
  /\ mode' \in ParentModes
  /\ NoteHaste
  /\ UNCHANGED <<file, online, is_generating_keys, attempts, key_rx, used, ledger, crashes>>

\* Enter in AuthSwitch or Switch: switch_account works on the file, not on the
\* list; afterwards a new connection is attempted.
SwitchAccount(i) ==
  /\ Listing /\ Resting(Loop)
  /\ i \in DOMAIN accounts
  /\ attempts < MaxAttempts
  /\ LET selected == accounts[i].address IN
       IF Readable /\ selected \in Addresses(Loaded)
         THEN /\ Saves(Loop, Activated(Loaded, selected), selected)
              /\ active_acc' = selected
         ELSE UNCHANGED <<writing, active_acc>>
  /\ attempts' = attempts + 1
  /\ online' = FALSE
  /\ NoteHaste
  /\ UNCHANGED <<file, accounts, mode, is_generating_keys, key_rx, used, ledger, crashes>>

\* Mutant of Connected: the list stays as it was.
ConnectedUnloaded ==
  /\ attempts > 0 /\ Resting(Loop)
  /\ attempts' = attempts - 1
  /\ mode' = "auth"
  /\ online' = TRUE
  /\ UNCHANGED <<file, writing, accounts, active_acc, is_generating_keys, key_rx, history>>

\* A connection is there: the list is loaded again, the Auth screen is next.
Connected ==
  /\ attempts > 0 /\ Resting(Loop)
  /\ attempts' = attempts - 1
  /\ accounts' = Loaded
  /\ mode' = "auth"
  /\ online' = TRUE
  /\ UNCHANGED <<file, writing, active_acc, is_generating_keys, key_rx, history>>

\* The attempt failed; its message is all that changes.
NotConnected ==
  /\ attempts > 0 /\ Resting(Loop)
  /\ attempts' = attempts - 1
  /\ UNCHANGED <<file, writing, accounts, active_acc, mode, online, is_generating_keys, key_rx,
                 history>>

\* The program ends at any point, threads included, and is started again.
Crash ==
  /\ crashes < MaxCrashes
  /\ crashes' = crashes + 1
  /\ Starts
  /\ UNCHANGED <<file, used, ledger, hasty>>

-----------------------------------------------------------------------------
LoginStep(t) == LoadForLogin(t) \/ FailLogin(t)

Save(w) == Truncate(w) \/ WriteFile(w)

Results == TakeKey \/ Connected \/ NotConnected

Keys ==
  \/ \E t \in Login : StartLogin(t)
  \/ EnterActive \/ OpenList \/ CloseList
  \/ \E i \in DOMAIN accounts : DeleteAccount(i) \/ SwitchAccount(i)

Next ==
  \/ Keys \/ Results \/ Crash
  \/ \E t \in Login : LoginStep(t)
  \/ \E w \in Writer : Save(w)

Spec == Init /\ [][Next]_vars

\* The threads run, the event loop finishes its saves and takes results; nothing
\* is assumed of the user.
Fairness ==
  /\ \A t \in Login : WF_vars(LoginStep(t))
  /\ \A w \in Writer : WF_vars(Save(w))
  /\ SF_vars(TakeKey)

FairSpec == Spec /\ Fairness

-----------------------------------------------------------------------------
(* Properties *)

TypeOK ==
  /\ file \in AccountsFile
  /\ step \in [Writer -> {"rest", "generate", "truncate", "write"}]
  /\ data \in [Writer -> Seq(StoredAccount)]
  /\ subject \in [Writer -> Address \cup {None}]
  /\ accounts \in Seq(StoredAccount)
  /\ active_acc \in Address \cup {None}
  /\ online \in BOOLEAN
  /\ mode \in {"auth", "auth_list", "session", "session_list"}
  /\ is_generating_keys \in BOOLEAN
  /\ key_rx \in Seq(Address)
  /\ attempts \in Nat
  /\ used \subseteq Address /\ ledger \subseteq Address
  /\ hasty \in BOOLEAN
  /\ crashes \in Nat

OneActiveIn(s) == \A i, j \in DOMAIN s : s[i].is_active /\ s[j].is_active => i = j

\* However logins, switches and deletions overwrite each other's file, no file
\* and no list ever has two active accounts (auth.rs:39-47, :53-66).
OneActive == OneActiveIn(file.accounts) /\ OneActiveIn(accounts)

\* The file is what the operations make of it one after the other: every account
\* that was saved is there until it is deleted, none that was deleted is back,
\* crashes in between notwithstanding -- unless the user started one thing before
\* the last had ended (auth.rs:39-47, cli.rs:449-450).
NothingLost == Readable /\ ~hasty => Addresses(file.accounts) = ledger

\* Only a crash in the middle of a save, or two saves at the same time, leave a
\* file that does not parse (storage.rs:68).
TornByCrashOrHaste ==
  ~Readable => hasty \/ crashes > 0 \/ \E w \in Writer : step[w] = "write"

\* With a connection and no login pending, the account in the title of the Auth screen, which is
\* taken from the list, is the one that Enter logs in, which is active_acc
\* (cli.rs:1021-1026 against :394-395).
TitleIsEntered ==
  mode = "auth" /\ online /\ ~LoginPending /\ ~hasty
    => ActiveOf(accounts) = active_acc

\* A login comes to an end that the user sees; one that fails does not stop its
\* spinner, which takes a torn file (cli.rs:409-413).
LoginEnds ==
  is_generating_keys ~> ~is_generating_keys \/ hasty \/ crashes > 0
=============================================================================
