---------------------------- MODULE ClientLists -----------------------------
(***************************************************************************)
(* The lists of a CULT.NET client (src/client/cli.rs): contacts and        *)
(* accounts, the selections that point into them, and what is added or     *)
(* removed through a selection.                                            *)
(*                                                                         *)
(* Three things have to agree that nothing in the program ties together:   *)
(* a list in memory, its file, which most handlers load again before they  *)
(* change it, and the index that a ListState keeps.  A round of the event  *)
(* loop handles results, draws, and handles at most one key; drawing a     *)
(* list puts an index that is out of range back into it.                   *)
(***************************************************************************)
EXTENDS Naturals, Sequences, SequencesExt

CONSTANTS
  Peer,         \* the addresses that are typed into AddContact
  MaxContacts,  \* bound on the contacts
  MaxAccounts,  \* bound on the accounts
  MaxFaults,    \* bound on the saves that fail
  MaxCrashes,   \* bound on the crashes of the program
  None          \* Rust's None, and the file that does not parse

\* A contact, and whether the key of its peer has been stored.
Contact == [full_address : Peer, has_key : BOOLEAN]

ASSUME ListAssumption ==
  /\ None \notin Peer
  /\ MaxContacts \in Nat /\ MaxAccounts \in Nat
  /\ MaxFaults \in Nat /\ MaxCrashes \in Nat

\* Of accounts only their number matters here.  A selection is 0 for None and
\* i for Some(i - 1).
VARIABLES
  mode,                 \* the AppMode; Auth stands for EnterServerIp too, Main for
                        \* ShowKey, and Peers for TobyFox
  round,                \* "results" until the screen is drawn, then "key"
  contacts,             \* the contacts in memory
  contacts_file,        \* contacts.json: the contacts, or None if it does not parse
  peers_state,          \* the selection in the side bar
  delete_contact_state, \* the selection in DeleteContact
  delete_confirm,       \* Enter was pressed once on the selected contact
  active_peer,          \* the peer of the chat opened last, or None
  accounts,             \* how many accounts are in memory
  saved_accounts,       \* how many are in accounts.json
  switch_acc_state,     \* the selection in AuthSwitch and Switch
  delete_account_state, \* the selection in DeleteAccount
  delete_parent_mode,   \* where DeleteAccount returns to, or None
  confirmed,            \* history: the contact that was highlighted at the first Enter
  faults,               \* how many saves failed
  crashes               \* how often the program crashed

stored      == <<contacts, contacts_file, faults>>
deleting    == <<delete_contact_state, delete_confirm, confirmed>>
contactVars == <<stored, deleting, peers_state>>
accountVars == <<accounts, saved_accounts, switch_acc_state, delete_account_state>>
other       == <<active_peer, delete_parent_mode, crashes>>
vars        == <<mode, round, contactVars, accountVars, other>>

-----------------------------------------------------------------------------
(* Selections *)

\* Mutant of Upward: no lower end.
UpwardFreely(i) == i - 1

\* Up and Down in a list of n items.
Upward(i) == IF i <= 1 THEN 1 ELSE i - 1
Downward(i, n) == IF i > 0 /\ i >= n THEN n ELSE i + 1

\* Mutant of Clamped: drawing leaves the selection as it is.
Unclamped(i, n) == i

\* What drawing a List of n items leaves of its selection.
Clamped(i, n) == IF i > n THEN n ELSE i

\* next_idx: where the selection goes when item i was removed and n are left.
AfterRemoval(i, n) == Clamped(i, n)

\* In Peers the first contact is selected before a key is looked at.
DefaultPeer ==
  IF mode = "Peers" /\ peers_state = 0 /\ contacts # <<>> THEN 1 ELSE peers_state

\* load_contacts().unwrap_or_default()
Loaded == IF contacts_file = None THEN <<>> ELSE contacts_file

\* let _ = save_contacts(..): a failure goes unnoticed and leaves the file.
Saved(s) ==
  \/ contacts_file' = s /\ UNCHANGED faults
  \/ faults < MaxFaults /\ faults' = faults + 1 /\ UNCHANGED contacts_file

\* A key press: any in a round that has been drawn, one in a round.
Pressed(m) == round = "key" /\ mode = m /\ round' = "results"

Init ==
  /\ mode = "Auth"
  /\ round = "results"
  /\ contacts = <<>> /\ contacts_file = <<>>
  /\ peers_state = 0 /\ delete_contact_state = 0
  /\ delete_confirm = FALSE
  /\ active_peer = None
  /\ accounts = 0 /\ saved_accounts = 0
  /\ switch_acc_state = 0 /\ delete_account_state = 0
  /\ delete_parent_mode = None
  /\ confirmed = None
  /\ faults = 0
  /\ crashes = 0

-----------------------------------------------------------------------------
(* A round *)

\* terminal.draw(ui): each mode draws its own list.
Draw ==
  /\ round = "results"
  /\ round' = "key"
  /\ switch_acc_state' = IF mode \in {"AuthSwitch", "Switch"}
                           THEN Clamped(switch_acc_state, accounts) ELSE switch_acc_state
  /\ delete_account_state' = IF mode = "DeleteAccount"
                               THEN Clamped(delete_account_state, accounts)
                               ELSE delete_account_state
  /\ delete_contact_state' = IF mode = "DeleteContact"
                               THEN Clamped(delete_contact_state, Len(contacts))
                               ELSE delete_contact_state
  /\ peers_state' = IF mode \in {"Main", "Peers", "Chat"}
                      THEN Clamped(peers_state, Len(contacts)) ELSE peers_state
  /\ UNCHANGED <<mode, stored, delete_confirm, confirmed, other, accounts, saved_accounts>>

\* A round without a key.
NoKey ==
  /\ round = "key"
  /\ round' = "results"
  /\ UNCHANGED <<mode, contactVars, other, accountVars>>

\* A login thread saves its account.
LoginSaves ==
  /\ saved_accounts < MaxAccounts
  /\ saved_accounts' = saved_accounts + 1
  /\ UNCHANGED <<mode, round, contactVars, other, accounts, switch_acc_state,
                 delete_account_state>>

\* A connection is there, after a switch of accounts for instance, which changes no
\* list itself: whatever the mode was, Auth is next.
Connected ==
  /\ round = "results"
  /\ accounts' = saved_accounts
  /\ mode' = "Auth"
  /\ UNCHANGED <<round, contactVars, other, saved_accounts, switch_acc_state,
                 delete_account_state>>

\* The account of a login is there: its key is shown.
KeyShown ==
  /\ round = "results"
  /\ mode' = "Main"
  /\ UNCHANGED <<round, contactVars, other, accountVars>>

\* Whether contact i is the first one with the address of the chat opened last.
IsActive(s, i) ==
  /\ s[i].full_address = active_peer
  /\ \A j \in 1..(i - 1) : s[j].full_address # active_peer

WithKey(s) == [i \in DOMAIN s |-> [s[i] EXCEPT !.has_key = @ \/ IsActive(s, i)]]

HasActive(s) == \E i \in DOMAIN s : s[i].full_address = active_peer

\* Mutant of KeyResponse: the key is not saved.
KeyResponseUnsaved ==
  /\ round = "results"
  /\ HasActive(contacts)
  /\ contacts' = WithKey(contacts)
  /\ UNCHANGED <<mode, round, contacts_file, peers_state, deleting, faults, other, accountVars>>

\* A KeyResponse: the key goes to the active peer, in memory and in the file.
KeyResponse ==
  /\ round = "results"
  /\ HasActive(contacts)
  /\ contacts' = WithKey(contacts)
  /\ IF HasActive(Loaded) THEN Saved(WithKey(Loaded)) ELSE UNCHANGED <<contacts_file, faults>>
  /\ UNCHANGED <<mode, round, peers_state, deleting, other, accountVars>>

\* The program ends, perhaps in the middle of a save, and starts again.
Saving ==
  \/ mode = "AddContact"
  \/ mode = "DeleteContact" /\ delete_confirm
  \/ HasActive(contacts)

Crash ==
  /\ crashes < MaxCrashes
  /\ crashes' = crashes + 1
  /\ contacts_file' \in {contacts_file} \cup (IF Saving THEN {None} ELSE {})
  /\ contacts' = IF contacts_file' = None THEN <<>> ELSE contacts_file'
  /\ accounts' = saved_accounts
  /\ mode' = "Auth" /\ round' = "results"
  /\ peers_state' = 0 /\ delete_contact_state' = 0
  /\ switch_acc_state' = 0 /\ delete_account_state' = 0
  /\ delete_confirm' = FALSE
  /\ active_peer' = None /\ delete_parent_mode' = None /\ confirmed' = None
  /\ UNCHANGED <<saved_accounts, faults>>

-----------------------------------------------------------------------------
(* Accounts *)

\* Enter in Auth, with an account or a name.
Enter ==
  /\ Pressed("Auth")
  /\ mode' = "Main"
  /\ UNCHANGED <<contactVars, other, accountVars>>

\* Right in Auth.
OpenAuthSwitch ==
  /\ Pressed("Auth")
  /\ accounts' = saved_accounts
  /\ IF saved_accounts = 0
       THEN UNCHANGED <<mode, switch_acc_state>>
       ELSE mode' = "AuthSwitch" /\ switch_acc_state' = 1
  /\ UNCHANGED <<contactVars, other, saved_accounts, delete_account_state>>

\* 's' in Main and Peers.
OpenSwitch ==
  /\ Pressed("Main") \/ Pressed("Peers")
  /\ accounts' = saved_accounts
  /\ switch_acc_state' = IF saved_accounts = 0 THEN switch_acc_state ELSE 1
  /\ mode' = "Switch"
  /\ peers_state' = DefaultPeer
  /\ UNCHANGED <<stored, deleting, other, saved_accounts, delete_account_state>>

MoveInSwitch ==
  /\ Pressed("AuthSwitch") \/ (Pressed("Switch") /\ accounts > 0)
  /\ switch_acc_state' \in {Upward(switch_acc_state),
                            Downward(switch_acc_state, IF accounts = 0 THEN 1 ELSE accounts)}
  /\ UNCHANGED <<mode, contactVars, other, accounts, saved_accounts, delete_account_state>>

CloseSwitch ==
  /\ \/ Pressed("AuthSwitch") /\ mode' = "Auth"
     \/ Pressed("Switch") /\ mode' = "Main"
  /\ UNCHANGED <<contactVars, other, accountVars>>

\* 'd'; only Switch leaves its name behind.
OpenDeleteAccount ==
  /\ accounts > 0
  /\ \/ Pressed("AuthSwitch") /\ UNCHANGED delete_parent_mode
     \/ Pressed("Switch") /\ delete_parent_mode' = "Switch"
  /\ delete_account_state' = switch_acc_state
  /\ mode' = "DeleteAccount"
  /\ UNCHANGED <<contactVars, active_peer, accounts, saved_accounts, switch_acc_state, crashes>>

MoveInDeleteAccount ==
  /\ Pressed("DeleteAccount")
  /\ accounts > 0
  /\ delete_account_state' \in {Upward(delete_account_state),
                                Downward(delete_account_state, accounts)}
  /\ UNCHANGED <<mode, contactVars, other, accounts, saved_accounts, switch_acc_state>>

Parent == IF delete_parent_mode = None THEN "AuthSwitch" ELSE delete_parent_mode

\* Switch, if it is next, selects what DeleteAccount has selected.
CloseDeleteAccount ==
  /\ Pressed("DeleteAccount")
  /\ switch_acc_state' = IF Parent = "Switch" /\ delete_account_state > 0
                           THEN delete_account_state ELSE switch_acc_state
  /\ mode' = Parent
  /\ UNCHANGED <<contactVars, other, accounts, saved_accounts, delete_account_state>>

\* accounts.remove(idx), which panics beyond the end; the list is saved.
RemoveAccount ==
  /\ Pressed("DeleteAccount")
  /\ delete_account_state \in 1..accounts
  /\ accounts' = accounts - 1
  /\ saved_accounts' = accounts - 1
  /\ delete_account_state' = AfterRemoval(delete_account_state, accounts - 1)
  /\ switch_acc_state' = IF Parent = "Switch" THEN delete_account_state' ELSE switch_acc_state
  /\ mode' = Parent
  /\ UNCHANGED <<contactVars, other>>

-----------------------------------------------------------------------------
(* Contacts *)

\* 'p' in Main.
OpenPeers ==
  /\ Pressed("Main")
  /\ contacts' = Loaded
  /\ mode' = "Peers"
  /\ UNCHANGED <<contacts_file, peers_state, deleting, faults, other, accountVars>>

MoveInPeers ==
  /\ Pressed("Peers")
  /\ contacts # <<>>
  /\ peers_state' \in {Upward(DefaultPeer), Downward(DefaultPeer, Len(contacts))}
  /\ UNCHANGED <<mode, stored, deleting, other, accountVars>>

\* Esc, 'a' and a key without a meaning in Peers; Esc in AddContact, in Chat.
Walk ==
  /\ \/ Pressed("Peers") /\ mode' \in {"Main", "AddContact", "Peers"}
     \/ Pressed("AddContact") /\ mode' = "Peers"
     \/ Pressed("Chat") /\ mode' = "Peers"
  /\ peers_state' = DefaultPeer
  /\ UNCHANGED <<stored, deleting, other, accountVars>>

\* Enter in Peers.
OpenChat ==
  /\ Pressed("Peers")
  /\ DefaultPeer \in DOMAIN contacts
  /\ active_peer' = contacts[DefaultPeer].full_address
  /\ peers_state' = DefaultPeer
  /\ mode' = "Chat"
  /\ UNCHANGED <<stored, deleting, accountVars, delete_parent_mode, crashes>>

\* Enter in AddContact with a valid address, known or not.
AddContact(p) ==
  /\ Pressed("AddContact")
  /\ Len(Loaded) < MaxContacts
  /\ contacts' = Append(Loaded, [full_address |-> p, has_key |-> FALSE])
  /\ Saved(contacts')
  /\ peers_state' = 1
  /\ mode' = "Peers"
  /\ UNCHANGED <<deleting, other, accountVars>>

\* 'd' in Peers.
OpenDeleteContact ==
  /\ Pressed("Peers")
  /\ contacts # <<>>
  /\ peers_state' = DefaultPeer
  /\ delete_contact_state' = DefaultPeer
  /\ delete_confirm' = FALSE
  /\ delete_parent_mode' = "Peers"
  /\ mode' = "DeleteContact"
  /\ UNCHANGED <<stored, confirmed, active_peer, accountVars, crashes>>

\* Mutant of MoveInDeleteContact: the confirmation moves along.
MoveConfirmed ==
  /\ Pressed("DeleteContact")
  /\ contacts # <<>>
  /\ delete_contact_state' \in {Upward(delete_contact_state),
                                Downward(delete_contact_state, Len(contacts))}
  /\ UNCHANGED <<mode, stored, peers_state, delete_confirm, confirmed, other, accountVars>>

\* Another contact has to be confirmed anew.
MoveInDeleteContact ==
  /\ Pressed("DeleteContact")
  /\ contacts # <<>>
  /\ delete_contact_state' \in {Upward(delete_contact_state),
                                Downward(delete_contact_state, Len(contacts))}
  /\ delete_confirm' = FALSE
  /\ UNCHANGED <<mode, stored, peers_state, confirmed, other, accountVars>>

CloseDeleteContact ==
  /\ Pressed("DeleteContact")
  /\ peers_state' = IF delete_contact_state = 0 THEN peers_state ELSE delete_contact_state
  /\ mode' = "Peers"
  /\ UNCHANGED <<stored, deleting, other, accountVars>>

\* The first Enter.
ConfirmDelete ==
  /\ Pressed("DeleteContact")
  /\ ~delete_confirm
  /\ delete_confirm' = TRUE
  /\ confirmed' = IF delete_contact_state \in DOMAIN contacts
                    THEN contacts[delete_contact_state].full_address ELSE None
  /\ UNCHANGED <<mode, stored, peers_state, delete_contact_state, other, accountVars>>

\* The second Enter: the index of the list in memory is used on the loaded file.
RemoveContact ==
  /\ Pressed("DeleteContact")
  /\ delete_confirm
  /\ delete_contact_state > 0
  /\ IF delete_contact_state \in DOMAIN Loaded
       THEN /\ contacts' = RemoveAt(Loaded, delete_contact_state)
            /\ Saved(contacts')
       ELSE UNCHANGED <<stored>>
  /\ delete_contact_state' = AfterRemoval(delete_contact_state, Len(contacts'))
  /\ peers_state' = delete_contact_state'
  /\ delete_confirm' = FALSE
  /\ mode' = "Peers"
  /\ UNCHANGED <<confirmed, other, accountVars>>

-----------------------------------------------------------------------------
AccountKeys ==
  \/ Enter \/ OpenAuthSwitch \/ OpenSwitch \/ MoveInSwitch \/ CloseSwitch
  \/ OpenDeleteAccount \/ MoveInDeleteAccount \/ CloseDeleteAccount \/ RemoveAccount

ContactKeys ==
  \/ OpenPeers \/ MoveInPeers \/ Walk \/ OpenChat
  \/ \E p \in Peer : AddContact(p)
  \/ OpenDeleteContact \/ MoveInDeleteContact \/ CloseDeleteContact
  \/ ConfirmDelete \/ RemoveContact

Next ==
  \/ Draw \/ NoKey \/ AccountKeys \/ ContactKeys
  \/ LoginSaves \/ Connected \/ KeyShown \/ KeyResponse
  \/ Crash

Spec == Init /\ [][Next]_vars

-----------------------------------------------------------------------------
(* Properties *)

TypeOK ==
  /\ mode \in {"Auth", "AuthSwitch", "DeleteAccount", "Switch", "Main", "Peers", "Chat",
               "AddContact", "DeleteContact"}
  /\ round \in {"results", "key"}
  /\ contacts \in Seq(Contact)
  /\ contacts_file \in Seq(Contact) \cup {None}
  /\ active_peer \in Peer \cup {None} /\ confirmed \in Peer \cup {None}
  /\ accounts \in Nat /\ saved_accounts \in Nat
  /\ switch_acc_state \in Nat /\ delete_account_state \in Nat
  /\ peers_state \in Nat /\ delete_contact_state \in Nat
  /\ delete_confirm \in BOOLEAN
  /\ delete_parent_mode \in {"Switch", "Peers", None}
  /\ faults \in Nat /\ crashes \in Nat

\* accounts.remove(idx) never panics: when Enter is pressed in DeleteAccount, the
\* index is one of the list, however the two account selections and the list came
\* apart before (cli.rs:448-449).
RemovesWhatExists ==
  mode = "DeleteAccount" /\ round = "key" => delete_account_state <= accounts

\* The contacts in memory, keys included, are those of the file, as long as it
\* parses and saving works (cli.rs:218-226, :530, :805-821, :857-861).
ContactsAreSaved == contacts_file # None /\ faults = 0 => contacts = contacts_file

\* A contact leaves the file only if it was highlighted when the user pressed
\* Enter for the first time; a crash in a save and a save that failed before can
\* do worse (cli.rs:854-861).
OnlyConfirmedLeave ==
  [][contacts_file # None /\ contacts_file' # None /\ faults = 0
       => \/ Len(contacts_file') >= Len(contacts_file)
          \/ \E i \in DOMAIN contacts_file :
               /\ contacts_file[i].full_address = confirmed
               /\ contacts_file' = RemoveAt(contacts_file, i)]_vars
=============================================================================
