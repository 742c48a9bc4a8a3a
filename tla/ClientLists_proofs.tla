------------------------- MODULE ClientLists_proofs -------------------------
(***************************************************************************)
(* Proofs about ClientLists for any contacts, accounts, faults and crashes:*)
(* its types, the selection in DeleteAccount, the contacts in memory and   *)
(* in the file, and who leaves the file.                                   *)
(***************************************************************************)
EXTENDS ClientLists, ListLemmas, SequenceTheorems, TLAPS

-----------------------------------------------------------------------------
(* Types *)

LEMMA MoveType ==
  ASSUME NEW i \in Nat, NEW n \in Nat
  PROVE  /\ Upward(i) \in Nat /\ Downward(i, n) \in Nat
         /\ Clamped(i, n) \in Nat /\ Clamped(i, n) <= n
         /\ AfterRemoval(i, n) \in Nat
  BY DEF Upward, Downward, Clamped, AfterRemoval

\* What is loaded is a list, and its length a number.
LEMMA LoadedType ==
  ASSUME TypeOK
  PROVE  /\ Loaded \in Seq(Contact) /\ Len(Loaded) \in Nat
         /\ Len(contacts) \in Nat /\ DefaultPeer \in Nat
<1>1. Loaded \in Seq(Contact)
  BY EmptySeq DEF TypeOK, Loaded
<1>2. DefaultPeer \in Nat
  BY DEF TypeOK, DefaultPeer
<1> QED
  BY <1>1, <1>2, LenProperties DEF TypeOK

\* A key response changes no address and no place.
LEMMA WithKeyType ==
  ASSUME NEW s \in Seq(Contact)
  PROVE  /\ WithKey(s) \in Seq(Contact)
         /\ Len(WithKey(s)) = Len(s) /\ DOMAIN WithKey(s) = DOMAIN s
         /\ \A i \in DOMAIN s : WithKey(s)[i].full_address = s[i].full_address
<1>. DEFINE t == WithKey(s)
<1>1. Len(s) \in Nat /\ DOMAIN s = 1 .. Len(s)
  BY LenProperties
<1>2. \A i \in 1 .. Len(s) : s[i] \in Contact /\ IsActive(s, i) \in BOOLEAN
  BY <1>1, ElementOfSeq DEF IsActive
<1>3. \A i \in 1 .. Len(s) : t[i] \in Contact /\ t[i].full_address = s[i].full_address
  <2>1. \A i \in 1 .. Len(s) : t[i] = [s[i] EXCEPT !.has_key = @ \/ IsActive(s, i)]
    BY <1>1 DEF WithKey
  <2> QED
    BY <1>2, <2>1 DEF Contact
<1>4. t = [i \in 1 .. Len(s) |-> t[i]]
  BY <1>1 DEF WithKey
<1>. HIDE DEF t
<1>5. t \in [1 .. Len(s) -> Contact]
  BY <1>3, <1>4
<1>6. t \in Seq(Contact) /\ DOMAIN t = 1 .. Len(s) /\ Len(t) = Len(s)
  BY <1>1, <1>5, LenProperties
<1> QED
  BY <1>1, <1>3, <1>6 DEF t

LEMMA SavedType ==
  ASSUME TypeOK, NEW s \in Seq(Contact), Saved(s)
  PROVE  /\ contacts_file' \in Seq(Contact) \cup {None} /\ faults' \in Nat
         /\ \/ contacts_file' = s /\ faults' = faults
            \/ contacts_file' = contacts_file /\ faults' = faults + 1
  BY DEF TypeOK, Saved

LEMMA ListsInit == Init => TypeOK
<1>. SUFFICES ASSUME Init PROVE TypeOK
  OBVIOUS
<1>1. contacts \in Seq(Contact) /\ contacts_file \in Seq(Contact)
  BY EmptySeq DEF Init
<1> QED
  BY <1>1 DEF Init, TypeOK

LEMMA AccountStep == TypeOK /\ AccountKeys => TypeOK'
<1>. SUFFICES ASSUME TypeOK, AccountKeys PROVE TypeOK'
  OBVIOUS
<1>. USE DEF Pressed, stored, deleting, contactVars, accountVars, other
<1>1. CASE Enter \/ CloseSwitch
  BY <1>1 DEF TypeOK, Enter, CloseSwitch
<1>2. CASE OpenAuthSwitch
  BY <1>2 DEF TypeOK, OpenAuthSwitch
<1>3. CASE OpenSwitch
  BY <1>3, LoadedType DEF TypeOK, OpenSwitch
<1>4. CASE MoveInSwitch
  <2>1. switch_acc_state' \in Nat
    <3>. DEFINE n == IF accounts = 0 THEN 1 ELSE accounts
    <3>1. switch_acc_state \in Nat /\ n \in Nat
      BY DEF TypeOK
    <3>2. switch_acc_state' \in {Upward(switch_acc_state), Downward(switch_acc_state, n)}
      BY <1>4 DEF MoveInSwitch
    <3>. HIDE DEF n
    <3> QED
      BY <3>1, <3>2, MoveType
  <2> QED
    BY <1>4, <2>1 DEF TypeOK, MoveInSwitch
<1>5. CASE OpenDeleteAccount
  BY <1>5 DEF TypeOK, OpenDeleteAccount
<1>6. CASE MoveInDeleteAccount
  <2>1. delete_account_state' \in Nat
    <3>1. delete_account_state \in Nat /\ accounts \in Nat
      BY DEF TypeOK
    <3> QED
      BY <1>6, <3>1, MoveType DEF MoveInDeleteAccount
  <2> QED
    BY <1>6, <2>1 DEF TypeOK, MoveInDeleteAccount
<1>7. CASE CloseDeleteAccount
  BY <1>7 DEF TypeOK, CloseDeleteAccount, Parent
<1>8. CASE RemoveAccount
  <2>1. accounts - 1 \in Nat
    BY <1>8 DEF TypeOK, RemoveAccount
  <2>2. delete_account_state' \in Nat
    BY <1>8, <2>1, MoveType DEF TypeOK, RemoveAccount
  <2>3. switch_acc_state' \in Nat
    BY <1>8, <2>2 DEF TypeOK, RemoveAccount
  <2> QED
    BY <1>8, <2>1, <2>2, <2>3 DEF TypeOK, RemoveAccount, Parent
<1> QED
  BY <1>1, <1>2, <1>3, <1>4, <1>5, <1>6, <1>7, <1>8 DEF AccountKeys

LEMMA ContactStep == TypeOK /\ ContactKeys => TypeOK'
<1>. SUFFICES ASSUME TypeOK, ContactKeys PROVE TypeOK'
  OBVIOUS
<1>. USE DEF Pressed, deleting, contactVars, accountVars, other
<1>. Loaded \in Seq(Contact) /\ Len(Loaded) \in Nat /\ Len(contacts) \in Nat /\ DefaultPeer \in Nat
  BY LoadedType
<1>1. CASE OpenPeers
  BY <1>1 DEF TypeOK, OpenPeers
<1>2. CASE MoveInPeers
  <2>1. peers_state' \in Nat
    BY <1>2, MoveType DEF MoveInPeers
  <2> QED
    BY <1>2, <2>1 DEF TypeOK, MoveInPeers, stored
<1>3. CASE Walk
  BY <1>3 DEF TypeOK, Walk, stored
<1>4. CASE OpenChat
  <2>1. active_peer' \in Peer
    <3>1. contacts[DefaultPeer] \in Contact
      BY <1>4, LenProperties, ElementOfSeq DEF TypeOK, OpenChat
    <3> QED
      BY <1>4, <3>1 DEF OpenChat, Contact
  <2> QED
    BY <1>4, <2>1 DEF TypeOK, OpenChat, stored
<1>5. ASSUME NEW p \in Peer, AddContact(p) PROVE TypeOK'
  <2>1. contacts' \in Seq(Contact)
    <3>1. [full_address |-> p, has_key |-> FALSE] \in Contact
      BY DEF Contact
    <3> QED
      BY <1>5, <3>1, AppendProperties DEF AddContact
  <2>2. contacts_file' \in Seq(Contact) \cup {None} /\ faults' \in Nat
    BY <1>5, <2>1, SavedType DEF AddContact
  <2> QED
    BY <1>5, <2>1, <2>2 DEF TypeOK, AddContact
<1>6. CASE OpenDeleteContact
  BY <1>6 DEF TypeOK, OpenDeleteContact, stored
<1>7. CASE MoveInDeleteContact
  <2>1. delete_contact_state' \in Nat
    <3>1. delete_contact_state \in Nat
      BY DEF TypeOK
    <3> QED
      BY <1>7, <3>1, MoveType DEF MoveInDeleteContact
  <2> QED
    BY <1>7, <2>1 DEF TypeOK, MoveInDeleteContact, stored
<1>8. CASE CloseDeleteContact
  BY <1>8 DEF TypeOK, CloseDeleteContact, stored
<1>9. CASE ConfirmDelete
  <2>1. confirmed' \in Peer \cup {None}
    <3>1. ASSUME delete_contact_state \in DOMAIN contacts
          PROVE  contacts[delete_contact_state] \in Contact
      BY <3>1, LenProperties, ElementOfSeq DEF TypeOK
    <3> QED
      BY <1>9, <3>1 DEF ConfirmDelete, Contact
  <2> QED
    BY <1>9, <2>1 DEF TypeOK, ConfirmDelete, stored
<1>10. CASE RemoveContact
  <2>1. /\ contacts' \in Seq(Contact)
        /\ contacts_file' \in Seq(Contact) \cup {None} /\ faults' \in Nat
    <3>1. CASE delete_contact_state \in DOMAIN Loaded
      <4>1. contacts' = RemoveAt(Loaded, delete_contact_state) /\ Saved(contacts')
        BY <1>10, <3>1 DEF RemoveContact
      <4>2. contacts' \in Seq(Contact)
        BY <3>1, <4>1, Removed
      <4> QED
        BY <4>1, <4>2, SavedType
    <3>2. CASE delete_contact_state \notin DOMAIN Loaded
      BY <1>10, <3>2 DEF RemoveContact, TypeOK, stored
    <3> QED
      BY <3>1, <3>2
  <2>2. delete_contact_state' \in Nat
    BY <1>10, <2>1, LenProperties, MoveType DEF TypeOK, RemoveContact
  <2> QED
    BY <1>10, <2>1, <2>2 DEF TypeOK, RemoveContact
<1> QED
  BY <1>1, <1>2, <1>3, <1>4, <1>5, <1>6, <1>7, <1>8, <1>9, <1>10 DEF ContactKeys

LEMMA ListsStep == TypeOK /\ [Next]_vars => TypeOK'
<1>. SUFFICES ASSUME TypeOK, [Next]_vars PROVE TypeOK'
  OBVIOUS
<1>. USE DEF stored, deleting, contactVars, accountVars, other
<1>1. CASE Draw
  <2>1. /\ switch_acc_state' \in Nat /\ delete_account_state' \in Nat
        /\ delete_contact_state' \in Nat /\ peers_state' \in Nat
    BY <1>1, LoadedType, MoveType DEF TypeOK, Draw
  <2> QED
    BY <1>1, <2>1 DEF TypeOK, Draw
<1>2. CASE NoKey \/ LoginSaves \/ KeyShown
  <2>1. CASE NoKey
    BY <2>1 DEF TypeOK, NoKey
  <2>2. CASE LoginSaves
    BY <2>2 DEF TypeOK, LoginSaves
  <2>3. CASE KeyShown
    BY <2>3 DEF TypeOK, KeyShown
  <2> QED
    BY <1>2, <2>1, <2>2, <2>3
<1>3. CASE Connected
  BY <1>3 DEF TypeOK, Connected
<1>4. CASE KeyResponse
  <2>1. contacts' \in Seq(Contact)
    BY <1>4, WithKeyType DEF TypeOK, KeyResponse
  <2>2. contacts_file' \in Seq(Contact) \cup {None} /\ faults' \in Nat
    <3>1. CASE HasActive(Loaded)
      BY <1>4, <3>1, LoadedType, WithKeyType, SavedType DEF KeyResponse
    <3>2. CASE ~HasActive(Loaded)
      BY <1>4, <3>2 DEF KeyResponse, TypeOK
    <3> QED
      BY <3>1, <3>2
  <2> QED
    BY <1>4, <2>1, <2>2 DEF TypeOK, KeyResponse
<1>5. CASE Crash
  <2>1. contacts_file' \in Seq(Contact) \cup {None}
    BY <1>5 DEF TypeOK, Crash
  <2>2. contacts' \in Seq(Contact)
    BY <1>5, <2>1, EmptySeq DEF Crash
  <2>3. crashes' \in Nat
    BY <1>5 DEF TypeOK, Crash
  <2> QED
    BY <1>5, <2>1, <2>2, <2>3 DEF TypeOK, Crash
<1>6. CASE UNCHANGED vars
  BY <1>6 DEF TypeOK, vars
<1> QED
  BY <1>1, <1>2, <1>3, <1>4, <1>5, <1>6, AccountStep, ContactStep DEF Next

\* Lists, files and selections keep their types.
THEOREM ListsTypeCorrect == Spec => []TypeOK
  BY ListsInit, ListsStep, PTL DEF Spec

-----------------------------------------------------------------------------
(* What a key finds, and what the file holds *)

\* The first Enter is remembered with the contact that it was pressed on.
ConfirmedInv ==
  mode = "DeleteContact" =>
    /\ round = "key" => delete_contact_state <= Len(contacts)
    /\ delete_confirm =>
         /\ delete_contact_state <= Len(contacts)
         /\ delete_contact_state > 0 => contacts[delete_contact_state].full_address = confirmed

ListsInv == TypeOK /\ RemovesWhatExists /\ ContactsAreSaved /\ ConfirmedInv

LEMMA InvInit == Init => ListsInv
  BY ListsInit DEF Init, ListsInv, RemovesWhatExists, ContactsAreSaved, ConfirmedInv

\* A key, which ends its round, changes the contacts through few handlers.
LEMMA KeysPressed ==
  ASSUME TypeOK, AccountKeys
  PROVE  /\ round' = "results" /\ mode' # "DeleteContact"
         /\ UNCHANGED <<contacts, contacts_file, faults>>
<1>. USE DEF Pressed, stored, deleting, contactVars, accountVars, other
<1>1. CASE Enter \/ OpenAuthSwitch \/ OpenSwitch \/ MoveInSwitch \/ CloseSwitch
  BY <1>1 DEF Enter, OpenAuthSwitch, OpenSwitch, MoveInSwitch, CloseSwitch
<1>2. CASE OpenDeleteAccount \/ MoveInDeleteAccount
  BY <1>2 DEF OpenDeleteAccount, MoveInDeleteAccount
<1>3. CASE CloseDeleteAccount \/ RemoveAccount
  BY <1>3 DEF CloseDeleteAccount, RemoveAccount, Parent, TypeOK
<1> QED
  BY <1>1, <1>2, <1>3 DEF AccountKeys

\* The handlers that leave the contacts as they are.
LEMMA ContactsKept ==
  ASSUME OpenPeers \/ MoveInPeers \/ Walk \/ OpenChat \/ OpenDeleteContact
           \/ MoveInDeleteContact \/ CloseDeleteContact \/ ConfirmDelete
  PROVE  /\ round' = "results" /\ UNCHANGED <<contacts_file, faults>>
         /\ contacts' \in {contacts, Loaded}
  BY DEF OpenPeers, MoveInPeers, Walk, OpenChat, OpenDeleteContact, MoveInDeleteContact,
         CloseDeleteContact, ConfirmDelete, Pressed, stored, deleting, contactVars

LEMMA DrawnStep == ListsInv /\ [Next]_vars => RemovesWhatExists'
<1>. SUFFICES ASSUME ListsInv, [Next]_vars, round' = "key", mode' = "DeleteAccount"
              PROVE  delete_account_state' <= accounts'
  BY DEF RemovesWhatExists
<1>. TypeOK /\ RemovesWhatExists
  BY DEF ListsInv
<1>1. CASE Draw
  BY <1>1, MoveType DEF Draw, TypeOK, accountVars, other
<1>2. CASE LoginSaves \/ UNCHANGED vars
  BY <1>2 DEF LoginSaves, RemovesWhatExists, vars, accountVars
<1>3. CASE AccountKeys
  BY <1>3, KeysPressed
<1>4. CASE ContactKeys
  BY <1>4 DEF ContactKeys, OpenPeers, MoveInPeers, Walk, OpenChat, AddContact,
              OpenDeleteContact, MoveInDeleteContact, CloseDeleteContact, ConfirmDelete,
              RemoveContact, Pressed
<1>5. CASE NoKey \/ Connected \/ KeyShown \/ KeyResponse \/ Crash
  BY <1>5 DEF NoKey, Connected, KeyShown, KeyResponse, Crash
<1> QED
  BY <1>1, <1>2, <1>3, <1>4, <1>5 DEF Next

\* What is saved is in memory too.
LEMMA SavedIsKept ==
  ASSUME TypeOK, Saved(contacts') PROVE ContactsAreSaved'
  BY DEF TypeOK, Saved, ContactsAreSaved

LEMMA SavedStep == ListsInv /\ [Next]_vars => ContactsAreSaved'
<1>. SUFFICES ASSUME ListsInv, [Next]_vars PROVE ContactsAreSaved'
  OBVIOUS
<1>. TypeOK /\ ContactsAreSaved
  BY DEF ListsInv
<1>1. contacts_file # None => Loaded = contacts_file
  BY DEF Loaded
<1>2. CASE AccountKeys
  BY <1>2, KeysPressed DEF ContactsAreSaved
<1>3. CASE \/ OpenPeers \/ MoveInPeers \/ Walk \/ OpenChat \/ OpenDeleteContact
           \/ MoveInDeleteContact \/ CloseDeleteContact \/ ConfirmDelete
  BY <1>1, <1>3, ContactsKept DEF ContactsAreSaved
<1>4. ASSUME NEW p \in Peer, AddContact(p) PROVE ContactsAreSaved'
  BY <1>4, SavedIsKept DEF AddContact
<1>5. CASE RemoveContact
  <2>1. CASE delete_contact_state \in DOMAIN Loaded
    BY <1>5, <2>1, SavedIsKept DEF RemoveContact
  <2>2. CASE delete_contact_state \notin DOMAIN Loaded
    BY <1>5, <2>2 DEF RemoveContact, ContactsAreSaved, stored
  <2> QED
    BY <2>1, <2>2
<1>6. CASE KeyResponse
  <2>1. CASE contacts_file = None
    <3>1. ~HasActive(Loaded)
      BY <2>1, EmptySeq DEF Loaded, HasActive
    <3> QED
      BY <1>6, <2>1, <3>1 DEF KeyResponse, ContactsAreSaved
  <2>2. CASE contacts_file # None /\ faults = 0
    <3>1. contacts = Loaded
      BY <1>1, <2>2 DEF ContactsAreSaved
    <3>2. Saved(contacts')
      BY <1>6, <3>1 DEF KeyResponse
    <3> QED
      BY <3>2, SavedIsKept
  <2>3. CASE faults > 0
    <3>1. faults' > 0
      BY <1>6, <2>3 DEF KeyResponse, Saved, TypeOK
    <3> QED
      BY <3>1 DEF ContactsAreSaved
  <2> QED
    BY <2>1, <2>2, <2>3 DEF TypeOK
<1>7. CASE Crash
  BY <1>7 DEF Crash, ContactsAreSaved
<1>8. CASE Draw \/ NoKey \/ LoginSaves \/ Connected \/ KeyShown \/ UNCHANGED vars
  BY <1>8 DEF Draw, NoKey, LoginSaves, Connected, KeyShown, vars, contactVars, stored,
              ContactsAreSaved
<1> QED
  BY <1>2, <1>3, <1>4, <1>5, <1>6, <1>7, <1>8 DEF Next, ContactKeys

LEMMA ConfirmedStep == ListsInv /\ [Next]_vars => ConfirmedInv'
<1>. SUFFICES ASSUME ListsInv, [Next]_vars, mode' = "DeleteContact" PROVE ConfirmedInv'
  BY DEF ConfirmedInv
<1>. TypeOK /\ ConfirmedInv
  BY DEF ListsInv
<1>. Len(contacts) \in Nat /\ DOMAIN contacts = 1 .. Len(contacts)
  BY LenProperties DEF TypeOK
<1>1. CASE Draw
  <2>1. /\ mode = "DeleteContact" /\ UNCHANGED <<contacts, delete_confirm, confirmed>>
        /\ delete_contact_state' = Clamped(delete_contact_state, Len(contacts))
    BY <1>1 DEF Draw, stored
  <2>2. delete_contact_state' <= Len(contacts)
    BY <2>1, MoveType DEF TypeOK
  <2>3. delete_confirm => delete_contact_state' = delete_contact_state
    BY <2>1 DEF ConfirmedInv, Clamped, TypeOK
  <2> QED
    BY <2>1, <2>2, <2>3 DEF ConfirmedInv
<1>2. CASE NoKey \/ LoginSaves \/ UNCHANGED vars
  BY <1>2 DEF NoKey, LoginSaves, ConfirmedInv, vars, contactVars, stored, deleting
<1>3. CASE AccountKeys \/ Connected \/ KeyShown \/ Crash
  BY <1>3, KeysPressed DEF Connected, KeyShown, Crash
<1>4. CASE KeyResponse
  <2>1. mode = "DeleteContact" /\ contacts' = WithKey(contacts) /\ UNCHANGED <<round, deleting>>
    BY <1>4 DEF KeyResponse
  <2>2. /\ Len(WithKey(contacts)) = Len(contacts)
        /\ \A i \in DOMAIN contacts :
             WithKey(contacts)[i].full_address = contacts[i].full_address
    BY WithKeyType DEF TypeOK
  <2>. HIDE DEF WithKey
  <2> QED
    BY <2>1, <2>2 DEF ConfirmedInv, deleting, TypeOK
<1>5. CASE ConfirmDelete
  <2>1. /\ mode = "DeleteContact" /\ round = "key" /\ round' = "results"
        /\ UNCHANGED <<contacts, delete_contact_state>>
        /\ confirmed' = IF delete_contact_state \in DOMAIN contacts
                          THEN contacts[delete_contact_state].full_address ELSE None
    BY <1>5 DEF ConfirmDelete, Pressed, stored
  <2> QED
    BY <2>1 DEF ConfirmedInv, TypeOK
<1>6. CASE OpenDeleteContact \/ MoveInDeleteContact
  BY <1>6 DEF OpenDeleteContact, MoveInDeleteContact, Pressed, ConfirmedInv
<1>7. CASE \/ OpenPeers \/ MoveInPeers \/ Walk \/ OpenChat \/ CloseDeleteContact \/ RemoveContact
           \/ \E p \in Peer : AddContact(p)
  BY <1>7 DEF OpenPeers, MoveInPeers, Walk, OpenChat, CloseDeleteContact, RemoveContact,
              AddContact, Pressed
<1> QED
  BY <1>1, <1>2, <1>3, <1>4, <1>5, <1>6, <1>7 DEF Next, ContactKeys

LEMMA InvStep == ListsInv /\ [Next]_vars => ListsInv'
  BY ListsStep, DrawnStep, SavedStep, ConfirmedStep DEF ListsInv

\* Enter in DeleteAccount finds the account that it removes.
THEOREM RemovalFindsAccount == Spec => []RemovesWhatExists
<1>1. ListsInv => RemovesWhatExists
  BY DEF ListsInv
<1> QED
  BY <1>1, InvInit, InvStep, PTL DEF Spec

\* The contacts in memory are those of the file, as long as the file parses and
\* saving works.
THEOREM ContactsStaySaved == Spec => []ContactsAreSaved
<1>1. ListsInv => ContactsAreSaved
  BY DEF ListsInv
<1> QED
  BY <1>1, InvInit, InvStep, PTL DEF Spec

\* Only the contact that was highlighted at the first Enter leaves the file.
THEOREM OnlyConfirmedIsRemoved == Spec => OnlyConfirmedLeave
<1>. DEFINE Longer == Len(contacts_file') >= Len(contacts_file)
            Gone(i) == /\ contacts_file[i].full_address = confirmed
                       /\ contacts_file' = RemoveAt(contacts_file, i)
            Step == contacts_file # None /\ contacts_file' # None /\ faults = 0
                      => Longer \/ \E i \in DOMAIN contacts_file : Gone(i)
<1>1. ASSUME ListsInv, ListsInv', [Next]_vars,
             contacts_file # None, contacts_file' # None, faults = 0
      PROVE  Longer \/ \E i \in DOMAIN contacts_file : Gone(i)
  <2>1. /\ contacts = contacts_file /\ Loaded = contacts_file
        /\ contacts_file \in Seq(Contact) /\ contacts_file' \in Seq(Contact)
        /\ Len(contacts_file) \in Nat /\ DOMAIN contacts = 1 .. Len(contacts)
    BY <1>1, LenProperties DEF ListsInv, TypeOK, ContactsAreSaved, Loaded
  <2>2. CASE contacts_file' = contacts_file
    BY <2>1, <2>2
  <2>3. ASSUME NEW p \in Peer, AddContact(p) PROVE Longer
    <3>1. Len(contacts') = Len(contacts_file) + 1
      BY <2>1, <2>3, AppendProperties DEF AddContact, Contact
    <3>2. contacts_file' = contacts' \/ contacts_file' = contacts_file
      BY <2>3 DEF AddContact, Saved
    <3> QED
      BY <2>1, <3>1, <3>2
  <2>4. CASE KeyResponse
    <3>1. contacts_file' = WithKey(contacts_file) \/ contacts_file' = contacts_file
      BY <2>1, <2>4 DEF KeyResponse, Saved
    <3> QED
      BY <2>1, <3>1, WithKeyType
  <2>5. CASE RemoveContact
    <3>1. mode = "DeleteContact" /\ delete_confirm /\ delete_contact_state > 0
      BY <2>5 DEF RemoveContact, Pressed
    <3>2. CASE delete_contact_state \in DOMAIN Loaded
      <4>1. contacts[delete_contact_state].full_address = confirmed
        BY <1>1, <3>1 DEF ListsInv, ConfirmedInv
      <4>2. \/ contacts_file' = RemoveAt(contacts_file, delete_contact_state)
            \/ contacts_file' = contacts_file
        BY <2>1, <2>5, <3>2 DEF RemoveContact, Saved
      <4> QED
        BY <2>1, <2>2, <3>2, <4>1, <4>2
    <3>3. CASE delete_contact_state \notin DOMAIN Loaded
      BY <2>2, <2>5, <3>3 DEF RemoveContact, stored
    <3> QED
      BY <3>2, <3>3
  <2>6. CASE AccountKeys
    BY <1>1, <2>2, <2>6, KeysPressed DEF ListsInv
  <2>7. CASE \/ OpenPeers \/ MoveInPeers \/ Walk \/ OpenChat \/ OpenDeleteContact
             \/ MoveInDeleteContact \/ CloseDeleteContact \/ ConfirmDelete
    BY <2>2, <2>7, ContactsKept
  <2>8. CASE Crash
    BY <1>1, <2>2, <2>8 DEF Crash
  <2>9. CASE Draw \/ NoKey \/ LoginSaves \/ Connected \/ KeyShown \/ UNCHANGED vars
    BY <2>2, <2>9 DEF Draw, NoKey, LoginSaves, Connected, KeyShown, vars, contactVars, stored
  <2> QED
    BY <1>1, <2>3, <2>4, <2>5, <2>6, <2>7, <2>8, <2>9 DEF Next, ContactKeys
<1>2. ListsInv /\ ListsInv' /\ [Next]_vars => Step
  BY <1>1
<1>. HIDE DEF Step
<1>3. Spec => [][Step]_vars
  BY <1>2, InvInit, InvStep, PTL DEF Spec
<1> QED
  BY <1>3, PTL DEF OnlyConfirmedLeave, Step
=============================================================================
