------------------------ MODULE AccountStore_proofs ------------------------
(***************************************************************************)
(* Proofs about AccountStore for any addresses, login threads, attempts    *)
(* and crashes: its types, the one active account of each list, and what   *)
(* the file and the title hold as long as one thing is done at a time.     *)
(***************************************************************************)
EXTENDS AccountStore, ListLemmas, SequenceTheorems, TLAPS

-----------------------------------------------------------------------------
(* Lists of accounts *)

\* A list of different accounts of which at most one is active.
Distinct(s) == \A i, j \in DOMAIN s : s[i].address = s[j].address => i = j
AccountList(s) == s \in Seq(StoredAccount) /\ OneActiveIn(s) /\ Distinct(s)

LEMMA EmptyList == AccountList(<<>>) /\ Addresses(<<>>) = {} /\ ActiveOf(<<>>) = None
<1>1. <<>> \in Seq(StoredAccount) /\ DOMAIN <<>> = {}
  BY EmptySeq
<1> QED
  BY <1>1 DEF AccountList, OneActiveIn, Distinct, Addresses, ActiveOf

LEMMA ItemType ==
  ASSUME NEW s \in Seq(StoredAccount), NEW i \in DOMAIN s
  PROVE  /\ s[i] \in StoredAccount /\ s[i].address \in Address /\ s[i].is_active \in BOOLEAN
         /\ s[i].address \in Addresses(s)
<1>1. s[i] \in StoredAccount
  BY LenProperties, ElementOfSeq
<1>2. s[i].address \in Addresses(s)
  BY DEF Addresses
<1> QED
  BY <1>1, <1>2 DEF StoredAccount

\* ActiveOf finds the active account.
LEMMA ActiveFound ==
  ASSUME NEW s, AccountList(s)
  PROVE  /\ \A i \in DOMAIN s : s[i].is_active => ActiveOf(s) = s[i].address
         /\ (\A i \in DOMAIN s : ~s[i].is_active) => ActiveOf(s) = None
<1>1. ASSUME NEW i \in DOMAIN s, s[i].is_active PROVE ActiveOf(s) = s[i].address
  <2>. DEFINE First(k) == s[k].is_active /\ \A j \in 1 .. (k - 1) : ~s[j].is_active
  <2>1. s \in Seq(StoredAccount) /\ i \in 1 .. Len(s) /\ Len(s) \in Nat /\ DOMAIN s = 1 .. Len(s)
    BY <1>1, LenProperties DEF AccountList
  <2>2. \A k \in DOMAIN s : s[k].is_active => k = i
    BY <1>1 DEF AccountList, OneActiveIn
  <2>3. First(i)
    BY <1>1, <2>1, <2>2
  <2>4. i = CHOOSE k \in DOMAIN s : First(k)
    BY <1>1, <2>2, <2>3
  <2> QED
    BY <1>1, <2>4 DEF ActiveOf
<1> QED
  BY <1>1 DEF ActiveOf

LEMMA ActiveType ==
  ASSUME NEW s, AccountList(s)
  PROVE  ActiveOf(s) \in Address \cup {None}
  BY ActiveFound, ItemType DEF AccountList

\* The list that login saves.
LEMMA ListWithLogin ==
  ASSUME NEW s, AccountList(s), NEW a \in Address, a \notin Addresses(s)
  PROVE  LET t == Append(Deactivated(s), [address |-> a, is_active |-> TRUE]) IN
           AccountList(t) /\ Addresses(t) = Addresses(s) \cup {a} /\ ActiveOf(t) = a
<1>. DEFINE acc == [address |-> a, is_active |-> TRUE]
            d == Deactivated(s)
            t == Append(d, acc)
<1>1. s \in Seq(StoredAccount) /\ Len(s) \in Nat /\ DOMAIN s = 1 .. Len(s)
  BY LenProperties DEF AccountList
<1>2. \A i \in 1 .. Len(s) : d[i] = [s[i] EXCEPT !.is_active = FALSE]
  BY <1>1 DEF Deactivated
<1>3. \A i \in 1 .. Len(s) :
         d[i] \in StoredAccount /\ d[i].address = s[i].address /\ ~d[i].is_active
  <2>1. ASSUME NEW i \in 1 .. Len(s)
        PROVE  d[i] \in StoredAccount /\ d[i].address = s[i].address /\ ~d[i].is_active
    <3>1. s[i] \in StoredAccount
      BY <1>1, ItemType
    <3>2. d[i] = [s[i] EXCEPT !.is_active = FALSE]
      BY <1>2
    <3> HIDE DEF d
    <3> QED
      BY <3>1, <3>2 DEF StoredAccount
  <2> QED
    BY <2>1
<1>4. d \in Seq(StoredAccount) /\ Len(d) = Len(s) /\ DOMAIN d = 1 .. Len(s)
  <2>1. d = [i \in 1 .. Len(s) |-> d[i]]
    BY <1>1 DEF Deactivated
  <2>2. d \in [1 .. Len(s) -> StoredAccount]
    BY <1>3, <2>1
  <2> QED
    BY <1>1, <2>1, <2>2
<1>5. acc \in StoredAccount /\ acc.address = a /\ acc.is_active
  BY DEF StoredAccount
<1>. HIDE DEF d, acc
<1>6. /\ t \in Seq(StoredAccount) /\ Len(t) = Len(s) + 1
      /\ \A i \in 1 .. Len(s) : t[i] = d[i]
      /\ t[Len(s) + 1] = acc
  BY <1>4, <1>5, AppendProperties
<1>7. DOMAIN t = 1 .. Len(s) + 1
  BY <1>6, LenProperties
<1>. HIDE DEF t
<1>8. \A i \in DOMAIN t : i \in 1 .. Len(s) \/ i = Len(s) + 1
  BY <1>1, <1>7
<1>9. Len(s) + 1 \in DOMAIN t /\ 1 .. Len(s) \subseteq DOMAIN t
  BY <1>1, <1>7
<1>10. OneActiveIn(t)
  BY <1>3, <1>6, <1>8 DEF OneActiveIn
<1>11. \A i \in 1 .. Len(s) : s[i].address # a
  BY <1>1, ItemType
<1>12. Distinct(t)
  BY <1>1, <1>3, <1>5, <1>6, <1>8, <1>11 DEF Distinct, AccountList
<1>13. Addresses(t) = Addresses(s) \cup {a}
  BY <1>1, <1>3, <1>5, <1>6, <1>8, <1>9 DEF Addresses
<1>14. AccountList(t)
  BY <1>6, <1>10, <1>12 DEF AccountList
<1>15. ActiveOf(t) = a
  BY <1>5, <1>6, <1>9, <1>14, ActiveFound
<1> QED
  BY <1>13, <1>14, <1>15 DEF t, d, acc

\* The list that switch_account saves.
LEMMA ListSwitched ==
  ASSUME NEW s, AccountList(s), NEW a \in Addresses(s)
  PROVE  /\ AccountList(Activated(s, a))
         /\ Addresses(Activated(s, a)) = Addresses(s)
         /\ ActiveOf(Activated(s, a)) = a
<1>. DEFINE t == Activated(s, a)
<1>1. s \in Seq(StoredAccount) /\ Len(s) \in Nat /\ DOMAIN s = 1 .. Len(s)
  BY LenProperties DEF AccountList
<1>2. \A i \in 1 .. Len(s) :
         /\ t[i] \in StoredAccount /\ t[i].address = s[i].address
         /\ t[i].is_active <=> s[i].address = a
  BY <1>1, ItemType DEF Activated, StoredAccount
<1>3. t \in Seq(StoredAccount) /\ DOMAIN t = 1 .. Len(s)
  <2>1. t = [i \in 1 .. Len(s) |-> t[i]]
    BY <1>1 DEF Activated
  <2>2. t \in [1 .. Len(s) -> StoredAccount]
    BY <1>2, <2>1
  <2> QED
    BY <1>1, <2>1, <2>2
<1>. HIDE DEF t
<1>4. OneActiveIn(t) /\ Distinct(t)
  BY <1>1, <1>2, <1>3 DEF OneActiveIn, Distinct, AccountList
<1>5. Addresses(t) = Addresses(s)
  BY <1>1, <1>2, <1>3 DEF Addresses
<1>6. PICK i \in 1 .. Len(s) : s[i].address = a
  BY <1>1 DEF Addresses
<1>7. ActiveOf(t) = a
  BY <1>2, <1>3, <1>4, <1>6, ActiveFound DEF AccountList
<1> QED
  BY <1>3, <1>4, <1>5, <1>7 DEF t, AccountList

\* The list that a deletion saves.
LEMMA ListWithout ==
  ASSUME NEW s, AccountList(s), NEW i \in DOMAIN s
  PROVE  /\ AccountList(RemoveAt(s, i))
         /\ Addresses(RemoveAt(s, i)) = Addresses(s) \ {s[i].address}
         /\ ActiveOf(RemoveAt(s, i)) =
              IF ActiveOf(s) = s[i].address THEN None ELSE ActiveOf(s)
<1>. DEFINE t == RemoveAt(s, i)
            Was(j) == IF j < i THEN j ELSE j + 1
            Is(j) == IF j < i THEN j ELSE j - 1
<1>1. /\ s \in Seq(StoredAccount) /\ Len(s) \in Nat /\ DOMAIN s = 1 .. Len(s)
      /\ i \in 1 .. Len(s)
  BY LenProperties DEF AccountList
<1>2. t \in Seq(StoredAccount) /\ DOMAIN t = 1 .. Len(s) - 1
  BY <1>1, Removed, LenProperties
<1>. HIDE DEF t
<1>3. \A j \in 1 .. Len(s) - 1 : t[j] = s[Was(j)]
  <2>1. \A j \in 1 .. Len(s) - 1 : t[j] = IF j < i THEN s[j] ELSE s[j + 1]
    BY <1>1, Removed DEF t
  <2> QED
    BY <2>1
<1>4. \A j \in 1 .. Len(s) - 1 : Was(j) \in 1 .. Len(s) /\ Was(j) # i
  BY <1>1
<1>5. \A j \in 1 .. Len(s) : j # i => Is(j) \in 1 .. Len(s) - 1 /\ Was(Is(j)) = j
  BY <1>1
<1>6. \A j, k \in 1 .. Len(s) - 1 : Was(j) = Was(k) => j = k
  BY <1>1
<1>. HIDE DEF Was, Is
<1>7. OneActiveIn(t)
  BY <1>1, <1>2, <1>3, <1>4, <1>6 DEF OneActiveIn, AccountList
<1>8. Distinct(t)
  BY <1>1, <1>2, <1>3, <1>4, <1>6 DEF Distinct, AccountList
<1>9. \A j \in 1 .. Len(s) : j # i => s[j].address # s[i].address
  BY <1>1 DEF AccountList, Distinct
<1>10. Addresses(t) = Addresses(s) \ {s[i].address}
  <2>1. ASSUME NEW j \in DOMAIN t
        PROVE  t[j].address \in Addresses(s) /\ t[j].address # s[i].address
    BY <1>1, <1>2, <1>3, <1>4, <1>9, ItemType
  <2>2. ASSUME NEW j \in DOMAIN s, s[j].address # s[i].address
        PROVE  \E k \in DOMAIN t : t[k].address = s[j].address
    <3>1. Is(j) \in DOMAIN t /\ t[Is(j)] = s[j]
      BY <1>1, <1>2, <1>3, <1>5, <2>2
    <3> QED
      BY <3>1
  <2> QED
    BY <2>1, <2>2 DEF Addresses
<1>11. AccountList(t)
  BY <1>2, <1>7, <1>8 DEF AccountList
<1>12. None \notin Address
  BY AccountAssumption
<1>13. ActiveOf(t) = IF ActiveOf(s) = s[i].address THEN None ELSE ActiveOf(s)
  <2>1. CASE \E j \in 1 .. Len(s) : s[j].is_active /\ j # i
    <3>1. PICK j \in 1 .. Len(s) : s[j].is_active /\ j # i
      BY <2>1
    <3>2. ActiveOf(s) = s[j].address /\ ActiveOf(s) # s[i].address
      BY <1>1, <1>9, <3>1, ActiveFound
    <3>3. t[Is(j)] = s[j] /\ Is(j) \in DOMAIN t
      BY <1>2, <1>3, <1>5, <3>1
    <3>4. ActiveOf(t) = s[j].address
      BY <1>11, <3>1, <3>3, ActiveFound
    <3> QED
      BY <3>2, <3>4
  <2>2. CASE \A j \in 1 .. Len(s) : j # i => ~s[j].is_active
    <3>1. \A j \in DOMAIN t : ~t[j].is_active
      BY <1>2, <1>3, <1>4, <2>2
    <3>2. ActiveOf(t) = None
      BY <1>11, <3>1, ActiveFound
    <3>3. ActiveOf(s) = s[i].address \/ ActiveOf(s) = None
      BY <1>1, <2>2, ActiveFound
    <3> QED
      BY <3>2, <3>3
  <2> QED
    BY <2>1, <2>2
<1> QED
  BY <1>10, <1>11, <1>13 DEF t

-----------------------------------------------------------------------------
(* Types, and one active account *)

\* Every list of accounts, in the file, in memory, or about to be saved.
Lists == {file.accounts, accounts} \cup {data[w] : w \in Writer}

Generates(t) == step[t] = "generate"

\* The address of a login is in no list before the login has loaded the file.
ListsGood ==
  \A s \in Lists :
    /\ AccountList(s)
    /\ Addresses(s) \subseteq used
    /\ \A t \in Login : Generates(t) => subject[t] \notin Addresses(s)

StepsGood ==
  /\ ~Generates(Loop)
  /\ \A w \in Writer : ~Resting(w) => subject[w] \in Address
  /\ \A t \in Login : Generates(t) => subject[t] \in used
  /\ \A t, u \in Login : Generates(t) /\ Generates(u) /\ subject[t] = subject[u] => t = u

ListInv == TypeOK /\ StepsGood /\ ListsGood

\* A step adds one list, and no login but those that generated keys before does.
LEMMA ListsAdded ==
  ASSUME ListInv, NEW n, AccountList(n), Addresses(n) \subseteq used,
         \A t \in Login : Generates(t)' => subject'[t] \notin Addresses(n),
         \A t \in Login : Generates(t)' => Generates(t) /\ subject'[t] = subject[t],
         used' = used,
         Lists' \subseteq Lists \cup {n}
  PROVE  ListsGood'
<1>. SUFFICES ASSUME NEW s \in Lists'
              PROVE  /\ AccountList(s) /\ Addresses(s) \subseteq used'
                     /\ \A t \in Login : Generates(t)' => subject'[t] \notin Addresses(s)
  BY DEF ListsGood
<1>1. CASE s \in Lists
  BY <1>1 DEF ListInv, ListsGood
<1>2. CASE s = n
  BY <1>2
<1> QED
  BY <1>1, <1>2

\* The lists of a step that loads, saves or forgets some.
LEMMA ListsKept ==
  ASSUME ListInv, used' = used, Lists' \subseteq Lists \cup {<<>>},
         \A t \in Login : Generates(t)' => Generates(t) /\ subject'[t] = subject[t]
  PROVE  ListsGood'
  BY ListsAdded, EmptyList

\* Each list is one of the lists.
LEMMA InLists ==
  ASSUME ListInv
  PROVE  /\ AccountList(file.accounts) /\ AccountList(accounts)
         /\ \A w \in Writer : AccountList(data[w])
         /\ Addresses(file.accounts) \subseteq used /\ Addresses(accounts) \subseteq used
         /\ ~Readable => file.accounts = <<>>
         /\ file.text \in {"json", "empty", "garbled"}
<1>1. \A s \in Lists : AccountList(s) /\ Addresses(s) \subseteq used
  BY DEF ListInv, ListsGood
<1>2. file \in AccountsFile
  BY DEF ListInv, TypeOK
<1> QED
  BY <1>1, <1>2 DEF Lists, AccountsFile, Readable

\* Saves and Ends keep types.
LEMMA WritingType ==
  ASSUME TypeOK, NEW w \in Writer,
         \/ \E s \in Seq(StoredAccount), a \in Address : Saves(w, s, a)
         \/ Ends(w)
  PROVE  /\ step' \in [Writer -> {"rest", "generate", "truncate", "write"}]
         /\ data' \in [Writer -> Seq(StoredAccount)]
         /\ subject' \in [Writer -> Address \cup {None}]
<1>1. ASSUME NEW s \in Seq(StoredAccount), NEW a \in Address, Saves(w, s, a)
      PROVE  /\ step' \in [Writer -> {"rest", "generate", "truncate", "write"}]
             /\ data' \in [Writer -> Seq(StoredAccount)]
             /\ subject' \in [Writer -> Address \cup {None}]
  BY <1>1 DEF TypeOK, Saves
<1>2. CASE Ends(w)
  <2>1. <<>> \in Seq(StoredAccount)
    BY EmptySeq
  <2> QED
    BY <1>2, <2>1 DEF TypeOK, Ends
<1> QED
  BY <1>1, <1>2

LEMMA FreshType ==
  ASSUME used \subseteq Address, used # Address
  PROVE  FreshAddress \in Address /\ FreshAddress \notin used
<1>1. \E a \in Address : a \notin used
  OBVIOUS
<1> QED
  BY <1>1 DEF FreshAddress

LEMMA ListInit == Init => ListInv
<1>. SUFFICES ASSUME Init PROVE ListInv
  OBVIOUS
<1>1. file \in AccountsFile /\ file.accounts = <<>>
  BY EmptySeq DEF Init, JsonFile, AccountsFile
<1>2. TypeOK
  BY <1>1, EmptySeq DEF Init, TypeOK
<1>3. \A s \in Lists : s = <<>>
  BY <1>1 DEF Init, Lists
<1>4. \A w \in Writer : Resting(w) /\ ~Generates(w)
  BY DEF Init, Resting, Generates
<1>5. StepsGood
  BY <1>4 DEF StepsGood, Writer
<1>6. ListsGood
  BY <1>3, <1>4, EmptyList DEF ListsGood, Writer
<1> QED
  BY <1>2, <1>5, <1>6 DEF ListInv

LEMMA ListStep == ListInv /\ [Next]_vars => ListInv'
<1>. SUFFICES ASSUME ListInv, [Next]_vars PROVE ListInv'
  OBVIOUS
<1>. TypeOK /\ StepsGood /\ ListsGood
  BY DEF ListInv
<1>. Loop \in Writer /\ Login \subseteq Writer /\ Loop \notin Login
  BY AccountAssumption DEF Writer
<1>1. ASSUME NEW t \in Login, StartLogin(t) PROVE ListInv'
  <2>. DEFINE a == FreshAddress
  <2>1. a \in Address /\ a \notin used
    BY <1>1, FreshType DEF StartLogin, TypeOK
  <2>. HIDE DEF a
  <2>2. /\ step' = [step EXCEPT ![t] = "generate"] /\ subject' = [subject EXCEPT ![t] = a]
        /\ used' = used \cup {a}
    BY <1>1 DEF StartLogin, a
  <2>3. TypeOK'
    <3>1. hasty' \in BOOLEAN
      BY <1>1 DEF StartLogin, NoteHaste, LoginPending, TypeOK
    <3>2. used' \subseteq Address
      BY <2>1, <2>2 DEF TypeOK
    <3> QED
      BY <1>1, <2>1, <2>2, <3>1, <3>2 DEF StartLogin, TypeOK
  <2>4. \A u \in Writer : u # t => step'[u] = step[u] /\ subject'[u] = subject[u]
    BY <2>2 DEF TypeOK
  <2>5. step'[t] = "generate" /\ subject'[t] = a
    BY <2>2 DEF TypeOK
  <2>6. StepsGood'
    BY <2>1, <2>2, <2>4, <2>5 DEF StepsGood, Generates, Resting
  <2>7. Lists' = Lists
    BY <1>1 DEF StartLogin, Lists
  <2>8. \A s \in Lists : a \notin Addresses(s)
    BY <2>1 DEF ListsGood
  <2>9. ListsGood'
    <3>1. ASSUME NEW s \in Lists
          PROVE  /\ AccountList(s) /\ Addresses(s) \subseteq used'
                 /\ \A u \in Login : step'[u] = "generate" => subject'[u] \notin Addresses(s)
      BY <2>2, <2>4, <2>5, <2>8 DEF ListsGood, Generates
    <3> QED
      BY <2>7, <3>1 DEF ListsGood, Generates
  <2> QED
    BY <2>3, <2>6, <2>9 DEF ListInv
<1>2. ASSUME NEW t \in Login, LoadForLogin(t) PROVE ListInv'
  <2>. DEFINE n == Append(Deactivated(Loaded), [address |-> subject[t], is_active |-> TRUE])
  <2>1. subject[t] \in Address /\ subject[t] \in used /\ Generates(t)
    BY <1>2 DEF LoadForLogin, StepsGood, Generates, TypeOK, Resting
  <2>2. AccountList(file.accounts) /\ subject[t] \notin Addresses(file.accounts)
    BY <2>1 DEF ListsGood, Lists
  <2>3. AccountList(n) /\ Addresses(n) = Addresses(file.accounts) \cup {subject[t]}
    BY <2>1, <2>2, ListWithLogin DEF Loaded
  <2>. HIDE DEF n
  <2>4. Saves(t, n, subject[t]) /\ UNCHANGED <<file, memory, key_rx, history>>
    BY <1>2 DEF LoadForLogin, n
  <2>5. TypeOK'
    BY <2>1, <2>3, <2>4, WritingType DEF TypeOK, AccountList, memory, history
  <2>6. /\ \A u \in Writer : u # t => step'[u] = step[u] /\ subject'[u] = subject[u]
        /\ step'[t] = "truncate" /\ subject'[t] = subject[t]
    BY <2>4 DEF Saves, TypeOK
  <2>7. StepsGood'
    BY <2>1, <2>4, <2>6 DEF StepsGood, Generates, Resting, history
  <2>8. Lists' \subseteq Lists \cup {n}
    BY <2>4 DEF Saves, Lists, TypeOK, memory
  <2>9. Addresses(n) \subseteq used
    BY <2>1, <2>3, InLists
  <2>10. \A u \in Login : Generates(u)' => Generates(u) /\ subject'[u] = subject[u] /\ u # t
    BY <2>6 DEF Generates
  <2>11. \A u \in Login : Generates(u)' => subject'[u] \notin Addresses(n)
    BY <2>1, <2>3, <2>10 DEF ListsGood, Lists, StepsGood
  <2>12. ListsGood'
    BY <2>3, <2>4, <2>8, <2>9, <2>10, <2>11, ListsAdded DEF history
  <2> QED
    BY <2>5, <2>7, <2>12 DEF ListInv
<1>3. ASSUME NEW t \in Login, FailLogin(t) PROVE ListInv'
  <2>1. Ends(t) /\ UNCHANGED <<file, memory, key_rx, history>>
    BY <1>3 DEF FailLogin
  <2>2. TypeOK'
    BY <2>1, WritingType DEF TypeOK, memory, history
  <2>3. /\ \A u \in Writer : u # t => step'[u] = step[u] /\ subject'[u] = subject[u]
        /\ step'[t] = "rest"
    BY <2>1 DEF Ends, TypeOK
  <2>4. StepsGood'
    BY <2>1, <2>3 DEF StepsGood, Generates, Resting, history
  <2>5. Lists' \subseteq Lists \cup {<<>>}
    BY <2>1 DEF Ends, Lists, TypeOK, memory
  <2>6. ListsGood'
    BY <2>1, <2>3, <2>5, ListsKept DEF Generates, history
  <2> QED
    BY <2>2, <2>4, <2>6 DEF ListInv
<1>4. CASE TakeKey
  <2>1. TypeOK'
    BY <1>4, HeadTailProperties DEF TakeKey, TypeOK, writing, history
  <2>2. Lists' = Lists /\ StepsGood'
    BY <1>4 DEF TakeKey, Lists, StepsGood, Generates, Resting, writing, history
  <2>3. ListsGood'
    BY <1>4, <2>2, ListsKept DEF TakeKey, Generates, writing, history
  <2> QED
    BY <2>1, <2>2, <2>3 DEF ListInv
<1>5. ASSUME NEW w \in Writer, Truncate(w) PROVE ListInv'
  <2>1. TypeOK'
    BY <1>5, EmptySeq DEF Truncate, Unreadable, AccountsFile, TypeOK, memory, history
  <2>2. \A u \in Writer : (Generates(u)' <=> Generates(u)) /\ (Resting(u)' <=> Resting(u))
    BY <1>5 DEF Truncate, Generates, Resting, TypeOK
  <2>3. Lists' \subseteq Lists \cup {<<>>}
    BY <1>5 DEF Truncate, Unreadable, Lists, memory
  <2>4. StepsGood'
    BY <1>5, <2>2 DEF Truncate, StepsGood, history
  <2>5. ListsGood'
    BY <1>5, <2>2, <2>3, ListsKept DEF Truncate, history
  <2> QED
    BY <2>1, <2>4, <2>5 DEF ListInv
<1>6. ASSUME NEW w \in Writer, WriteFile(w) PROVE ListInv'
  <2>1. subject[w] \in Address /\ data[w] \in Seq(StoredAccount)
    BY <1>6 DEF WriteFile, StepsGood, Resting, TypeOK
  <2>2. file' \in AccountsFile /\ file'.accounts \in {data[w], <<>>}
    BY <1>6, <2>1, EmptySeq DEF WriteFile, Contents, JsonFile, Unreadable, AccountsFile
  <2>3. Ends(w) /\ UNCHANGED <<memory, used, hasty, crashes>>
    BY <1>6 DEF WriteFile
  <2>4. key_rx' \in Seq(Address) /\ ledger' \subseteq Address
    <3>1. Append(key_rx, subject[w]) \in Seq(Address)
      BY <2>1, AppendProperties DEF TypeOK
    <3> QED
      BY <1>6, <2>1, <3>1 DEF WriteFile, TypeOK
  <2>5. TypeOK'
    BY <2>2, <2>3, <2>4, WritingType DEF TypeOK, memory
  <2>6. /\ \A u \in Writer : u # w => step'[u] = step[u] /\ subject'[u] = subject[u]
        /\ step'[w] = "rest"
    BY <2>3 DEF Ends, TypeOK
  <2>7. StepsGood'
    BY <2>3, <2>6 DEF StepsGood, Generates, Resting
  <2>8. Lists' \subseteq Lists \cup {<<>>}
    BY <2>2, <2>3 DEF Ends, Lists, TypeOK, memory
  <2>9. ListsGood'
    BY <2>3, <2>6, <2>8, ListsKept DEF Generates
  <2> QED
    BY <2>5, <2>7, <2>9 DEF ListInv
<1>7. CASE EnterActive \/ CloseList \/ NotConnected
  <2>1. TypeOK'
    BY <1>7 DEF EnterActive, CloseList, NotConnected, TypeOK, writing, history
  <2>2. Lists' = Lists /\ StepsGood' /\ used' = used /\ step' = step /\ subject' = subject
    BY <1>7 DEF EnterActive, CloseList, NotConnected, Lists, StepsGood, Generates, Resting,
                writing, history
  <2>3. ListsGood'
    BY <2>2, ListsKept DEF Generates
  <2> QED
    BY <2>1, <2>2, <2>3 DEF ListInv
<1>8. CASE OpenList \/ Connected
  <2>1. Loaded \in Seq(StoredAccount)
    BY InLists DEF Loaded, AccountList
  <2>2. TypeOK'
    <3>1. CASE OpenList
      <4>1. mode' \in {"auth", "auth_list", "session", "session_list"}
        BY <3>1 DEF OpenList
      <4> QED
        BY <2>1, <3>1, <4>1 DEF OpenList, TypeOK, writing, history
    <3>2. CASE Connected
      <4>1. attempts' \in Nat
        BY <3>2 DEF Connected, TypeOK
      <4> QED
        BY <2>1, <3>2, <4>1 DEF Connected, TypeOK, writing, history
    <3> QED
      BY <1>8, <3>1, <3>2
  <2>3. /\ Lists' \subseteq Lists /\ StepsGood'
        /\ used' = used /\ step' = step /\ subject' = subject
    BY <1>8 DEF OpenList, Connected, Lists, Loaded, StepsGood, Generates, Resting, writing,
                history
  <2>4. ListsGood'
    BY <2>3, ListsKept DEF Generates
  <2> QED
    BY <2>2, <2>3, <2>4 DEF ListInv
<1>9. ASSUME NEW i \in DOMAIN accounts, DeleteAccount(i) PROVE ListInv'
  <2>. DEFINE n == RemoveAt(accounts, i)
  <2>1. AccountList(n) /\ Addresses(n) \subseteq Addresses(accounts)
    BY InLists, ListWithout
  <2>2. accounts[i].address \in Address
    BY ItemType DEF TypeOK
  <2>3. Saves(Loop, n, accounts[i].address) /\ accounts' = n
    BY <1>9 DEF DeleteAccount
  <2>. HIDE DEF n
  <2>4. hasty' \in BOOLEAN /\ active_acc' \in Address \cup {None}
    BY <1>9 DEF DeleteAccount, NoteHaste, LoginPending, TypeOK
  <2>5. mode' \in {"auth", "auth_list", "session", "session_list"}
    BY <1>9 DEF DeleteAccount, ParentModes, TypeOK
  <2>6. UNCHANGED <<file, online, is_generating_keys, attempts, key_rx, used, ledger, crashes>>
    BY <1>9 DEF DeleteAccount
  <2>7. TypeOK'
    BY <2>1, <2>2, <2>3, <2>4, <2>5, <2>6, WritingType DEF TypeOK, AccountList
  <2>8. /\ \A u \in Writer : u # Loop => step'[u] = step[u] /\ subject'[u] = subject[u]
        /\ step'[Loop] = "truncate" /\ subject'[Loop] \in Address
    BY <2>2, <2>3 DEF Saves, TypeOK
  <2>9. StepsGood'
    BY <2>6, <2>8 DEF StepsGood, Generates, Resting
  <2>10. Lists' \subseteq Lists \cup {n}
    BY <2>3, <2>6 DEF Saves, Lists, TypeOK
  <2>11. Addresses(n) \subseteq used
    BY <2>1, InLists
  <2>12. \A t \in Login : Generates(t)' => subject'[t] \notin Addresses(n)
    BY <2>1, <2>8 DEF ListsGood, Lists, Generates
  <2>13. ListsGood'
    BY <2>1, <2>6, <2>8, <2>10, <2>11, <2>12, ListsAdded DEF Generates
  <2> QED
    BY <2>7, <2>9, <2>13 DEF ListInv
<1>10. ASSUME NEW i \in DOMAIN accounts, SwitchAccount(i) PROVE ListInv'
  <2>. DEFINE a == accounts[i].address
              n == Activated(Loaded, a)
  <2>1. a \in Address
    BY ItemType DEF TypeOK
  <2>2. hasty' \in BOOLEAN /\ attempts' \in Nat /\ online' \in BOOLEAN
    <3>1. NoteHaste /\ attempts' = attempts + 1 /\ online' = FALSE
      BY <1>10 DEF SwitchAccount
    <3>2. hasty' \in BOOLEAN
      BY <3>1 DEF NoteHaste, TypeOK
    <3>3. attempts' \in Nat
      BY <3>1 DEF TypeOK
    <3> QED
      BY <3>1, <3>2, <3>3
  <2>3. UNCHANGED <<file, accounts, mode, is_generating_keys, key_rx, used, ledger, crashes>>
    BY <1>10 DEF SwitchAccount
  <2>4. CASE Readable /\ a \in Addresses(Loaded)
    <3>1. AccountList(n) /\ Addresses(n) = Addresses(file.accounts)
      BY <2>4, InLists, ListSwitched DEF Loaded
    <3>2. Saves(Loop, n, a) /\ active_acc' = a
      BY <1>10, <2>4 DEF SwitchAccount
    <3>. HIDE DEF n, a
    <3>3. TypeOK'
      BY <2>1, <2>2, <2>3, <3>1, <3>2, WritingType DEF TypeOK, AccountList
    <3>4. /\ \A u \in Writer : u # Loop => step'[u] = step[u] /\ subject'[u] = subject[u]
          /\ step'[Loop] = "truncate" /\ subject'[Loop] \in Address
      BY <2>1, <3>2 DEF Saves, TypeOK
    <3>5. StepsGood'
      BY <2>3, <3>4 DEF StepsGood, Generates, Resting
    <3>6. Lists' \subseteq Lists \cup {n}
      BY <2>3, <3>2 DEF Saves, Lists, TypeOK
    <3>7. Addresses(n) \subseteq used
      BY <3>1, InLists
    <3>8. \A t \in Login : Generates(t)' => subject'[t] \notin Addresses(n)
      BY <3>1, <3>4 DEF ListsGood, Lists, Generates
    <3>9. ListsGood'
      BY <2>3, <3>1, <3>4, <3>6, <3>7, <3>8, ListsAdded DEF Generates
    <3> QED
      BY <3>3, <3>5, <3>9 DEF ListInv
  <2>5. CASE ~(Readable /\ a \in Addresses(Loaded))
    <3>1. UNCHANGED <<writing, active_acc>>
      BY <1>10, <2>5 DEF SwitchAccount
    <3>2. TypeOK'
      BY <2>2, <2>3, <3>1 DEF TypeOK, writing
    <3>3. Lists' = Lists /\ StepsGood'
      BY <2>3, <3>1 DEF Lists, StepsGood, Generates, Resting, writing
    <3>4. ListsGood'
      BY <2>3, <3>1, <3>3, ListsKept DEF Generates, writing
    <3> QED
      BY <3>2, <3>3, <3>4 DEF ListInv
  <2> QED
    BY <2>4, <2>5
<1>11. CASE Crash
  <2>1. AccountList(Loaded)
    BY InLists DEF Loaded
  <2>2. /\ accounts' = Loaded /\ active_acc' = ActiveOf(Loaded)
        /\ step' = [w \in Writer |-> "rest"] /\ data' = [w \in Writer |-> <<>>]
        /\ subject' = [w \in Writer |-> None] /\ key_rx' = <<>>
    BY <1>11 DEF Crash, Starts
  <2>3. active_acc' \in Address \cup {None}
    BY <2>1, <2>2, ActiveType
  <2>4. step' \in [Writer -> {"rest", "generate", "truncate", "write"}]
        /\ data' \in [Writer -> Seq(StoredAccount)]
        /\ subject' \in [Writer -> Address \cup {None}] /\ key_rx' \in Seq(Address)
    BY <2>2, EmptySeq
  <2>5. /\ mode' = "auth" /\ online' = TRUE /\ is_generating_keys' = FALSE /\ attempts' = 0
        /\ crashes' = crashes + 1 /\ UNCHANGED <<file, used, ledger, hasty>>
    BY <1>11 DEF Crash, Starts
  <2>6. accounts' \in Seq(StoredAccount)
    BY <2>1, <2>2 DEF AccountList
  <2>7. TypeOK'
    <3>1. crashes' \in Nat
      BY <2>5 DEF TypeOK
    <3> QED
      BY <2>3, <2>4, <2>5, <2>6, <3>1 DEF TypeOK
  <2>8. \A w \in Writer : step'[w] = "rest"
    BY <2>2
  <2>9. StepsGood'
    BY <2>8 DEF StepsGood, Generates, Resting
  <2>10. Lists' \subseteq Lists \cup {<<>>}
    BY <2>2, <2>5 DEF Lists, Loaded
  <2>11. ListsGood'
    BY <2>5, <2>8, <2>10, ListsKept DEF Generates
  <2> QED
    BY <2>7, <2>9, <2>11 DEF ListInv
<1>12. CASE UNCHANGED vars
  <2>1. TypeOK' /\ StepsGood' /\ Lists' = Lists
    BY <1>12 DEF vars, TypeOK, StepsGood, Generates, Resting, Lists, memory, writing, history
  <2>2. ListsGood'
    BY <1>12, <2>1, ListsKept DEF vars, Generates, writing, history
  <2> QED
    BY <2>1, <2>2 DEF ListInv
<1> QED
  BY <1>1, <1>2, <1>3, <1>4, <1>5, <1>6, <1>7, <1>8, <1>9, <1>10, <1>11, <1>12
     DEF Next, Keys, Results, LoginStep, Save

\* Every list keeps its type, and active_acc is an address that was found.
THEOREM StoreTypeCorrect == Spec => []TypeOK
<1>1. ListInv => TypeOK
  BY DEF ListInv
<1> QED
  BY <1>1, ListInit, ListStep, PTL DEF Spec

\* No file and no list ever has two active accounts, for any number of logins,
\* switches, deletions and crashes that overwrite each other's work.
THEOREM OneAccountActive == Spec => []OneActive
<1>1. ListInv => OneActive
  BY InLists DEF OneActive, AccountList
<1> QED
  BY <1>1, ListInit, ListStep, PTL DEF Spec
-----------------------------------------------------------------------------
(* One thing at a time: nothing is started before the last thing has ended *)

\* What the file is, or is about to be when the event loop is saving.
Source == IF Resting(Loop) THEN file.accounts ELSE data[Loop]

OneWrites == \A v, w \in Writer : ~Resting(v) /\ ~Resting(w) => v = w

TextInv ==
  /\ file.text # "garbled"
  /\ \A w \in Writer : step[w] = "write" => ~Readable

\* A file that no one is about to complete is what a crash left; then nothing of
\* it is in memory either, and nothing is saved any more.
TornInv ==
  ~Readable /\ (\A w \in Writer : step[w] # "write")
    => /\ crashes > 0
       /\ accounts = <<>> /\ active_acc = None
       /\ \A w \in Writer : step[w] # "truncate"

\* The file, and what is about to be saved, against the history.
LedgerInv ==
  /\ Readable => Addresses(file.accounts) = ledger
  /\ \A t \in Login :
       step[t] \in {"truncate", "write"} => Addresses(data[t]) = ledger \cup {subject[t]}
  /\ ~Resting(Loop) =>
       Addresses(data[Loop]) = ledger \ ({subject[Loop]} \ Addresses(data[Loop]))

\* The list in memory, and the active account, against the file.
MemoryInv ==
  ~LoginPending =>
    /\ Listing => Addresses(accounts) = Addresses(Source)
    /\ mode \in {"auth", "auth_list"} /\ online =>
         accounts = Source /\ ActiveOf(Source) = active_acc

\* A switch that still waits for its connection is the last thing there was.
AttemptInv == attempts > 0 => ~LoginPending /\ ActiveOf(Source) = active_acc

CalmParts ==
  OneWrites /\ TextInv /\ TornInv /\ LedgerInv /\ MemoryInv /\ AttemptInv

CalmInv == ListInv /\ (~hasty => CalmParts)

LEMMA CalmInit == Init => CalmInv
<1>. SUFFICES ASSUME Init PROVE CalmParts
  BY ListInit DEF CalmInv
<1>. Loop \in Writer /\ Login \subseteq Writer
  BY DEF Writer
<1>1. \A w \in Writer : Resting(w) /\ step[w] = "rest"
  BY DEF Init, Resting
<1>2. Readable /\ file.text = "json" /\ file.accounts = <<>>
  BY DEF Init, Readable, JsonFile
<1>3. Source = <<>> /\ ledger = {} /\ accounts = <<>> /\ active_acc = None /\ attempts = 0
  BY <1>1, <1>2 DEF Init, Source
<1>4. OneWrites /\ TextInv /\ TornInv
  BY <1>1, <1>2 DEF OneWrites, TextInv, TornInv
<1>5. LedgerInv
  BY <1>1, <1>2, <1>3, EmptyList DEF LedgerInv
<1>6. MemoryInv /\ AttemptInv
  BY <1>3, EmptyList DEF MemoryInv, AttemptInv
<1> QED
  BY <1>4, <1>5, <1>6 DEF CalmParts

\* Without haste there was none before, and what the user starts starts alone.
LEMMA HasteStays == [Next]_vars /\ ~hasty' => ~hasty
<1>. SUFFICES ASSUME [Next]_vars, hasty PROVE hasty'
  OBVIOUS
<1>1. CASE \/ EnterActive \/ OpenList \/ CloseList
           \/ \E t \in Login : StartLogin(t)
           \/ \E i \in DOMAIN accounts : DeleteAccount(i) \/ SwitchAccount(i)
  BY <1>1 DEF EnterActive, OpenList, CloseList, StartLogin, DeleteAccount, SwitchAccount,
              NoteHaste, history
<1>2. CASE TakeKey \/ Connected \/ NotConnected \/ Crash \/ UNCHANGED vars
  BY <1>2 DEF TakeKey, Connected, NotConnected, Crash, vars, history
<1>3. CASE \/ \E t \in Login : LoadForLogin(t) \/ FailLogin(t)
           \/ \E w \in Writer : Truncate(w) \/ WriteFile(w)
  BY <1>3 DEF LoadForLogin, FailLogin, Truncate, WriteFile, history
<1> QED
  BY <1>1, <1>2, <1>3 DEF Next, Keys, Results, LoginStep, Save

LEMMA Alone ==
  ASSUME ListInv, NoteHaste, ~hasty', Resting(Loop)
  PROVE  /\ attempts = 0 /\ ~LoginPending /\ key_rx = <<>>
         /\ \A w \in Writer : step[w] = "rest"
<1>1. ~(attempts > 0) /\ ~LoginPending
  BY DEF NoteHaste
<1>2. attempts = 0
  BY <1>1 DEF ListInv, TypeOK
<1>3. key_rx = <<>> /\ \A w \in Writer : step[w] = "rest"
  BY <1>1 DEF LoginPending, Resting, Writer
<1> QED
  BY <1>1, <1>2, <1>3

\* The user sees an account only when the file is whole.
LEMMA ListedIsThere ==
  ASSUME ListInv, CalmParts, ~LoginPending, Listing, NEW i \in DOMAIN accounts,
         \A w \in Writer : step[w] = "rest"
  PROVE  /\ Readable /\ Source = file.accounts
         /\ Addresses(accounts) = ledger /\ Addresses(file.accounts) = ledger
<1>1. Source = file.accounts
  BY DEF Source, Resting, Writer
<1>2. accounts # <<>>
  BY EmptySeq
<1>3. Readable
  BY <1>2 DEF CalmParts, TornInv
<1> QED
  BY <1>1, <1>3 DEF CalmParts, LedgerInv, MemoryInv
LEMMA CalmStep == CalmInv /\ [Next]_vars => CalmInv'
<1>. SUFFICES ASSUME CalmInv, [Next]_vars, ~hasty' PROVE CalmParts'
  BY ListStep DEF CalmInv
<1>. /\ ListInv /\ CalmParts /\ TypeOK
     /\ OneWrites /\ TextInv /\ TornInv /\ LedgerInv /\ MemoryInv /\ AttemptInv
  BY HasteStays DEF CalmInv, CalmParts, ListInv
<1>. Loop \in Writer /\ Login \subseteq Writer /\ Loop \notin Login
  BY AccountAssumption DEF Writer
<1>1. ASSUME NEW t \in Login, StartLogin(t) PROVE CalmParts'
  <2>1. attempts = 0 /\ \A w \in Writer : step[w] = "rest"
    BY <1>1, Alone DEF StartLogin
  <2>2. step' = [step EXCEPT ![t] = "generate"]
        /\ UNCHANGED <<file, data, accounts, active_acc, attempts, ledger, crashes>>
    BY <1>1 DEF StartLogin
  <2>3. step'[t] = "generate" /\ \A w \in Writer : w # t => step'[w] = "rest"
    BY <2>1, <2>2 DEF TypeOK
  <2>4. OneWrites' /\ TextInv' /\ TornInv'
    BY <2>1, <2>2, <2>3 DEF OneWrites, TextInv, TornInv, Resting, Readable
  <2>5. LedgerInv'
    BY <2>2, <2>3 DEF LedgerInv, Resting, Readable
  <2>6. MemoryInv' /\ AttemptInv'
    BY <2>1, <2>2, <2>3 DEF MemoryInv, AttemptInv, LoginPending, Resting
  <2> QED
    BY <2>4, <2>5, <2>6 DEF CalmParts
<1>2. ASSUME NEW t \in Login, LoadForLogin(t) PROVE CalmParts'
  <2>. DEFINE n == Append(Deactivated(Loaded), [address |-> subject[t], is_active |-> TRUE])
  <2>1. Readable /\ step[t] = "generate" /\ subject[t] \in Address
    BY <1>2 DEF LoadForLogin, ListInv, StepsGood, Resting
  <2>2. AccountList(file.accounts) /\ subject[t] \notin Addresses(file.accounts)
    BY <2>1 DEF ListInv, ListsGood, Lists, Generates
  <2>3. Addresses(n) = ledger \cup {subject[t]}
    BY <2>1, <2>2, ListWithLogin DEF Loaded, LedgerInv
  <2>. HIDE DEF n
  <2>4. Saves(t, n, subject[t]) /\ UNCHANGED <<file, memory, key_rx, history>>
    BY <1>2 DEF LoadForLogin, n
  <2>5. /\ \A w \in Writer : w # t => step[w] = "rest"
        /\ \A w \in Writer : w # t => step'[w] = "rest"
        /\ step'[t] = "truncate" /\ data'[t] = n /\ subject'[t] = subject[t]
    BY <2>1, <2>4 DEF OneWrites, Saves, Resting, TypeOK
  <2>6. attempts = 0
    BY <2>1 DEF AttemptInv, LoginPending, Resting, TypeOK
  <2>7. OneWrites' /\ TextInv' /\ TornInv'
    BY <2>1, <2>4, <2>5 DEF OneWrites, TextInv, TornInv, Resting, Readable
  <2>8. LedgerInv'
    BY <2>3, <2>4, <2>5 DEF LedgerInv, Resting, Readable, history
  <2>9. MemoryInv' /\ AttemptInv'
    BY <2>4, <2>5, <2>6 DEF MemoryInv, AttemptInv, LoginPending, Resting, memory
  <2> QED
    BY <2>7, <2>8, <2>9 DEF CalmParts
<1>3. ASSUME NEW t \in Login, FailLogin(t) PROVE CalmParts'
  <2>1. ~Readable /\ step[t] = "generate"
    BY <1>3 DEF FailLogin
  <2>2. Ends(t) /\ UNCHANGED <<file, memory, key_rx, history>>
    BY <1>3 DEF FailLogin
  <2>3. /\ \A w \in Writer : w # t => step[w] = "rest"
        /\ \A w \in Writer : step'[w] = "rest"
    BY <2>1, <2>2 DEF OneWrites, Ends, Resting, TypeOK
  <2>4. crashes > 0 /\ accounts = <<>> /\ active_acc = None /\ file.accounts = <<>>
    BY <2>1, <2>3, InLists DEF TornInv
  <2>5. attempts = 0
    BY <2>1 DEF AttemptInv, LoginPending, Resting, TypeOK
  <2>6. OneWrites' /\ TextInv' /\ TornInv'
    BY <2>1, <2>2, <2>3, <2>4 DEF OneWrites, TextInv, TornInv, Resting, Readable, memory, history
  <2>7. LedgerInv'
    BY <2>1, <2>2, <2>3 DEF LedgerInv, Resting, Readable
  <2>8. Source' = <<>> /\ accounts' = <<>> /\ active_acc' = None /\ attempts' = 0
    BY <2>2, <2>3, <2>4, <2>5 DEF Source, Resting, memory
  <2>9. MemoryInv' /\ AttemptInv'
    BY <2>8, EmptyList DEF MemoryInv, AttemptInv
  <2> QED
    BY <2>6, <2>7, <2>9 DEF CalmParts
<1>4. CASE TakeKey
  <2>1. LoginPending /\ mode' = "session"
        /\ UNCHANGED <<file, writing, accounts, active_acc, online, attempts, history>>
    BY <1>4 DEF TakeKey, LoginPending
  <2>2. attempts = 0
    BY <2>1 DEF AttemptInv, TypeOK
  <2>3. OneWrites' /\ TextInv' /\ TornInv' /\ LedgerInv'
    BY <2>1 DEF OneWrites, TextInv, TornInv, LedgerInv, Resting, Readable, writing, history
  <2>4. MemoryInv' /\ AttemptInv'
    BY <2>1, <2>2 DEF MemoryInv, AttemptInv, Listing
  <2> QED
    BY <2>3, <2>4 DEF CalmParts
<1>5. ASSUME NEW w \in Writer, Truncate(w) PROVE CalmParts'
  <2>1. /\ step[w] = "truncate" /\ file' = Unreadable("empty")
        /\ UNCHANGED <<data, subject, memory, key_rx, history>>
    BY <1>5 DEF Truncate
  <2>2. /\ step'[w] = "write"
        /\ \A u \in Writer : u # w => step'[u] = step[u] /\ step'[u] = "rest"
    BY <1>5, <2>1 DEF Truncate, OneWrites, Resting, TypeOK
  <2>3. \A u \in Writer : Resting(u)' <=> Resting(u)
    BY <2>1, <2>2 DEF Resting
  <2>4. ~Readable' /\ file'.text = "empty"
    BY <2>1 DEF Unreadable, Readable
  <2>5. OneWrites' /\ TextInv' /\ TornInv'
    BY <2>2, <2>3, <2>4 DEF OneWrites, TextInv, TornInv
  <2>6. LedgerInv'
    BY <2>1, <2>2, <2>3, <2>4 DEF LedgerInv, Resting, history
  <2>7. LoginPending' <=> LoginPending
    BY <2>1, <2>3 DEF LoginPending
  <2>8. ~LoginPending => Source' = Source
    <3>1. ASSUME ~LoginPending PROVE w = Loop
      BY <2>1, <3>1 DEF LoginPending, Resting, Writer
    <3> QED
      BY <2>1, <2>3, <3>1 DEF Source, Resting
  <2>9. MemoryInv' /\ AttemptInv'
    BY <2>1, <2>7, <2>8 DEF MemoryInv, AttemptInv, Listing, memory
  <2> QED
    BY <2>5, <2>6, <2>9 DEF CalmParts
<1>6. ASSUME NEW w \in Writer, WriteFile(w) PROVE CalmParts'
  <2>1. step[w] = "write" /\ Ends(w) /\ UNCHANGED <<memory, used, hasty, crashes>>
    BY <1>6 DEF WriteFile
  <2>2. file.text = "empty"
    BY <2>1, InLists DEF TextInv, Readable
  <2>3. file' = JsonFile(data[w])
    BY <1>6, <2>2 DEF WriteFile, Contents
  <2>4. file'.text = "json" /\ Readable' /\ file'.accounts = data[w]
    BY <2>3 DEF JsonFile, Readable
  <2>5. \A u \in Writer : step'[u] = "rest"
    BY <2>1 DEF OneWrites, Ends, Resting, TypeOK
  <2>6. OneWrites' /\ TextInv' /\ TornInv'
    BY <2>4, <2>5 DEF OneWrites, TextInv, TornInv, Resting
  <2>7. Addresses(data[w]) = ledger'
    <3>1. CASE w \in Login
      BY <1>6, <2>1, <3>1 DEF WriteFile, LedgerInv
    <3>2. CASE w = Loop
      BY <1>6, <2>1, <3>2 DEF WriteFile, LedgerInv, Resting
    <3> QED
      BY <3>1, <3>2 DEF Writer
  <2>8. LedgerInv'
    BY <2>4, <2>5, <2>7 DEF LedgerInv, Resting
  <2>9. CASE w \in Login
    <3>1. LoginPending /\ LoginPending'
      <4>1. key_rx' = Append(key_rx, subject[w])
        BY <1>6, <2>9 DEF WriteFile
      <4>2. subject[w] \in Address
        BY <2>1 DEF ListInv, StepsGood, Resting
      <4>3. key_rx' # <<>>
        BY <4>1, <4>2, AppendProperties, EmptySeq DEF TypeOK
      <4> QED
        BY <2>1, <2>9, <4>3 DEF LoginPending, Resting
    <3>2. MemoryInv' /\ AttemptInv'
      BY <2>1, <3>1 DEF MemoryInv, AttemptInv, memory
    <3> QED
      BY <2>6, <2>8, <3>2 DEF CalmParts
  <2>10. CASE w = Loop
    <3>1. Source' = Source /\ UNCHANGED key_rx
      BY <1>6, <2>1, <2>4, <2>5, <2>10 DEF WriteFile, Source, Resting
    <3>2. \A t \in Login : step[t] = "rest"
      BY <2>1, <2>10 DEF OneWrites, Resting
    <3>3. LoginPending' <=> LoginPending
      BY <2>5, <3>1, <3>2 DEF LoginPending, Resting
    <3>4. MemoryInv' /\ AttemptInv'
      BY <2>1, <3>1, <3>3 DEF MemoryInv, AttemptInv, Listing, memory
    <3> QED
      BY <2>6, <2>8, <3>4 DEF CalmParts
  <2> QED
    BY <2>9, <2>10 DEF Writer
<1>7. CASE EnterActive \/ CloseList \/ NotConnected
  <2>1. UNCHANGED <<file, writing, accounts, active_acc, online, key_rx, history>>
    BY <1>7 DEF EnterActive, CloseList, NotConnected
  <2>2. OneWrites' /\ TextInv' /\ TornInv' /\ LedgerInv'
    BY <2>1 DEF OneWrites, TextInv, TornInv, LedgerInv, Resting, Readable, writing, history
  <2>3. Source' = Source /\ (LoginPending' <=> LoginPending)
    BY <2>1 DEF Source, LoginPending, Resting, writing
  <2>4. Listing' => Listing
    BY <1>7 DEF EnterActive, CloseList, NotConnected, Listing
  <2>5. mode' \in {"auth", "auth_list"} => mode \in {"auth", "auth_list"}
    BY <1>7 DEF EnterActive, CloseList, NotConnected, Listing
  <2>6. MemoryInv'
    BY <2>1, <2>3, <2>4, <2>5 DEF MemoryInv
  <2>7. attempts' > 0 => attempts > 0
    BY <1>7 DEF EnterActive, CloseList, NotConnected, TypeOK
  <2>8. AttemptInv'
    BY <2>1, <2>3, <2>7 DEF AttemptInv
  <2> QED
    BY <2>2, <2>6, <2>8 DEF CalmParts
<1>8. CASE OpenList \/ Connected
  <2>1. /\ UNCHANGED <<file, writing, active_acc, key_rx, history>>
        /\ Resting(Loop) /\ accounts' = file.accounts
    BY <1>8 DEF OpenList, Connected, Loaded
  <2>2. ~Readable => file.accounts = <<>>
    BY InLists
  <2>3. OneWrites' /\ TextInv' /\ TornInv' /\ LedgerInv'
    BY <2>1, <2>2 DEF OneWrites, TextInv, TornInv, LedgerInv, Resting, Readable, writing, history
  <2>4. Source = file.accounts /\ Source' = Source /\ (LoginPending' <=> LoginPending)
    BY <2>1 DEF Source, LoginPending, Resting, writing
  <2>5. CASE OpenList
    <3>1. mode' \in {"auth", "auth_list"} => mode = "auth"
      BY <2>5 DEF OpenList
    <3>2. online' = online /\ attempts' = attempts
      BY <2>5 DEF OpenList
    <3>3. MemoryInv' /\ AttemptInv'
      BY <2>1, <2>4, <3>1, <3>2 DEF MemoryInv, AttemptInv
    <3> QED
      BY <2>3, <3>3 DEF CalmParts
  <2>6. CASE Connected
    <3>1. attempts > 0 /\ mode' = "auth"
      BY <2>6 DEF Connected
    <3>2. MemoryInv' /\ AttemptInv'
      BY <2>1, <2>4, <3>1 DEF MemoryInv, AttemptInv, Listing
    <3> QED
      BY <2>3, <3>2 DEF CalmParts
  <2> QED
    BY <1>8, <2>5, <2>6
<1>9. ASSUME NEW i \in DOMAIN accounts, DeleteAccount(i) PROVE CalmParts'
  <2>. DEFINE n == RemoveAt(accounts, i)
              a == accounts[i].address
  <2>1. attempts = 0 /\ ~LoginPending /\ \A w \in Writer : step[w] = "rest"
    BY <1>9, Alone DEF DeleteAccount
  <2>2. /\ Readable /\ Source = file.accounts
        /\ Addresses(accounts) = ledger /\ Addresses(file.accounts) = ledger
    BY <1>9, <2>1, ListedIsThere DEF DeleteAccount
  <2>3. /\ Addresses(n) = ledger \ {a}
        /\ ActiveOf(n) = IF ActiveOf(accounts) = a THEN None ELSE ActiveOf(accounts)
    BY <2>2, InLists, ListWithout
  <2>4. a \in ledger
    BY <2>2, ItemType DEF TypeOK
  <2>5. Saves(Loop, n, a) /\ accounts' = n
        /\ active_acc' = (IF active_acc = a THEN None ELSE active_acc)
        /\ mode' \in ParentModes
        /\ UNCHANGED <<file, online, attempts, key_rx, ledger, crashes>>
    BY <1>9 DEF DeleteAccount
  <2>. HIDE DEF n, a
  <2>6. /\ \A w \in Writer : w # Loop => step'[w] = "rest"
        /\ step'[Loop] = "truncate" /\ data'[Loop] = n /\ subject'[Loop] = a
    BY <2>1, <2>5 DEF Saves, TypeOK
  <2>7. OneWrites' /\ TextInv' /\ TornInv'
    BY <2>2, <2>5, <2>6 DEF OneWrites, TextInv, TornInv, Resting, Readable
  <2>8. LedgerInv'
    BY <2>2, <2>3, <2>4, <2>5, <2>6 DEF LedgerInv, Resting, Readable
  <2>9. Source' = n
    BY <2>6 DEF Source, Resting
  <2>10. mode' \in {"auth", "auth_list"} => mode = "auth_list"
    BY <1>9, <2>5 DEF ParentModes, DeleteAccount, Listing
  <2>11. MemoryInv' /\ AttemptInv'
    BY <2>1, <2>2, <2>3, <2>5, <2>9, <2>10 DEF MemoryInv, AttemptInv
  <2> QED
    BY <2>7, <2>8, <2>11 DEF CalmParts
<1>10. ASSUME NEW i \in DOMAIN accounts, SwitchAccount(i) PROVE CalmParts'
  <2>. DEFINE a == accounts[i].address
              n == Activated(Loaded, a)
  <2>1. attempts = 0 /\ ~LoginPending /\ \A w \in Writer : step[w] = "rest"
    BY <1>10, Alone DEF SwitchAccount
  <2>2. /\ Readable /\ Source = file.accounts
        /\ Addresses(accounts) = ledger /\ Addresses(file.accounts) = ledger
    BY <1>10, <2>1, ListedIsThere DEF SwitchAccount
  <2>3. a \in Addresses(file.accounts)
    BY <2>2, ItemType DEF TypeOK
  <2>4. Addresses(n) = ledger /\ ActiveOf(n) = a
    BY <2>2, <2>3, InLists, ListSwitched DEF Loaded
  <2>5. /\ Saves(Loop, n, a) /\ active_acc' = a /\ online' = FALSE
        /\ UNCHANGED <<file, accounts, mode, key_rx, ledger, crashes>>
    BY <1>10, <2>2, <2>3 DEF SwitchAccount, Loaded
  <2>. HIDE DEF n, a
  <2>6. /\ \A w \in Writer : w # Loop => step'[w] = "rest"
        /\ step'[Loop] = "truncate" /\ data'[Loop] = n /\ subject'[Loop] = a
    BY <2>1, <2>5 DEF Saves, TypeOK
  <2>7. OneWrites' /\ TextInv' /\ TornInv'
    BY <2>2, <2>5, <2>6 DEF OneWrites, TextInv, TornInv, Resting, Readable
  <2>8. LedgerInv'
    BY <2>2, <2>3, <2>4, <2>5, <2>6 DEF LedgerInv, Resting, Readable
  <2>9. Source' = n
    BY <2>6 DEF Source, Resting
  <2>10. ~LoginPending'
    BY <2>1, <2>5, <2>6 DEF LoginPending, Resting
  <2>11. MemoryInv' /\ AttemptInv'
    BY <2>2, <2>4, <2>5, <2>9, <2>10 DEF MemoryInv, AttemptInv
  <2> QED
    BY <2>7, <2>8, <2>11 DEF CalmParts
<1>11. CASE Crash
  <2>1. /\ accounts' = file.accounts /\ active_acc' = ActiveOf(file.accounts)
        /\ step' = [w \in Writer |-> "rest"] /\ attempts' = 0
        /\ crashes' = crashes + 1 /\ UNCHANGED <<file, ledger>>
    BY <1>11 DEF Crash, Starts, Loaded
  <2>2. \A w \in Writer : step'[w] = "rest"
    BY <2>1
  <2>3. crashes' > 0
    BY <2>1 DEF TypeOK
  <2>4. ~Readable => file.accounts = <<>>
    BY InLists
  <2>5. OneWrites' /\ TextInv' /\ TornInv'
    BY <2>1, <2>2, <2>3, <2>4, EmptyList DEF OneWrites, TextInv, TornInv, Resting, Readable
  <2>6. LedgerInv'
    BY <2>1, <2>2 DEF LedgerInv, Resting, Readable
  <2>7. Source' = file.accounts
    BY <2>1, <2>2 DEF Source, Resting
  <2>8. MemoryInv' /\ AttemptInv'
    BY <2>1, <2>7 DEF MemoryInv, AttemptInv
  <2> QED
    BY <2>5, <2>6, <2>8 DEF CalmParts
<1>12. CASE UNCHANGED vars
  BY <1>12 DEF vars, memory, writing, history, CalmParts, OneWrites, TextInv, TornInv, LedgerInv,
               MemoryInv, AttemptInv, Source, LoginPending, Listing, Resting, Readable
<1> QED
  BY <1>1, <1>2, <1>3, <1>4, <1>5, <1>6, <1>7, <1>8, <1>9, <1>10, <1>11, <1>12
     DEF Next, Keys, Results, LoginStep, Save

\* One thing at a time, the file holds what was saved and not deleted, for any
\* number of logins, switches, deletions and crashes between their steps.
THEOREM NothingIsLost == Spec => []NothingLost
<1>1. CalmInv => NothingLost
  BY DEF CalmInv, CalmParts, LedgerInv, NothingLost
<1> QED
  BY <1>1, CalmInit, CalmStep, PTL DEF Spec

\* One thing at a time, a file that does not parse is being written or was left
\* so by a crash.
THEOREM TornFileExplained == Spec => []TornByCrashOrHaste
<1>1. CalmInv => TornByCrashOrHaste
  BY DEF CalmInv, CalmParts, TornInv, TornByCrashOrHaste
<1> QED
  BY <1>1, CalmInit, CalmStep, PTL DEF Spec

\* One thing at a time, the title of the Auth screen names the account that Enter
\* logs in.
THEOREM TitleIsTrue == Spec => []TitleIsEntered
<1>1. CalmInv => TitleIsEntered
  BY DEF CalmInv, CalmParts, MemoryInv, TitleIsEntered
<1> QED
  BY <1>1, CalmInit, CalmStep, PTL DEF Spec
=============================================================================
