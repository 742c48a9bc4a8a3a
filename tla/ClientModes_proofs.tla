------------------------- MODULE ClientModes_proofs -------------------------
(***************************************************************************)
(* Proofs about ClientModes for any accounts, connections and attempts:    *)
(* its types, what the server holds of the client, and what a line of      *)
(* input holds.                                                            *)
(***************************************************************************)
EXTENDS ClientModes, TLAPS

-----------------------------------------------------------------------------
(* Types *)

\* None is none of the values that it stands beside.
LEMMA NoneIsApart ==
  /\ None \notin Account /\ None \notin Conn /\ None \notin Mode
  /\ MaxAttempts \in Nat
  BY ModesAssumption

LEMMA RegisterType ==
  ASSUME TypeOK, NEW a \in Account, Register(a)
  PROVE  registers' \in [Conn -> Seq(Account)]
<1>1. CASE net_client \in open
  <2>1. net_client \in Conn /\ Append(registers[net_client], a) \in Seq(Account)
    BY <1>1 DEF TypeOK
  <2> QED
    BY <1>1, <2>1 DEF TypeOK, Register
<1>2. CASE net_client \notin open
  BY <1>2 DEF TypeOK, Register
<1> QED
  BY <1>1, <1>2

LEMMA NoteType ==
  ASSUME TypeOK, NEW slip \in Slip, NEW happened, Note(slip, happened)
  PROVE  slips' \subseteq Slip
  BY DEF TypeOK, Note

LEMMA TypeInit == Init => TypeOK
<1>. SUFFICES ASSUME Init PROVE TypeOK
  OBVIOUS
<1>1. mode \in Mode /\ attempts \in Nat /\ slips \subseteq Slip
  BY DEF Init, Mode
<1>2. accounts \subseteq Account /\ active_acc \in Account \cup {None}
  BY DEF Init
<1>3. session \in [Conn -> Account \cup {None}] /\ registers \in [Conn -> Seq(Account)]
  BY DEF Init
<1>4. /\ logins \subseteq Account /\ open \subseteq Conn
      /\ clients \in [Account -> Conn \cup {None}] /\ displaced \subseteq Account
  BY DEF Init
<1> QED
  BY <1>1, <1>2, <1>3, <1>4 DEF Init, TypeOK

LEMMA TypeStep == TypeOK /\ [Next]_vars => TypeOK'
<1>. SUFFICES ASSUME TypeOK, [Next]_vars PROVE TypeOK'
  OBVIOUS
<1>. USE DEF TypeOK
<1>1. ASSUME NEW c \in Conn, Connected(c) PROVE TypeOK'
  <2>1. attempts' \in Nat
    BY <1>1 DEF Connected
  <2>2. mode' \in Mode
    BY <1>1 DEF Connected, Mode
  <2> QED
    BY <1>1, <2>1, <2>2 DEF Connected, users
<1>2. CASE NotConnected
  <2>1. attempts' \in Nat
    BY <1>2 DEF NotConnected
  <2> QED
    BY <1>2, <2>1 DEF NotConnected, screen, users, net, served
<1>3. ASSUME NEW a \in Account, KeyGenerated(a) PROVE TypeOK'
  BY <1>3, RegisterType DEF KeyGenerated, served, Mode
<1>4. CASE TobyFoxEnds
  BY <1>4 DEF TobyFoxEnds, users, pending, net, served, Mode
<1>5. ASSUME NEW c \in Conn, BreakLink(c) PROVE TypeOK'
  BY <1>5 DEF BreakLink, screen, users, pending, served
<1>6. CASE Type
  BY <1>6, NoteType DEF Type, users, pending, net, served, Slip
<1>7. CASE Erase
  BY <1>7 DEF Erase, users, pending, net, served
<1>8. CASE Connect
  BY <1>8, NoteType DEF Connect, users, net, served, Slip
<1>9. CASE EnterActive
  BY <1>9, RegisterType, NoteType DEF EnterActive, pending, served, Mode, Slip
<1>10. ASSUME NEW a \in Account, StartLogin(a) PROVE TypeOK'
  BY <1>10, NoteType DEF StartLogin, screen, users, net, served, Slip
<1>11. CASE OpenDeleteAccount
  BY <1>11, NoteType DEF OpenDeleteAccount, users, pending, net, served, Mode, Slip
<1>12. CASE OpenDeleteContact
  BY <1>12 DEF OpenDeleteContact, users, pending, net, served, Mode
<1>13. ASSUME NEW a \in Account, DeleteAccount(a) PROVE TypeOK'
  BY <1>13 DEF DeleteAccount, Parent, pending, net, served, Mode
<1>14. ASSUME NEW a \in Account, SwitchAccount(a) PROVE TypeOK'
  BY <1>14, NoteType DEF SwitchAccount, screen, served, Slip
<1>15. ASSUME NEW m \in Mode, Walk(m) PROVE TypeOK'
  BY <1>15 DEF Walk, users, pending, net, served
<1>16. ASSUME NEW m \in Mode, WalkAfresh(m) PROVE TypeOK'
  BY <1>16 DEF WalkAfresh, users, pending, net, served
<1>17. CASE Restart
  BY <1>17 DEF Restart, served, Mode
<1>18. CASE UNCHANGED vars
  BY <1>18 DEF vars, screen, users, pending, net, served
<1>19. ASSUME NEW a \in Account, LoginFails(a) PROVE TypeOK'
  BY <1>19 DEF LoginFails, screen, users, net, served
<1>20. ASSUME NEW c \in Conn, ServeRegister(c) PROVE TypeOK'
  <2>1. Head(registers[c]) \in Account /\ Tail(registers[c]) \in Seq(Account)
    BY <1>20 DEF ServeRegister
  <2>2. displaced' \subseteq Account
    BY <1>20, <2>1 DEF ServeRegister, Displaced
  <2> QED
    BY <1>20, <2>1, <2>2 DEF ServeRegister, screen, users, pending
<1>21. ASSUME NEW c \in Conn, CleanUp(c) PROVE TypeOK'
  <2>1. displaced' \subseteq Account /\ clients' \in [Account -> Conn \cup {None}]
    BY <1>21 DEF CleanUp, Displaced
  <2> QED
    BY <1>21, <2>1 DEF CleanUp, screen, users, pending
<1> QED
  BY <1>1, <1>2, <1>3, <1>4, <1>5, <1>6, <1>7, <1>8, <1>9, <1>10, <1>11, <1>12, <1>13,
     <1>14, <1>15, <1>16, <1>17, <1>18, <1>19, <1>20, <1>21 DEF Next, Results, Keys

\* Every mode that a key or a result leads to is one, the one that DeleteAccount
\* returns to included, and no counter of pending work falls below zero.
THEOREM ModesTypeCorrect == Spec => []TypeOK
<1>1. Init => TypeOK
  BY TypeInit
<1>2. TypeOK /\ [Next]_vars => TypeOK'
  BY TypeStep
<1> QED
  BY <1>1, <1>2, PTL DEF Spec

-----------------------------------------------------------------------------
(* One session *)

Careful == {"overlapped", "raced"} \cap slips = {}

\* The screens before a session, and a DeleteAccount that returns to one.
Before == mode \in {"EnterServerIp", "Auth", "AuthSwitch"}
            \/ (mode = "DeleteAccount" /\ delete_parent_mode = None)

\* Of a careful user at most the connection in use is open, and none is while an
\* attempt is pending.
OneLink ==
  /\ open \subseteq {net_client}
  /\ attempts <= 1
  /\ attempts > 0 => net_client = None
  /\ mode = "EnterServerIp" => net_client = None

\* Connection c has to do with account a: a Register under way, the account that
\* its handler stands for, or an entry.
About(c, a) ==
  \/ \E i \in DOMAIN registers[c] : registers[c][i] = a
  \/ session[c] = a
  \/ clients[a] = c

\* Every connection is about one account at most, the one in use about the account
\* on screen and about none before a session; an entry's clean-up is its own.
OneClaim ==
  /\ \A c \in Conn : \A a, b \in Account : About(c, a) /\ About(c, b) => a = b
  /\ \A c \in Conn, a \in Account : clients[a] = c => session[c] = a
  /\ \A a \in Account : net_client \in Conn /\ About(net_client, a) =>
       a = account /\ ~Before /\ logins = {}
  /\ \A a, b \in logins : a = b

GhostInv == TypeOK /\ (Careful => OneLink /\ OneClaim)

\* What Note leaves of a careful past.
LEMMA Noted ==
  ASSUME TypeOK, NEW slip \in Slip, NEW happened \in BOOLEAN, Note(slip, happened), Careful'
  PROVE  /\ Careful
         /\ slip \in {"overlapped", "raced"} => ~happened
  BY DEF Note, Careful

\* The server's part of OneClaim, kept by steps that add nothing to it.
LEMMA QuietServer ==
  ASSUME OneClaim, UNCHANGED <<registers, session, clients>>,
         logins' \subseteq logins
  PROVE  /\ \A c \in Conn : \A a, b \in Account : About(c, a)' /\ About(c, b)' => a = b
         /\ \A c \in Conn, a \in Account : clients'[a] = c => session'[c] = a
         /\ \A c \in Conn, a \in Account : About(c, a)' => About(c, a)
         /\ \A a, b \in logins' : a = b
  BY DEF OneClaim, About

LEMMA QuietClaim ==
  ASSUME OneClaim, UNCHANGED <<registers, session, clients, net_client>>,
         logins' \subseteq logins, account' = account, Before' => Before
  PROVE  OneClaim'
  BY QuietServer DEF OneClaim

\* A first registration over the connection in use, if there is one.
LEMMA Registered ==
  ASSUME TypeOK, OneLink, OneClaim, NEW a \in Account, Register(a),
         Before \/ logins # {},
         UNCHANGED <<net_client, session, clients>>, account' = a, ~Before', logins' = {}
  PROVE  OneClaim'
<1>1. \A b \in Account : net_client \in Conn => ~About(net_client, b)
  BY DEF OneClaim
<1>2. ASSUME NEW c \in Conn, NEW b \in Account, About(c, b)'
      PROVE  About(c, b) \/ (c = net_client /\ b = a)
  <2>1. CASE net_client \in open
    <3>1. net_client \in Conn /\ registers[c] \in Seq(Account)
      BY <2>1 DEF TypeOK
    <3>2. registers'[c] = IF c = net_client THEN Append(registers[c], a) ELSE registers[c]
      BY <2>1, <3>1 DEF Register, TypeOK
    <3>3. ASSUME NEW i \in DOMAIN registers'[c], registers'[c][i] = b
          PROVE  About(c, b) \/ (c = net_client /\ b = a)
      BY <3>1, <3>2, <3>3 DEF About
    <3> QED
      BY <1>2, <3>3 DEF About
  <2>2. CASE net_client \notin open
    BY <1>2, <2>2 DEF Register, About
  <2> QED
    BY <2>1, <2>2
<1>3. \A c \in Conn : \A b, d \in Account : About(c, b)' /\ About(c, d)' => b = d
  BY <1>1, <1>2 DEF OneClaim
<1>4. \A c \in Conn, b \in Account : clients'[b] = c => session'[c] = b
  BY DEF OneClaim
<1>5. \A b \in Account : net_client' \in Conn /\ About(net_client, b)' => b = a
  BY <1>1, <1>2
<1> QED
  BY <1>3, <1>4, <1>5 DEF OneClaim, About

\* The server serves a Register: what a connection is about was known of it.
LEMMA RegisterServed ==
  ASSUME TypeOK, OneClaim, NEW c \in Conn, ServeRegister(c)
  PROVE  OneClaim'
<1>1. /\ registers[c] \in Seq(Account) /\ registers[c] # <<>>
      /\ Head(registers[c]) \in Account /\ Head(registers[c]) = registers[c][1]
      /\ 1 \in DOMAIN registers[c]
  BY DEF ServeRegister, TypeOK
<1>2. About(c, Head(registers[c]))
  BY <1>1 DEF About
<1>3. ASSUME NEW d \in Conn, NEW b \in Account, About(d, b)' PROVE About(d, b)
  <2>1. CASE \E i \in DOMAIN registers'[d] : registers'[d][i] = b
    <3>1. CASE d = c
      <4>1. registers'[c] = Tail(registers[c])
        BY DEF ServeRegister, TypeOK
      <4>2. PICK i \in DOMAIN Tail(registers[c]) : Tail(registers[c])[i] = b
        BY <2>1, <3>1, <4>1
      <4>3. i + 1 \in DOMAIN registers[c] /\ registers[c][i + 1] = b
        BY <1>1, <4>2
      <4> QED
        BY <3>1, <4>3 DEF About
    <3>2. CASE d # c
      BY <2>1, <3>2 DEF ServeRegister, TypeOK, About
    <3> QED
      BY <3>1, <3>2
  <2>2. CASE session'[d] = b
    BY <1>2, <2>2 DEF ServeRegister, TypeOK, About
  <2>3. CASE clients'[b] = d
    BY <1>2, <2>3 DEF ServeRegister, TypeOK, About
  <2> QED
    BY <1>3, <2>1, <2>2, <2>3 DEF About
<1>4. ASSUME NEW d \in Conn, NEW b \in Account, clients'[b] = d PROVE session'[d] = b
  <2>1. CASE b = Head(registers[c])
    BY <1>4, <2>1 DEF ServeRegister, TypeOK
  <2>2. CASE b # Head(registers[c])
    <3>1. clients[b] = d
      BY <1>4, <2>2 DEF ServeRegister, TypeOK
    <3>2. d # c
      BY <1>1, <1>2, <2>2, <3>1 DEF OneClaim, About
    <3> QED
      BY <3>1, <3>2 DEF ServeRegister, OneClaim, TypeOK
  <2> QED
    BY <2>1, <2>2
<1>5. (Before' => Before) /\ UNCHANGED <<net_client, account, logins>>
  BY DEF ServeRegister, Before, screen, users, pending
<1>6. \A d \in Conn : \A a, b \in Account : About(d, a)' /\ About(d, b)' => a = b
  BY <1>3 DEF OneClaim
<1>7. \A a \in Account : net_client \in Conn /\ About(net_client, a)' =>
        a = account /\ ~Before /\ logins = {}
  BY <1>3, <1>5 DEF OneClaim
<1> QED
  BY <1>4, <1>5, <1>6, <1>7 DEF OneClaim, About, Before

\* The clean-up of a connection takes its entry along.
LEMMA CleanedUp ==
  ASSUME TypeOK, OneClaim, NEW c \in Conn, CleanUp(c)
  PROVE  OneClaim'
<1>1. /\ registers' = [registers EXCEPT ![c] = <<>>]
      /\ session' = [session EXCEPT ![c] = None]
  BY DEF CleanUp
<1>2. /\ session[c] = None => clients' = clients
      /\ session[c] # None => clients' = [clients EXCEPT ![session[c]] = None]
  BY DEF CleanUp
<1>3. ASSUME NEW d \in Conn, NEW b \in Account, clients'[b] = d
      PROVE  clients[b] = d /\ d # c
  <2>1. clients[b] = d /\ b # session[c]
    BY <1>2, <1>3, NoneIsApart DEF TypeOK
  <2> QED
    BY <2>1 DEF OneClaim
<1>4. ASSUME NEW d \in Conn, NEW b \in Account, About(d, b)' PROVE About(d, b)
  <2>1. CASE \E i \in DOMAIN registers'[d] : registers'[d][i] = b
    BY <1>1, <2>1 DEF TypeOK, About
  <2>2. CASE session'[d] = b
    BY <1>1, <2>2, NoneIsApart DEF TypeOK, About
  <2>3. CASE clients'[b] = d
    BY <1>3, <2>3 DEF About
  <2> QED
    BY <1>4, <2>1, <2>2, <2>3 DEF About
<1>5. \A d \in Conn, b \in Account : clients'[b] = d => session'[d] = b
  BY <1>1, <1>3 DEF OneClaim, TypeOK
<1>6. (Before' => Before) /\ UNCHANGED <<net_client, account, logins>>
  BY DEF CleanUp, Before, screen, users, pending
<1>7. \A d \in Conn : \A a, b \in Account : About(d, a)' /\ About(d, b)' => a = b
  BY <1>4 DEF OneClaim
<1>8. \A a \in Account : net_client \in Conn /\ About(net_client, a)' =>
        a = account /\ ~Before /\ logins = {}
  BY <1>4, <1>6 DEF OneClaim
<1> QED
  BY <1>5, <1>6, <1>7, <1>8 DEF OneClaim, About, Before

LEMMA GhostInit == Init => GhostInv
<1>. SUFFICES ASSUME Init PROVE GhostInv
  OBVIOUS
<1>1. TypeOK
  BY TypeInit
<1>2. \A c \in Conn, a \in Account : ~About(c, a)
  BY NoneIsApart DEF Init, About
<1>3. \A c \in Conn, a \in Account : clients[a] # c
  BY NoneIsApart DEF Init
<1> QED
  BY <1>1, <1>2, <1>3 DEF Init, GhostInv, OneLink, OneClaim

LEMMA GhostStep == GhostInv /\ [Next]_vars => GhostInv'
<1>. SUFFICES ASSUME GhostInv, [Next]_vars PROVE GhostInv'
  OBVIOUS
<1>. TypeOK /\ TypeOK'
  BY TypeStep DEF GhostInv
<1>. SUFFICES ASSUME Careful' PROVE OneLink' /\ OneClaim'
  BY DEF GhostInv
<1>1. ASSUME NEW c \in Conn, Connected(c) PROVE OneLink' /\ OneClaim'
  <2>1. OneLink /\ OneClaim
    BY <1>1 DEF Connected, Careful, GhostInv
  <2>2. net_client = None /\ open = {}
    BY <1>1, <2>1, NoneIsApart DEF Connected, OneLink, TypeOK
  <2>3. attempts' = 0
    BY <1>1, <2>1 DEF Connected, OneLink, TypeOK
  <2>4. \A a \in Account : ~About(c, a)
    BY <1>1, NoneIsApart DEF Connected, Unused, Idle, About
  <2>5. UNCHANGED <<registers, session, clients, logins>>
    BY <1>1 DEF Connected
  <2>6. \A d \in Conn, a \in Account : About(d, a)' => About(d, a)
    BY <2>1, <2>5, QuietServer
  <2>7. net_client' = c
    BY <1>1 DEF Connected
  <2>8. \A a \in Account : ~(net_client \in Conn /\ About(net_client, a))'
    BY <2>4, <2>6, <2>7
  <2>9. OneClaim'
    BY <2>1, <2>5, <2>8, QuietServer DEF OneClaim
  <2> QED
    BY <1>1, <2>2, <2>3, <2>9 DEF Connected, OneLink
<1>2. CASE NotConnected
  <2>1. OneLink /\ OneClaim
    BY <1>2 DEF NotConnected, Careful, GhostInv
  <2>2. attempts' <= 1 /\ (attempts' > 0 => attempts > 0)
    BY <1>2, <2>1 DEF NotConnected, OneLink, TypeOK
  <2>3. OneClaim'
    BY <1>2, <2>1, QuietClaim DEF NotConnected, Before, screen, users, net, served
  <2> QED
    BY <1>2, <2>1, <2>2, <2>3 DEF NotConnected, OneLink, screen, users, net
<1>3. ASSUME NEW a \in Account, KeyGenerated(a) PROVE OneLink' /\ OneClaim'
  <2>1. OneLink /\ OneClaim
    BY <1>3 DEF KeyGenerated, Careful, GhostInv
  <2>2. logins # {} /\ logins' = {} /\ ~Before'
    BY <1>3, <2>1 DEF KeyGenerated, OneClaim, Before
  <2>3. OneClaim'
    BY <1>3, <2>1, <2>2, Registered DEF KeyGenerated, served
  <2> QED
    BY <1>3, <2>1, <2>3 DEF KeyGenerated, OneLink
<1>4. CASE TobyFoxEnds
  <2>1. OneLink /\ OneClaim
    BY <1>4 DEF TobyFoxEnds, Careful, GhostInv
  <2>2. OneClaim'
    BY <1>4, <2>1, QuietClaim DEF TobyFoxEnds, Before, users, pending, net, served
  <2> QED
    BY <1>4, <2>1, <2>2 DEF TobyFoxEnds, OneLink, pending, net
<1>5. ASSUME NEW c \in Conn, BreakLink(c) PROVE OneLink' /\ OneClaim'
  <2>1. OneLink /\ OneClaim
    BY <1>5 DEF BreakLink, Careful, GhostInv
  <2>2. OneClaim'
    BY <1>5, <2>1, QuietClaim DEF BreakLink, Before, screen, users, pending, served
  <2> QED
    BY <1>5, <2>1, <2>2 DEF BreakLink, OneLink, screen, pending
<1>6. CASE Type
  <2>1. OneLink /\ OneClaim
    BY <1>6 DEF Type, Note, Careful, GhostInv
  <2>2. OneClaim'
    BY <1>6, <2>1, QuietClaim DEF Type, Before, users, pending, net, served
  <2> QED
    BY <1>6, <2>1, <2>2 DEF Type, OneLink, pending, net
<1>7. CASE Erase
  <2>1. OneLink /\ OneClaim
    BY <1>7 DEF Erase, Careful, GhostInv
  <2>2. OneClaim'
    BY <1>7, <2>1, QuietClaim DEF Erase, Before, users, pending, net, served
  <2> QED
    BY <1>7, <2>1, <2>2 DEF Erase, OneLink, pending, net
<1>8. CASE Connect
  <2>1. OneLink /\ OneClaim /\ ~(attempts > 0)
    BY <1>8 DEF Connect, Note, Careful, GhostInv
  <2>2. net_client = None /\ attempts' = 1
    BY <1>8, <2>1 DEF Connect, Press, OneLink, TypeOK
  <2>3. OneClaim'
    BY <1>8, <2>1, QuietClaim DEF Connect, Before, users, net, served
  <2> QED
    BY <1>8, <2>1, <2>2, <2>3 DEF Connect, OneLink, net
<1>9. CASE EnterActive
  <2>1. OneLink /\ OneClaim /\ logins = {}
    BY <1>9, Noted DEF EnterActive, GhostInv, Slip
  <2>2. Before /\ ~Before' /\ active_acc \in Account /\ logins' = {}
    BY <1>9, <2>1 DEF EnterActive, Press, Before, TypeOK, pending
  <2>3. OneClaim'
    BY <1>9, <2>1, <2>2, Registered DEF EnterActive, served
  <2> QED
    BY <1>9, <2>1, <2>3 DEF EnterActive, OneLink, pending
<1>10. ASSUME NEW a \in Account, StartLogin(a) PROVE OneLink' /\ OneClaim'
  <2>1. OneLink /\ OneClaim /\ logins = {}
    BY <1>10, Noted DEF StartLogin, GhostInv, Slip
  <2>2. Before /\ logins' = {a} /\ UNCHANGED <<registers, session, clients, net_client, account>>
    BY <1>10, <2>1 DEF StartLogin, Press, Before, users, net, served
  <2>3. \A d \in Conn, b \in Account : About(d, b)' => About(d, b)
    BY <2>2 DEF About
  <2>4. \A b \in Account : ~(net_client \in Conn /\ About(net_client, b))'
    BY <2>1, <2>2, <2>3 DEF OneClaim
  <2>5. OneClaim'
    BY <2>1, <2>2, <2>3, <2>4 DEF OneClaim
  <2> QED
    BY <1>10, <2>1, <2>5 DEF StartLogin, OneLink, screen, net
<1>11. CASE OpenDeleteAccount
  <2>1. OneLink /\ OneClaim
    BY <1>11, Noted DEF OpenDeleteAccount, GhostInv, Slip
  <2>2. Before' => Before
    BY <1>11, NoneIsApart DEF OpenDeleteAccount, Press, Before, Mode
  <2>3. OneClaim'
    BY <1>11, <2>1, <2>2, QuietClaim DEF OpenDeleteAccount, users, pending, net, served
  <2> QED
    BY <1>11, <2>1, <2>3 DEF OpenDeleteAccount, OneLink, pending, net
<1>12. CASE OpenDeleteContact
  <2>1. OneLink /\ OneClaim
    BY <1>12 DEF OpenDeleteContact, Careful, GhostInv
  <2>2. OneClaim'
    BY <1>12, <2>1, QuietClaim, NoneIsApart
       DEF OpenDeleteContact, Before, users, pending, net, served
  <2> QED
    BY <1>12, <2>1, <2>2 DEF OpenDeleteContact, OneLink, pending, net
<1>13. ASSUME NEW a \in Account, DeleteAccount(a) PROVE OneLink' /\ OneClaim'
  <2>1. OneLink /\ OneClaim
    BY <1>13 DEF DeleteAccount, Careful, GhostInv
  <2>2. Before' => Before
    BY <1>13 DEF DeleteAccount, Press, Parent, Before, TypeOK
  <2>3. mode' # "EnterServerIp"
    BY <1>13 DEF DeleteAccount, Parent, TypeOK
  <2>4. OneClaim'
    BY <1>13, <2>1, <2>2, QuietClaim DEF DeleteAccount, pending, net, served
  <2> QED
    BY <1>13, <2>1, <2>3, <2>4 DEF DeleteAccount, OneLink, pending, net
<1>14. ASSUME NEW a \in Account, SwitchAccount(a) PROVE OneLink' /\ OneClaim'
  <2>1. OneLink /\ OneClaim /\ ~(attempts > 0)
    BY <1>14 DEF SwitchAccount, Note, Careful, GhostInv
  <2>2. open' = {} /\ attempts' = 1 /\ net_client' = None
    BY <1>14, <2>1 DEF SwitchAccount, OneLink, TypeOK
  <2>3. UNCHANGED <<registers, session, clients, logins>>
    BY <1>14 DEF SwitchAccount, served
  <2>4. OneClaim'
    BY <2>1, <2>2, <2>3, QuietServer, NoneIsApart DEF OneClaim
  <2> QED
    BY <2>2, <2>4 DEF OneLink
<1>15. ASSUME NEW m \in Mode, Walk(m) PROVE OneLink' /\ OneClaim'
  <2>1. OneLink /\ OneClaim
    BY <1>15 DEF Walk, Careful, GhostInv
  <2>2. (Before' => Before) /\ mode' # "EnterServerIp"
    BY <1>15 DEF Walk, Leads, Parent, Before, TypeOK
  <2>3. OneClaim'
    BY <1>15, <2>1, <2>2, QuietClaim DEF Walk, users, pending, net, served
  <2> QED
    BY <1>15, <2>1, <2>2, <2>3 DEF Walk, OneLink, pending, net
<1>16. ASSUME NEW m \in Mode, WalkAfresh(m) PROVE OneLink' /\ OneClaim'
  <2>1. OneLink /\ OneClaim
    BY <1>16 DEF WalkAfresh, Careful, GhostInv
  <2>2. ~Before' /\ mode' # "EnterServerIp"
    BY <1>16 DEF WalkAfresh, Clears, Before
  <2>3. OneClaim'
    BY <1>16, <2>1, <2>2, QuietClaim DEF WalkAfresh, users, pending, net, served
  <2> QED
    BY <1>16, <2>1, <2>2, <2>3 DEF WalkAfresh, OneLink, pending, net
<1>17. CASE Restart
  <2>1. open' = {} /\ attempts' = 0 /\ logins' = {} /\ net_client' = None
    BY <1>17 DEF Restart
  <2>2. UNCHANGED <<registers, session, clients>>
    BY <1>17 DEF Restart, served
  <2>3. OneClaim'
    <3>1. CASE Careful
      BY <2>1, <2>2, <3>1, QuietServer, NoneIsApart DEF GhostInv, OneClaim
    <3>2. CASE ~Careful
      <4>1. \A c \in Conn : Idle(c)
        BY <1>17, <3>2 DEF Restart, Careful
      <4>2. \A c \in Conn, a \in Account : ~About(c, a)'
        BY <2>2, <4>1, NoneIsApart DEF Idle, About
      <4>3. \A c \in Conn, a \in Account : clients'[a] # c
        BY <2>2, <4>1 DEF Idle
      <4> QED
        BY <2>1, <4>2, <4>3, NoneIsApart DEF OneClaim
    <3> QED
      BY <3>1, <3>2
  <2> QED
    BY <2>1, <2>3 DEF OneLink
<1>18. CASE UNCHANGED vars
  <2>1. OneLink /\ OneClaim
    BY <1>18 DEF vars, Careful, GhostInv
  <2>2. OneClaim'
    BY <1>18, <2>1, QuietClaim DEF vars, Before, screen, users, pending, net, served
  <2> QED
    BY <1>18, <2>1, <2>2 DEF vars, OneLink, screen, pending, net
<1>19. ASSUME NEW a \in Account, LoginFails(a) PROVE OneLink' /\ OneClaim'
  <2>1. OneLink /\ OneClaim
    BY <1>19 DEF LoginFails, Careful, GhostInv
  <2>2. OneClaim'
    BY <1>19, <2>1, QuietClaim DEF LoginFails, Before, screen, users, net, served
  <2> QED
    BY <1>19, <2>1, <2>2 DEF LoginFails, OneLink, screen, net
<1>20. ASSUME NEW c \in Conn, ServeRegister(c) PROVE OneLink' /\ OneClaim'
  <2>1. OneLink /\ OneClaim
    BY <1>20 DEF ServeRegister, Careful, GhostInv
  <2>2. OneClaim'
    BY <1>20, <2>1, RegisterServed
  <2> QED
    BY <1>20, <2>1, <2>2 DEF ServeRegister, OneLink, screen, pending
<1>21. ASSUME NEW c \in Conn, CleanUp(c) PROVE OneLink' /\ OneClaim'
  <2>1. OneLink /\ OneClaim
    BY <1>21 DEF CleanUp, Careful, GhostInv
  <2>2. OneClaim'
    BY <1>21, <2>1, CleanedUp
  <2> QED
    BY <1>21, <2>1, <2>2 DEF CleanUp, OneLink, screen, pending
<1> QED
  BY <1>1, <1>2, <1>3, <1>4, <1>5, <1>6, <1>7, <1>8, <1>9, <1>10, <1>11, <1>12, <1>13,
     <1>14, <1>15, <1>16, <1>17, <1>18, <1>19, <1>20, <1>21 DEF Next, Results, Keys

\* A client whose user waits for attempts and logins leaves no entry behind that
\* a clean-up, whenever it comes and whatever was registered meanwhile, will not
\* take away.
THEOREM NoGhostSession == Spec => []NoGhost
<1>1. Init => GhostInv
  BY GhostInit
<1>2. GhostInv /\ [Next]_vars => GhostInv'
  BY GhostStep
<1>3. GhostInv => NoGhost
  <2>1. SUFFICES ASSUME GhostInv, Careful, NEW a \in Account, clients[a] # None
                 PROVE  \/ clients[a] = net_client /\ a = account
                        \/ clients[a] \notin open /\ session[clients[a]] = a
    BY DEF NoGhost, Careful
  <2>2. clients[a] \in Conn /\ OneLink /\ OneClaim
    BY <2>1 DEF GhostInv, TypeOK
  <2>3. CASE clients[a] = net_client
    BY <2>2, <2>3 DEF OneClaim, About
  <2>4. CASE clients[a] # net_client
    BY <2>2, <2>4 DEF OneLink, OneClaim
  <2> QED
    BY <2>3, <2>4
<1> QED
  BY <1>1, <1>2, <1>3, PTL DEF Spec

-----------------------------------------------------------------------------
(* The session behind the screen *)

\* A screen of a session, or a DeleteAccount that returns to one.
InSession == mode \in SessionMode \/ (mode = "DeleteAccount" /\ delete_parent_mode # None)

\* The account on screen has the entry of its address over the connection in use,
\* or will have it, or another connection's handler took it.
Reached ==
  \/ clients[account] = net_client
  \/ \E i \in DOMAIN registers[net_client] : registers[net_client][i] = account
  \/ account \in displaced

SessionClaimed ==
  InSession /\ net_client \in open /\ "strayed" \notin slips => account \in Account /\ Reached

SessionInv == TypeOK /\ SessionClaimed

\* A registration over a connection that is open is on its way.
LEMMA Arrives ==
  ASSUME TypeOK, NEW a \in Account, Register(a), UNCHANGED <<net_client, open>>,
         account' = a, net_client' \in open'
  PROVE  account' \in Account /\ Reached'
<1>1. net_client \in open /\ net_client \in Conn
  BY DEF TypeOK
<1>2. registers[net_client] \in Seq(Account)
  BY <1>1 DEF TypeOK
<1>3. registers'[net_client] = Append(registers[net_client], a)
  BY <1>1 DEF Register, TypeOK
<1>4. /\ Len(registers[net_client]) + 1 \in DOMAIN registers'[net_client]
      /\ registers'[net_client][Len(registers[net_client]) + 1] = a
  BY <1>2, <1>3
<1> QED
  BY <1>4 DEF Reached

\* Steps that touch neither the registrations nor what they depend on.
LEMMA QuietScreen ==
  ASSUME SessionClaimed, InSession' => InSession,
         UNCHANGED <<net_client, registers, clients, displaced, account>>,
         open' \subseteq open,
         "strayed" \in slips => "strayed" \in slips'
  PROVE  SessionClaimed'
  BY DEF SessionClaimed, Reached

\* The server reaches a Register: that of the account on screen gives it the entry,
\* and one that takes its entry away displaces it.
LEMMA ReachedServed ==
  ASSUME TypeOK, account \in Account, net_client \in Conn, Reached,
         NEW c \in Conn, ServeRegister(c)
  PROVE  Reached'
<1>1. /\ registers[c] \in Seq(Account) /\ registers[c] # <<>>
      /\ Head(registers[c]) \in Account /\ Head(registers[c]) = registers[c][1]
  BY DEF ServeRegister, TypeOK
<1>2. UNCHANGED <<net_client, account>>
  BY DEF ServeRegister, users
<1>3. clients' = [clients EXCEPT ![Head(registers[c])] = c]
  BY DEF ServeRegister
<1>4. displaced' = Displaced(Head(registers[c]), c)
  BY DEF ServeRegister
<1>5. CASE Head(registers[c]) = account
  <2>1. CASE c = net_client
    BY <1>1, <1>2, <1>3, <1>5, <2>1 DEF Reached, TypeOK
  <2>2. CASE c # net_client
    <3>1. CASE clients[account] = net_client \/ account \in displaced
      BY <1>2, <1>4, <1>5, <2>2, <3>1 DEF Reached, Displaced
    <3>2. CASE \E i \in DOMAIN registers[net_client] : registers[net_client][i] = account
      BY <1>2, <2>2, <3>2 DEF Reached, ServeRegister, TypeOK
    <3> QED
      BY <3>1, <3>2 DEF Reached
  <2> QED
    BY <2>1, <2>2
<1>6. CASE Head(registers[c]) # account
  <2>1. CASE clients[account] = net_client
    BY <1>1, <1>2, <1>3, <1>6, <2>1 DEF Reached, TypeOK
  <2>2. CASE account \in displaced
    BY <1>2, <1>4, <1>6, <2>2 DEF Reached, Displaced
  <2>3. CASE \E i \in DOMAIN registers[net_client] : registers[net_client][i] = account
    <3>1. CASE c # net_client
      BY <1>2, <2>3, <3>1 DEF Reached, ServeRegister, TypeOK
    <3>2. CASE c = net_client
      <4>1. PICK i \in DOMAIN registers[c] : registers[c][i] = account
        BY <2>3, <3>2
      <4>2. i - 1 \in DOMAIN Tail(registers[c]) /\ Tail(registers[c])[i - 1] = account
        BY <1>1, <1>6, <4>1
      <4>3. registers'[c] = Tail(registers[c])
        BY DEF ServeRegister, TypeOK
      <4> QED
        BY <1>2, <3>2, <4>2, <4>3 DEF Reached
    <3> QED
      BY <3>1, <3>2
  <2> QED
    BY <2>1, <2>2, <2>3 DEF Reached
<1> QED
  BY <1>5, <1>6

\* A clean-up that takes the entry of the account on screen displaces it.
LEMMA ReachedCleaned ==
  ASSUME TypeOK, account \in Account, net_client \in open, Reached,
         NEW c \in Conn, CleanUp(c)
  PROVE  Reached'
<1>1. /\ c # net_client /\ net_client \in Conn /\ net_client # None
      /\ UNCHANGED <<net_client, account>>
  BY NoneIsApart DEF CleanUp, users, TypeOK
<1>2. registers'[net_client] = registers[net_client]
  BY <1>1 DEF CleanUp, TypeOK
<1>3. CASE session[c] = None
  BY <1>1, <1>2, <1>3 DEF CleanUp, Reached
<1>4. CASE session[c] # None
  <2>1. /\ clients' = [clients EXCEPT ![session[c]] = None]
        /\ displaced' = Displaced(session[c], None)
    BY <1>4 DEF CleanUp
  <2>2. displaced \subseteq displaced'
    BY <1>1, <2>1 DEF Displaced
  <2>3. CASE session[c] = account
    BY <1>1, <1>2, <2>1, <2>2, <2>3 DEF Reached, Displaced
  <2>4. CASE session[c] # account
    BY <1>1, <1>2, <2>1, <2>2, <2>4 DEF Reached, TypeOK
  <2> QED
    BY <2>3, <2>4
<1> QED
  BY <1>3, <1>4

LEMMA SessionInit == Init => SessionInv
  BY TypeInit DEF Init, SessionInv, SessionClaimed

LEMMA SessionStep == SessionInv /\ [Next]_vars => SessionInv'
<1>. SUFFICES ASSUME SessionInv, [Next]_vars PROVE SessionInv'
  OBVIOUS
<1>. TypeOK /\ TypeOK' /\ SessionClaimed
  BY TypeStep DEF SessionInv
<1>. SUFFICES SessionClaimed'
  BY DEF SessionInv
<1>1. ASSUME NEW c \in Conn, Connected(c) PROVE SessionClaimed'
  BY <1>1 DEF Connected, SessionClaimed, InSession, SessionMode
<1>2. CASE NotConnected
  BY <1>2, QuietScreen DEF NotConnected, InSession, screen, users, net, served
<1>3. ASSUME NEW a \in Account, KeyGenerated(a) PROVE SessionClaimed'
  BY <1>3, Arrives DEF KeyGenerated, SessionClaimed
<1>4. CASE TobyFoxEnds
  BY <1>4, QuietScreen DEF TobyFoxEnds, InSession, SessionMode, users, pending, net, served
<1>5. ASSUME NEW c \in Conn, BreakLink(c) PROVE SessionClaimed'
  BY <1>5, QuietScreen DEF BreakLink, InSession, screen, users, served
<1>6. CASE Type
  BY <1>6, QuietScreen DEF Type, Note, InSession, users, pending, net, served
<1>7. CASE Erase
  BY <1>7, QuietScreen DEF Erase, InSession, users, pending, net, served
<1>8. CASE Connect
  BY <1>8, QuietScreen DEF Connect, Note, InSession, users, net, served
<1>9. CASE EnterActive
  <2>1. active_acc \in Account
    BY <1>9 DEF EnterActive, TypeOK
  <2> QED
    BY <1>9, <2>1, Arrives DEF EnterActive, SessionClaimed
<1>10. ASSUME NEW a \in Account, StartLogin(a) PROVE SessionClaimed'
  BY <1>10, QuietScreen DEF StartLogin, Note, InSession, screen, users, net, served
<1>11. CASE OpenDeleteAccount
  <2>1. CASE mode = "AuthSwitch" /\ delete_parent_mode # None
    BY <1>11, <2>1 DEF OpenDeleteAccount, Note, SessionClaimed
  <2>2. CASE ~(mode = "AuthSwitch" /\ delete_parent_mode # None)
    <3>1. InSession' => InSession
      BY <1>11, <2>2 DEF OpenDeleteAccount, Press, InSession, SessionMode
    <3> QED
      BY <1>11, <3>1, QuietScreen DEF OpenDeleteAccount, Note, users, pending, net, served
  <2> QED
    BY <2>1, <2>2
<1>12. CASE OpenDeleteContact
  BY <1>12, QuietScreen DEF OpenDeleteContact, Press, InSession, SessionMode, users, pending, net, served
<1>13. ASSUME NEW a \in Account, DeleteAccount(a) PROVE SessionClaimed'
  <2>1. InSession' => InSession
    BY <1>13 DEF DeleteAccount, Press, Parent, InSession, SessionMode
  <2> QED
    BY <1>13, <2>1, QuietScreen DEF DeleteAccount, pending, net, served
<1>14. ASSUME NEW a \in Account, SwitchAccount(a) PROVE SessionClaimed'
  <2>1. net_client' \notin open'
    BY <1>14, NoneIsApart DEF SwitchAccount, TypeOK
  <2> QED
    BY <2>1 DEF SessionClaimed
<1>15. ASSUME NEW m \in Mode, Walk(m) PROVE SessionClaimed'
  <2>1. InSession' => InSession
    BY <1>15 DEF Walk, Leads, Parent, InSession, SessionMode
  <2> QED
    BY <1>15, <2>1, QuietScreen DEF Walk, users, pending, net, served
<1>16. ASSUME NEW m \in Mode, WalkAfresh(m) PROVE SessionClaimed'
  <2>1. InSession' => InSession
    BY <1>16 DEF WalkAfresh, Clears, InSession, SessionMode
  <2> QED
    BY <1>16, <2>1, QuietScreen DEF WalkAfresh, users, pending, net, served
<1>17. CASE Restart
  BY <1>17 DEF Restart, SessionClaimed, InSession, SessionMode
<1>18. CASE UNCHANGED vars
  BY <1>18, QuietScreen DEF vars, InSession, screen, users, pending, net, served
<1>19. ASSUME NEW a \in Account, LoginFails(a) PROVE SessionClaimed'
  BY <1>19, QuietScreen DEF LoginFails, InSession, screen, users, net, served
<1>20. ASSUME NEW c \in Conn, ServeRegister(c) PROVE SessionClaimed'
  <2>1. /\ UNCHANGED <<open, net_client, account, slips>>
        /\ InSession' => InSession
    BY <1>20 DEF ServeRegister, InSession, screen, users
  <2> QED
    BY <1>20, <2>1, ReachedServed DEF SessionClaimed, TypeOK
<1>21. ASSUME NEW c \in Conn, CleanUp(c) PROVE SessionClaimed'
  <2>1. /\ UNCHANGED <<open, net_client, account, slips>>
        /\ InSession' => InSession
    BY <1>21 DEF CleanUp, InSession, screen, users
  <2> QED
    BY <1>21, <2>1, ReachedCleaned DEF SessionClaimed
<1> QED
  BY <1>1, <1>2, <1>3, <1>4, <1>5, <1>6, <1>7, <1>8, <1>9, <1>10, <1>11, <1>12, <1>13,
     <1>14, <1>15, <1>16, <1>17, <1>18, <1>19, <1>20, <1>21 DEF Next, Results, Keys

\* Behind a screen of a session on a working connection the server has the entry of
\* its account, or is about to, or let another connection's handler take it, whatever
\* overlapped or raced before.
THEOREM ScreenHasSession == Spec => []SessionOnServer
<1>1. Init => SessionInv
  BY SessionInit
<1>2. SessionInv /\ [Next]_vars => SessionInv'
  BY SessionStep
<1>3. SessionInv => SessionOnServer
  BY DEF SessionInv, SessionClaimed, Reached, InSession, SessionOnServer
<1> QED
  BY <1>1, <1>2, <1>3, PTL DEF Spec

-----------------------------------------------------------------------------
(* The line of input *)

\* The modes that lead to Auth by a key, which take its line of input along.
NearAuth == mode = "AuthSwitch" \/ (mode = "DeleteAccount" /\ delete_parent_mode = None)

\* A user who does not type ahead finds the line empty when a result comes.
LineKept ==
  /\ mode \in TextMode => input_buffer \in {mode, None}
  /\ NearAuth => input_buffer \in {"Auth", None}
  /\ attempts > 0 => input_buffer = None

LineInv == TypeOK /\ ("ahead" \notin slips => LineKept)

\* Only a restart forgets a slip.
LEMMA SlipsStay ==
  ASSUME [Next]_vars, ~Restart
  PROVE  slips \subseteq slips'
<1>1. CASE Results
  BY <1>1 DEF Results, Connected, NotConnected, KeyGenerated, LoginFails, TobyFoxEnds
<1>2. CASE Keys
  <2>1. CASE Type \/ Connect \/ EnterActive \/ OpenDeleteAccount
    BY <2>1 DEF Type, Connect, EnterActive, OpenDeleteAccount, Note
  <2>2. CASE Erase \/ OpenDeleteContact
    BY <2>2 DEF Erase, OpenDeleteContact
  <2>3. ASSUME NEW a \in Account, StartLogin(a) \/ DeleteAccount(a) \/ SwitchAccount(a)
        PROVE  slips \subseteq slips'
    BY <2>3 DEF StartLogin, DeleteAccount, SwitchAccount, Note
  <2>4. ASSUME NEW m \in Mode, Walk(m) \/ WalkAfresh(m) PROVE slips \subseteq slips'
    BY <2>4 DEF Walk, WalkAfresh
  <2> QED
    BY <1>2, <2>1, <2>2, <2>3, <2>4 DEF Keys
<1>3. ASSUME NEW c \in Conn, BreakLink(c) \/ ServeRegister(c) \/ CleanUp(c)
      PROVE  slips \subseteq slips'
  BY <1>3 DEF BreakLink, ServeRegister, CleanUp
<1>4. CASE UNCHANGED vars
  BY <1>4 DEF vars
<1> QED
  BY <1>1, <1>2, <1>3, <1>4 DEF Next

LEMMA LineInit == Init => LineInv
  BY TypeInit DEF Init, LineInv, LineKept, NearAuth

LEMMA LineStep == LineInv /\ [Next]_vars => LineInv'
<1>. SUFFICES ASSUME LineInv, [Next]_vars PROVE LineInv'
  OBVIOUS
<1>. TypeOK /\ TypeOK'
  BY TypeStep DEF LineInv
<1>. SUFFICES ASSUME "ahead" \notin slips' PROVE LineKept'
  BY DEF LineInv
<1>0. CASE Restart
  BY <1>0 DEF Restart, LineKept, NearAuth
<1>. SUFFICES ASSUME LineKept, ~Restart PROVE LineKept'
  BY <1>0, SlipsStay DEF LineInv
<1>1. ASSUME NEW c \in Conn, Connected(c) PROVE LineKept'
  BY <1>1 DEF Connected, LineKept, NearAuth, TypeOK
<1>2. CASE NotConnected
  BY <1>2 DEF NotConnected, LineKept, NearAuth, screen, TypeOK
<1>3. ASSUME NEW a \in Account, KeyGenerated(a) PROVE LineKept'
  BY <1>3 DEF KeyGenerated, LineKept
<1>4. CASE TobyFoxEnds
  BY <1>4 DEF TobyFoxEnds, LineKept, NearAuth, TextMode, pending
<1>5. ASSUME NEW c \in Conn, BreakLink(c) PROVE LineKept'
  BY <1>5 DEF BreakLink, LineKept, NearAuth, screen, pending
<1>6. CASE Type
  <2>1. ~(attempts > 0)
    BY <1>6 DEF Type, Note
  <2> QED
    BY <1>6, <2>1 DEF Type, LineKept, NearAuth, TextMode, pending
<1>7. CASE Erase
  BY <1>7 DEF Erase, LineKept
<1>8. CASE Connect
  BY <1>8 DEF Connect, LineKept
<1>9. CASE EnterActive
  BY <1>9 DEF EnterActive, LineKept
<1>10. ASSUME NEW a \in Account, StartLogin(a) PROVE LineKept'
  BY <1>10 DEF StartLogin, LineKept, NearAuth, screen
<1>11. CASE OpenDeleteAccount
  BY <1>11, NoneIsApart DEF OpenDeleteAccount, Press, LineKept, NearAuth, TextMode, Mode, pending
<1>12. CASE OpenDeleteContact
  BY <1>12 DEF OpenDeleteContact, LineKept, NearAuth, TextMode, pending
<1>13. ASSUME NEW a \in Account, DeleteAccount(a) PROVE LineKept'
  BY <1>13 DEF DeleteAccount, Press, Parent, LineKept, NearAuth, TextMode, TypeOK, pending
<1>14. ASSUME NEW a \in Account, SwitchAccount(a) PROVE LineKept'
  BY <1>14 DEF SwitchAccount, LineKept
<1>15. ASSUME NEW m \in Mode, Walk(m) PROVE LineKept'
  BY <1>15 DEF Walk, Leads, Parent, LineKept, NearAuth, TextMode, TypeOK, pending
<1>16. ASSUME NEW m \in Mode, WalkAfresh(m) PROVE LineKept'
  BY <1>16 DEF WalkAfresh, LineKept
<1>17. CASE UNCHANGED vars
  BY <1>17 DEF vars, LineKept, NearAuth, screen, pending
<1>18. ASSUME NEW a \in Account, LoginFails(a) PROVE LineKept'
  BY <1>18 DEF LoginFails, LineKept, NearAuth, screen
<1>19. ASSUME NEW c \in Conn, ServeRegister(c) \/ CleanUp(c) PROVE LineKept'
  BY <1>19 DEF ServeRegister, CleanUp, LineKept, NearAuth, screen, pending
<1> QED
  BY <1>1, <1>2, <1>3, <1>4, <1>5, <1>6, <1>7, <1>8, <1>9, <1>10, <1>11, <1>12, <1>13,
     <1>14, <1>15, <1>16, <1>17, <1>18, <1>19 DEF Next, Results, Keys

\* What was typed into one screen is never the text of another, for a user who
\* does not type while a connection is attempted.
THEOREM TextStaysHere == Spec => []TypedHere
<1>1. Init => LineInv
  BY LineInit
<1>2. LineInv /\ [Next]_vars => LineInv'
  BY LineStep
<1>3. LineInv => TypedHere
  BY DEF LineInv, LineKept, TypedHere
<1> QED
  BY <1>1, <1>2, <1>3, PTL DEF Spec
=============================================================================
