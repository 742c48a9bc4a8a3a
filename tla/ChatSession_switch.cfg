CONSTANTS
  c1 = c1
  c2 = c2
  k1 = k1
  k2 = k2
  k3 = k3
  alice = alice
  alice2 = alice2
  bob = bob
  Client = {c1, c2}
  Conn = {k1, k2, k3}
  Owner <- MCOwner
  Account = {alice, alice2, bob}
  Home <- MCHome
  Contacts <- MCContacts
  Leader = {c1, c2}
  HistoryLimit = 0
  MaxTexts = 1
  MaxOpens = 2
  MaxPending = 2
  MaxLogins <- MCLogins
  Roaming = {c1}
  None = None
SPECIFICATION Spec
INVARIANTS TypeOK  KeyStaysBetweenPair ReadInRightChat
SYMMETRY MCAlike
CHECK_DEADLOCK FALSE
