CONSTANTS
  c1 = c1
  c2 = c2
  k1 = k1
  k2 = k2
  k3 = k3
  alice = alice
  alice2 = alice2
  bob = bob
  Client = {c1, c2}
  Conn = {k1, k2}
  Owner <- MCOwner
  Account = {alice, bob}
  Home <- MCHome
  Contacts <- MCContacts
  Leader = {c1, c2}
  HistoryLimit = 50
  MaxTexts = 2
  MaxOpens = 2
  MaxPending = 1
  MaxLogins <- MCOneLogin
  Roaming = {}
  None = None
SPECIFICATION Spec
PROPERTIES FallbackAfterFailure
CHECK_DEADLOCK FALSE
