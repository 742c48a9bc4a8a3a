CONSTANTS
  c1 = c1
  c2 = c2
  k1 = k1
  k2 = k2
  k3 = k3
  alice = alice
  alice2 = alice2
  bob = bob
  Client = {c1, c2}
  Conn = {k1, k2}
  Owner <- MCOwner
  Account = {alice, bob}
  Home <- MCHome
  Contacts <- MCContacts
  Leader = {c1}
  HistoryLimit = 2
  MaxTexts = 3
  MaxOpens = 3
  MaxPending = 1
  MaxLogins <- MCOneLogin
  Roaming = {}
  None = None
SPECIFICATION FairSpec
INVARIANTS Readable ReadInOrder ScreenShowsConversation UnreadIsTheRest
PROPERTIES TextsArrive
CHECK_DEADLOCK FALSE
