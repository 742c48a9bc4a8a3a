CONSTANTS
  Conn = {c1, c2, c3}
  Name = {alice, bob}
  Key = {k1}
  PeerId = {p1}
  PeerIdOf <- MCPeerIdOf
  MsgId = {m1, m2}
  Requests = {"register", "send_message", "disconnect"}
  LinksBreak = TRUE
  OneSession = TRUE
  TTL = 1
  MaxTime = 0
  MaxChannel = 1
  MaxRestarts = 1
  None = None
SPECIFICATION Spec
SYMMETRY Symmetry
INVARIANTS IndexAccurate PresenceAccurate RoutedToOwner
PROPERTIES OvertakenOnlyWaiting
CHECK_DEADLOCK FALSE
