CONSTANTS
  Conn = {c1, c2, c3}
  Name = {alice, bob}
  Key = {k1}
  PeerId = {p1}
  PeerIdOf <- MCPeerIdOf
  MsgId = {m1}
  Requests = {"register", "send_message", "disconnect"}
  LinksBreak = FALSE
  OneSession = FALSE
  TTL = 1
  MaxTime = 0
  MaxChannel = 1
  MaxRestarts = 0
  None = None
SPECIFICATION Spec
SYMMETRY Symmetry
INVARIANTS TypeOK NoStranded TargetStaysOffline AtMostOneCopy
CHECK_DEADLOCK FALSE
