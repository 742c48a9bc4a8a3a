CONSTANTS
  Conn = {c1, c2}
  Name = {alice, bob}
  Key = {k1}
  PeerId = {p1}
  PeerIdOf <- MCPeerIdOf
  MsgId = {m1, m2}
  Requests = {"register", "send_message", "disconnect"}
  LinksBreak = FALSE
  OneSession = FALSE
  TTL = 1
  MaxTime = 1
  MaxChannel = 1
  MaxRestarts = 1
  None = None
SPECIFICATION Spec
SYMMETRY Symmetry
PROPERTIES KeepsCustody
CHECK_DEADLOCK FALSE
