CONSTANTS
  Conn = {c1, c2}
  Name = {alice}
  Key = {k1, k2, k3}
  PeerId = {p1, p2}
  PeerIdOf <- MCPeerIdOf
  MsgId = {m1}
  Requests = {"register", "get_public_key", "check_status", "disconnect"}
  LinksBreak = FALSE
  OneSession = FALSE
  TTL = 1
  MaxTime = 1
  MaxChannel = 1
  MaxRestarts = 0
  None = None
SPECIFICATION Spec
SYMMETRY Symmetry
INVARIANTS KeyFitsAddress
PROPERTIES EntriesPersist
CHECK_DEADLOCK FALSE
