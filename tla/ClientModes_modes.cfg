CONSTANTS
  Account = {alice, bob}
  Conn = {c1, c2}
  MaxAttempts = 2
  None = None
SPECIFICATION Spec
SYMMETRY Symmetry
INVARIANTS TypeOK NoGhost SessionOnServer TypedHere
