CONSTANTS
  Peer = {p1, p2}
  MaxContacts = 2
  MaxAccounts = 2
  MaxFaults = 1
  MaxCrashes = 1
  None = None
SPECIFICATION Spec
SYMMETRY Symmetry
INVARIANTS TypeOK RemovesWhatExists ContactsAreSaved
PROPERTIES OnlyConfirmedLeave
