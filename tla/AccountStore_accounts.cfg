CONSTANTS
  Address = {a1, a2, a3}
  Login = {t1, t2}
  Loop = Loop
  MaxAttempts = 1
  MaxCrashes = 1
  None = None
SPECIFICATION FairSpec
INVARIANTS TypeOK OneActive NothingLost TornByCrashOrHaste TitleIsEntered
PROPERTIES LoginEnds
