SPECIFICATION FairSpec
CONSTANTS
  AllDaemons = {"broker", "monitor"}
  Settings <- Various
  MaxFailures = 2
  MaxQuick = 2
  Slots = 2
CHECK_DEADLOCK FALSE
INVARIANT NoStrayProcess
PROPERTIES ExitEndsUnlessLost ComesBack
