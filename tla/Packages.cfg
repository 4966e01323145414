CONSTANTS
  Hash = {1, 2}
  Kinds = {"installed", "security"}
  NotCleared = {"security"}
  ServerKnows = {1}
  MaxUnknown = 1
  Settings <- Various
SPECIFICATION Spec
INVARIANT IdsRight
PROPERTY PackagesReported
