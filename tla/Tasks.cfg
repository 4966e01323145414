CONSTANTS
  Changes = {"change 1", "change 2"}
  Upgrades = {"upgrade"}
  Settings <- Various
SPECIFICATION FairSpec
INVARIANT TasksRight
PROPERTY TasksEnd
