SPECIFICATION PartsSpec
CONSTANTS
  Operation = {"o1", "o2"}
  KindsTogether <- EveryKind
  MaxFaults = 1
  Script = {"a", "b"}
  Limited = {"a"}
  Attached = {"b"}
  Request = {"r1", "r2"}
  MaxCrashes = 2
  Mine = {"mine"}
  Theirs = {"landscape-a", "landscape-b"}
  MaxMessages = 3
  MaxBreaks = 1
  MaxEdits = 1
  Graph = {"g"}
  MaxVersions = 3
  MaxRuns = 3
  MaxRestarts = 1
  Package = {"a", "b", "f"}
  Version <- TheVersions
  PackageOf <- ThePackageOf
  None <- TheNone
  Available = {"a2", "b1"}
  Foreign = {"f"}
  Requests <- Several
  Machines <- TheMachines
  Begins <- OneOrBoth
  MaxTries = 2
  MaxEnds = 1
  MaxHolds = 1
INVARIANTS OneTrueAnswer ScriptsRight KeyOpens ValuesAreOfTheirScript NothingUnasked AnswerTrue
PROPERTIES OperationsAnswered ScriptsEnd ListsKept ChangeAnswered
CHECK_DEADLOCK FALSE
