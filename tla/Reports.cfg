SPECIFICATION Spec
CONSTANTS
  a = a
  b = b
  one = one
  Absent = Absent
  NotThere = NotThere
  Items = {a, b}
  Values = {one}
  Plugins <- DifferentPlugins
  Starts <- OneOfTwo
  MaxChanges = 2
  MaxResyncs = 1
  MaxFaults = 1
  MaxCalls = 2
PROPERTIES TellsTheTruth ServerIsTold
