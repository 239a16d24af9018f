SPECIFICATION FairSpec
CONSTANTS
  NItems = 3
  Disks <- MCDisks
  StubServices = {"net"}
  StubStops = {"u"}
  MaxCommands = 1
INVARIANTS
  DependencyOrder
  ScriptsCounted
  LeftBehind
PROPERTIES
  RunsThrough
CHECK_DEADLOCK FALSE
