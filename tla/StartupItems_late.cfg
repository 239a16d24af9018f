SPECIFICATION Spec
CONSTANTS
  NItems = 3
  Disks <- MCDisks
  StubServices = {"net"}
  StubStops = {"u"}
  MaxCommands = 1
INVARIANT
  AllStopped
CHECK_DEADLOCK FALSE
