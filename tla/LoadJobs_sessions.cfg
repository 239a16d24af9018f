SPECIFICATION Spec
CONSTANTS
  Clients = {"c1", "c2"}
  Manager <- Aqua
  Managers = {"Background", "Aqua"}
  RootMgr = "Background"
  Labels = {"A", "B", "X"}
  Files = {"a", "b", "a2", "x", "y"}
  Plist <- MCPlist
  Scripts <- SessionScripts
  ReadOnly = {FALSE}
  MaxJobs = 4
  MayDie = {}
INVARIANTS
  StartedWhenLoaded
CHECK_DEADLOCK FALSE
