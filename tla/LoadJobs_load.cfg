SPECIFICATION FairSpec
CONSTANTS
  Clients = {"c1", "c2"}
  Manager <- Background
  Managers = {"Background", "Aqua"}
  RootMgr = "Background"
  Labels = {"A", "B", "X"}
  Files = {"a", "b", "a2", "x", "y"}
  Plist <- MCPlist
  Scripts <- MCScripts
  ReadOnly = {FALSE, TRUE}
  MaxJobs = 8
  MayDie = {"c2"}
INVARIANTS
  StartedWhenLoaded
  JobsListed
PROPERTIES
  OverridesObeyed
  Served
CHECK_DEADLOCK FALSE
