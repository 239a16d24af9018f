SPECIFICATION FairSpec
CONSTANTS
  Configs <- LivenessConfigs
  ForkOutcomes = {"ok", "forkfail"}
  ExitOutcomes = {"ok", "crash", "killed", "jetClean"}
  Signals = {"TERM", "KILL"}
  MayWedge = FALSE
  MaxMsgs = 1
  Stimuli = {"stop", "remove", "shutdown", "send", "swapKeepAlive", "globalOnDemand"}
PROPERTIES
  EndingsComplete
  KeepAliveRestarts
  DemandServed
CHECK_DEADLOCK FALSE
