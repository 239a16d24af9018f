SPECIFICATION Spec
CONSTANTS
  Configs <- OnDemandConfigs
  ForkOutcomes = {"ok"}
  ExitOutcomes = {"ok", "killed"}
  Signals = {"TERM", "KILL"}
  MayWedge = TRUE
  MaxMsgs = 1
  Stimuli = {"start", "stop"}
INVARIANTS
  NeverWithoutRights
CHECK_DEADLOCK FALSE
