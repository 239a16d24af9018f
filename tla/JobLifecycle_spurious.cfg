SPECIFICATION Spec
CONSTANTS
  Configs <- OnDemandConfigs
  ForkOutcomes = {"ok"}
  ExitOutcomes = {"ok", "killed"}
  Signals = {"TERM"}
  MayWedge = FALSE
  MaxMsgs = 1
  Stimuli = {"start"}
INVARIANTS
  OnlyDemandStarts
CHECK_DEADLOCK FALSE
