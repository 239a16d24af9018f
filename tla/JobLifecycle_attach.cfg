SPECIFICATION Spec
CONSTANTS
  Configs <- KeepAliveConfigs
  ForkOutcomes = {"ok", "noattach"}
  ExitOutcomes = {"ok", "killed"}
  Signals = {"TERM"}
  MayWedge = FALSE
  MaxMsgs = 0
  Stimuli = {"start"}
INVARIANTS
  KeptAlive
CHECK_DEADLOCK FALSE
