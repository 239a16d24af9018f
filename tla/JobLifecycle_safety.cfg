SPECIFICATION Spec
CONSTANTS
  Configs <- SafetyConfigs
  ForkOutcomes = {"ok", "forkfail"}
  ExitOutcomes = {"ok", "crash", "killed", "enoent", "ebadarch", "jetDirty"}
  Signals = {"TERM", "none"}
  MayWedge = TRUE
  MaxMsgs = 1
  Stimuli <- AllStimuli
INVARIANTS
  KernelAgrees
  NoLostWakeup
  KeptAlive
  RemovalWaitsForExit
  LivesApart
  RespawnOwnsRights
CHECK_DEADLOCK FALSE
