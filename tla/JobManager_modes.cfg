SPECIFICATION Spec
CONSTANTS
  Root = root
  sub = sub
  leaf = leaf
  a = a
  b = b
  c = c
  d = d
  NoJob = NoJob
  Jobs = {a, b, c, d}
  Mgrs = {root, sub}
  Parent <- Chain
  Home <- Session
  Traits <- ModeTraits
  OtherEnabled <- BAboutOthers
  OtherDisabled <- Nobody
  Later = {c}
  Stimuli = {"start", "stop", "remove", "globalOnDemand", "subset", "logout"}
INVARIANTS
  ModesCounted
  KeptAlive
CHECK_DEADLOCK FALSE
