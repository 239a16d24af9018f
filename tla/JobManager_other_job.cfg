SPECIFICATION Spec
CONSTANTS
  Root = root
  sub = sub
  leaf = leaf
  a = a
  b = b
  c = c
  d = d
  NoJob = NoJob
  Jobs = {a, b}
  Mgrs = {root}
  Parent <- Chain
  Home <- Session
  Traits <- PlainTraits
  OtherEnabled <- Nobody
  OtherDisabled <- BAboutA
  Later = {}
  Stimuli = {"start", "stop", "remove"}
INVARIANT KeptAliveByDisabled
CHECK_DEADLOCK FALSE
