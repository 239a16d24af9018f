SPECIFICATION Spec
CONSTANTS
  Root = root
  sub = sub
  leaf = leaf
  a = a
  b = b
  c = c
  d = d
  NoJob = NoJob
  Jobs = {a, b}
  Mgrs = {root}
  Parent <- Chain
  Home <- Session
  Traits <- PlainTraits
  OtherEnabled <- Nobody
  OtherDisabled <- Nobody
  Later = {}
  Stimuli = {"start", "remove", "globalOnDemand"}
INVARIANT NoStalePointer
CHECK_DEADLOCK FALSE
