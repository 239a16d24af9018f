SPECIFICATION FairSpec
CONSTANTS
  Root = root
  sub = sub
  leaf = leaf
  a = a
  b = b
  c = c
  d = d
  NoJob = NoJob
  Jobs = {a, b, c, d}
  Mgrs = {root, sub, leaf}
  Parent <- Chain
  Home <- Session
  Traits <- ShutdownTraits
  OtherEnabled <- Nobody
  OtherDisabled <- Nobody
  Later = {c}
  Stimuli = {"remove", "subset", "logout", "shutdown"}
INVARIANTS
  NothingLeftBehind
PROPERTIES
  StopOrder
  ShutdownCompletes
CHECK_DEADLOCK FALSE
