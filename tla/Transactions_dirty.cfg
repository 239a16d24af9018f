SPECIFICATION FairSpec
CONSTANTS
    Handles = {h1, h2, h3}
    Enabler = enabler
    Flusher = flusher
    Exiter = exiter
    None = none
INVARIANTS
  Accounted
  DirtyKept
PROPERTIES
  ComesToRest
CHECK_DEADLOCK FALSE
