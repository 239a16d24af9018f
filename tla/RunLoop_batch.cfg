SPECIFICATION FairSpec
CONSTANTS
  Objs = {a, b}
  Untimed = {b}
  Fds = {f}
  BulkMax = 2
  Root = root
INVARIANTS
  BatchSound
  BusySound
PROPERTIES
  ExitsWhenIdle
CHECK_DEADLOCK FALSE
