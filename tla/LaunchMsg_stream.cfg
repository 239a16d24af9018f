SPECIFICATION FairSpec
CONSTANTS
  t1 = t1
  t2 = t2
  Nobody = Nobody
  Threads = {t1, t2}
  Programs <- MCPrograms
  Sockets <- JobSockets
  Space = 3
  RecvMax = 2
INVARIANTS
  MessagesWhole
  DescriptorsOwned
PROPERTIES
  ExchangesEnd
CHECK_DEADLOCK FALSE
