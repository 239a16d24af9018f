SPECIFICATION Spec
CONSTANTS
  Root = "root"
  Mgrs <- TheMgrs
  Parent <- TheParent
  Kind <- TheKind
  Jobs <- AllJobs
  Casts <- TheCasts
  Offers <- AllOffers
  Visitors <- TheVisitors
  Legacy <- TheLegacy
  Imports <- TheImports
  Names = {"x", "y"}
  Asks <- TheAsks
  ResetNames = {"x", "y"}
  MaxPorts = 2
  Nobody = Nobody
INVARIANTS
  AliasesLead
CHECK_DEADLOCK FALSE
