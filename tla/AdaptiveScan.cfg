SPECIFICATION FairSpec
CONSTANTS
  start = start
  www = www
  john = john
  ip = ip
  MaxLeads = 2
  Targets <- MCTargets
  Supported <- MCSupported
  MayHang <- MCMayHang
  LeadLists <- MCLeadLists
  DepthLimit = 3
INVARIANTS
  TypeOK
  ScannedOnce
  ScansAllowed
  ShortestDepth
  LeadsAccounted
  CompleteCoverage
  HopsLinked
PROPERTY
  RequestEnds
CHECK_DEADLOCK FALSE
