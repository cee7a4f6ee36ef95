SPECIFICATION Spec
CONSTANTS
  r1 = r1
  domain = domain
  host = host
  a = a
  b = b
  c = c
  Readers = {r1}
  Targets = {domain, host}
  FindingIds = {a, b, c}
  TargetOf <- MCTargetOf
  Pairs <- MCPairs
  MaxLinks = 2
  MaxEvidence = 2
INVARIANTS
  TypeOK
  CountsInRange
  EvidenceNotBehind
  QuietAnswersExact
  RelationsTraceable
  ListingDescribed
CHECK_DEADLOCK FALSE
