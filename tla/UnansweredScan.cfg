SPECIFICATION Spec
CONSTANTS
  r1 = r1
  r2 = r2
  t1 = t1
  t2 = t2
  dns = dns
  rdap = rdap
  record = record
  subdomain = subdomain
  expiry = expiry
  LimiterKeys <- MCModules
  MinInterval = 2
  Requests = {r1}
  ScanCallers = {r1}
  TargetIds = {t1, t2}
  Registry <- MCRegistry
  Keys <- MCKeys
  Batches <- DistinctBatches
  MaxRun = 1
  MaxTime = 2
  MaxRestarts = 0
INVARIANT
  StoredIsAnswered
CHECK_DEADLOCK FALSE
