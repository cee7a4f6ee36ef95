SPECIFICATION Spec
CONSTANTS
  r1 = r1
  r2 = r2
  i1 = i1
  i2 = i2
  site = site
  sub = sub
  siteA = siteA
  siteMx = siteMx
  api = api
  subA = subA
  ip = ip
  mx = mx
  none = none
  Info <- MCInfo
  Requests = {r1, r2}
  Investigations = {i1}
  Batches <- MCBatches
  MaxLinks = 2
INVARIANT ReportedRelationsExist
CHECK_DEADLOCK FALSE
