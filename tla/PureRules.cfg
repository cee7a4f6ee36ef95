SPECIFICATION Spec
CONSTANTS
  siteA = siteA
  site = site
  deep = deep
  deepA = deepA
  account = account
  address = address
  ip = ip
  none = none
  Info <- MCInfo
  MaxFindings = 5
  TTL = 3
  Skew = 1
  colon = colon
  NotAscii = NotAscii
  secret = secret
  letter = letter
  Characters <- MCCharacters
  Users <- MCUsers
  Texts <- MCTexts
  Times <- MCTimes
  Clock <- MCClock
  Secret <- MCSecret
  ApiKeys <- MCApiKeys
  Domain <- MCDomain
  RecordOutcomes <- MCRecordOutcomes
  Logs <- MCLogs
  RdapAnswers <- MCRdapAnswers
  Outputs <- MCOutputs
  Scope <- MCScope
  RecordTypes <- MCRecordTypes
  MaxSubdomains = 1
  star = "*"
  Failed = Failed
  Malformed = Malformed
  Noise = Noise
  alias = alias
  text = text
  john = john
  profile = profile
  page = page
  IPv4 = {ip}
  Addresses = {ip}
  SkipPrefixes = {profile}
  LongSegments = {}
INVARIANTS
  RulesMatchReference
  RepetitionHarmless
  AssertionsHonoured
  RepeatsOnlyBySpelling
  LeadsComplete
CHECK_DEADLOCK FALSE
