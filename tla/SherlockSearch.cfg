SPECIFICATION Spec
CONSTANTS
  first = first
  second = second
  reader = reader
  stranger = stranger
  alice = alice
  bob = bob
  Searchers <- MCSearchers
  Readers <- MCReaders
  Requests <- MCRequests
  UserOf <- MCUserOf
  Sites = {github, gitlab}
  PoolSize = 1
  MaxOverflow = 1
INVARIANTS
  TypeOK
  ConnectionsAccounted
  AnswersRetrievable
  ListedWhole
PROPERTY
  RequestsEnd
CHECK_DEADLOCK FALSE
