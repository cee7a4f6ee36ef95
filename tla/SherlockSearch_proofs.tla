----------------------- MODULE SherlockSearch_proofs ------------------------
(***************************************************************************)
(* Proofs about the connection pool and the direct Sherlock endpoints, for  *)
(* any requests, sites, usernames and pool size.                            *)
(***************************************************************************)
EXTENDS SherlockSearch, FiniteSetTheorems, TLAPS

PoolInv == PoolTypeOK /\ Accounted

-----------------------------------------------------------------------------
(* The pool                                                                *)

\* The holders are finitely many, and taking or returning a connection changes
\* their number by one.
LEMMA HoldersCounted ==
  ASSUME PoolTypeOK
  PROVE  /\ Cardinality(holders) \in Nat
         /\ \A r \in Requests \ holders :
              Cardinality(holders \cup {r}) = Cardinality(holders) + 1
         /\ \A r \in holders : /\ Cardinality(holders \ {r}) = Cardinality(holders) - 1
                               /\ Cardinality(holders) > 0
<1>1. IsFiniteSet(holders)
  BY FS_Subset, PoolAssumption DEF PoolTypeOK
<1>2. Cardinality(holders) \in Nat
  BY <1>1, FS_CardinalityType
<1>3. ASSUME NEW r \in Requests \ holders
      PROVE  Cardinality(holders \cup {r}) = Cardinality(holders) + 1
  BY <1>1, FS_AddElement
<1>4. ASSUME NEW r \in holders
      PROVE  /\ Cardinality(holders \ {r}) = Cardinality(holders) - 1
             /\ Cardinality(holders) > 0
  <2>1. Cardinality(holders \ {r}) = Cardinality(holders) - 1
    BY <1>1, FS_RemoveElement
  <2>2. Cardinality(holders) # 0
    BY <1>1, FS_EmptySet
  <2> QED  BY <1>2, <2>1, <2>2
<1> QED  BY <1>2, <1>3, <1>4

\* Asking for a connection keeps the accounts.
LEMMA AcquireAccounted ==
  ASSUME PoolInv, NEW r \in Requests \ holders, Acquire(r)
  PROVE  /\ PoolInv'
         /\ holders' \in {holders, holders \cup {r}}
         /\ waiting' \subseteq waiting \cup {r}
<1>1. CASE TakeIdle(r)
  <2>1. Cardinality(holders') = Cardinality(holders) + 1 /\ Cardinality(holders) \in Nat
    BY <1>1, HoldersCounted DEF PoolInv, TakeIdle, Gets
  <2> QED  BY <1>1, <2>1, PoolAssumption
           DEF PoolInv, PoolTypeOK, Accounted, Open, TakeIdle, Gets
<1>2. CASE OpenNew(r)
  <2>1. Cardinality(holders') = Cardinality(holders) + 1 /\ Cardinality(holders) \in Nat
    BY <1>2, HoldersCounted DEF PoolInv, OpenNew, Gets
  <2> QED  BY <1>2, <2>1, PoolAssumption
           DEF PoolInv, PoolTypeOK, Accounted, Open, Full, OpenNew, Gets
<1>3. CASE StartWaiting(r)
  BY <1>3 DEF PoolInv, PoolTypeOK, Accounted, Open, StartWaiting
<1> QED  BY <1>1, <1>2, <1>3 DEF Acquire

\* Giving up keeps them.
LEMMA GiveUpAccounted ==
  ASSUME PoolInv, NEW r \in Requests, GiveUp(r)
  PROVE  PoolInv' /\ holders' = holders /\ waiting' = waiting \ {r}
BY DEF PoolInv, PoolTypeOK, Accounted, Open, GiveUp

\* Returning a connection keeps them: the queue is not overfilled, and when it is
\* full there is an overflow connection to close.
LEMMA ReleaseAccounted ==
  ASSUME PoolInv, NEW r \in Requests, Release(r)
  PROVE  PoolInv' /\ holders' = holders \ {r} /\ waiting' = waiting
<1>1. CASE r \notin holders
  <2>1. holders' = holders
    BY <1>1 DEF Release
  <2> QED  BY <1>1, <2>1 DEF PoolInv, PoolTypeOK, Accounted, Open, Release
<1>2. CASE r \in holders
  <2>1. /\ Cardinality(holders') = Cardinality(holders) - 1
        /\ Cardinality(holders) \in Nat /\ Cardinality(holders) > 0
    BY <1>2, HoldersCounted DEF PoolInv, Release
  <2>2. CASE idle < PoolSize
    BY <1>2, <2>1, <2>2, PoolAssumption DEF PoolInv, PoolTypeOK, Accounted, Open, Release
  <2>3. CASE ~(idle < PoolSize)
    BY <1>2, <2>1, <2>3, PoolAssumption DEF PoolInv, PoolTypeOK, Accounted, Open, Release
  <2> QED  BY <2>2, <2>3
<1> QED  BY <1>1, <1>2

LEMMA PoolStarts == PoolInit => PoolInv
BY PoolAssumption, FS_EmptySet DEF PoolInit, PoolInv, PoolTypeOK, Accounted, Open

LEMMA PoolRestarts == PoolReset => PoolInv'
BY PoolAssumption, FS_EmptySet DEF PoolReset, PoolInv, PoolTypeOK, Accounted, Open

LEMMA PoolUnchanged == PoolInv /\ UNCHANGED poolVars => PoolInv'
BY DEF PoolInv, PoolTypeOK, Accounted, Open, poolVars

-----------------------------------------------------------------------------
(* Types and connections                                                   *)

\* The accounts of requests: what a session may hold at each place.
HeldInv ==
  /\ \A r \in holders \cup waiting : Active(r)
  /\ \A r \in Requests : pc[r] \in {"running", "storing", "load"} => r \in holders

\* The types of the variables other than the pool's.
RequestTypes ==
  /\ pc \in [Requests -> Places]
  /\ \A s \in Searchers : pc[s] \notin {"select", "load"}
  /\ \A r \in Readers : pc[r] \in Ended \cup {"new", "select", "load"}
DataTypes ==
  /\ searches \in SUBSET Searchers
  /\ results \in [Searchers -> SUBSET Sites]
  /\ parsed \in [Searchers -> SUBSET Sites]
  /\ selected \in [Readers -> SUBSET Searchers]
  /\ lists \in [Readers -> [Searchers -> SUBSET Sites]]
  /\ known \in [Readers -> SUBSET Searchers]

LEMMA InvParts ==
  TypeOK /\ ConnectionsAccounted <=> PoolInv /\ HeldInv /\ RequestTypes /\ DataTypes
BY DEF TypeOK, ConnectionsAccounted, PoolInv, HeldInv, RequestTypes, DataTypes

\* How a request leaves a place: with the connections it had, without any, or by
\* failing.
LEMMA Moves ==
  ASSUME PoolInv, HeldInv, RequestTypes, NEW r \in Requests, NEW place \in Places,
         Goto(r, place), r \notin waiting,
         r \in Searchers => place \notin {"select", "load"},
         r \in Readers => place \in Ended \cup {"new", "select", "load"},
         \/ Release(r) /\ place \notin {"running", "storing", "load"}
         \/ /\ UNCHANGED poolVars
            /\ place \in {"running", "storing", "load"} => r \in holders
            /\ r \in holders => place \notin Ended \cup {"new"}
  PROVE  PoolInv' /\ HeldInv' /\ RequestTypes'
<1>1. PoolInv' /\ holders' \in {holders, holders \ {r}} /\ waiting' = waiting
  BY ReleaseAccounted, PoolUnchanged DEF poolVars
<1>2. RequestTypes'
  BY SearchAssumption DEF RequestTypes, Goto
<1>3. /\ pc'[r] = place
      /\ \A q \in Requests \ {r} : pc'[q] = pc[q]
  BY DEF RequestTypes, Goto
<1>4. holders \subseteq Requests /\ waiting \subseteq Requests
  BY DEF PoolInv, PoolTypeOK
<1>5. CASE Release(r) /\ place \notin {"running", "storing", "load"}
  <2>1. holders' = holders \ {r}
    BY <1>5, ReleaseAccounted
  <2> QED  BY <1>1, <1>2, <1>3, <1>4, <1>5, <2>1 DEF HeldInv, Active
<1>6. CASE /\ UNCHANGED poolVars
           /\ place \in {"running", "storing", "load"} => r \in holders
           /\ r \in holders => place \notin Ended \cup {"new"}
  <2>1. holders' = holders
    BY <1>6 DEF poolVars
  <2> QED  BY <1>1, <1>2, <1>3, <1>4, <1>6, <2>1 DEF HeldInv, Active
<1> QED  BY <1>5, <1>6

\* One step of anybody keeps types and accounts.
LEMMA ConnectionsStep ==
  ASSUME TypeOK, ConnectionsAccounted, [Next]_vars
  PROVE  TypeOK' /\ ConnectionsAccounted'
<1> PoolInv /\ HeldInv /\ RequestTypes /\ DataTypes
  BY InvParts
<1> SUFFICES PoolInv' /\ HeldInv' /\ RequestTypes' /\ DataTypes'
  BY InvParts DEF TypeOK, ConnectionsAccounted, PoolInv, HeldInv, RequestTypes, DataTypes
<1> USE SearchAssumption
<1>1. CASE UNCHANGED vars
  <2>1. PoolInv'
    BY <1>1, PoolUnchanged DEF vars
  <2> QED  BY <1>1, <2>1 DEF vars, poolVars, HeldInv, RequestTypes, DataTypes, Active
<1>2. ASSUME NEW r \in Requests, Connect(r)
      PROVE  PoolInv' /\ HeldInv' /\ RequestTypes' /\ DataTypes'
  <2>1. /\ PoolInv'
        /\ holders' \in {holders, holders \cup {r}}
        /\ waiting' \subseteq waiting \cup {r}
    BY <1>2, AcquireAccounted DEF Connect, NeedsConnection
  <2>2. Active(r)
    BY <1>2 DEF Connect, NeedsConnection, Active, Ended
  <2>3. UNCHANGED <<pc, rows, parsed, reading>>
    BY <1>2 DEF Connect
  <2> QED  BY <2>1, <2>2, <2>3 DEF rows, reading, HeldInv, RequestTypes, DataTypes, Active
<1>3. ASSUME NEW r \in Requests, NoConnection(r)
      PROVE  PoolInv' /\ HeldInv' /\ RequestTypes' /\ DataTypes'
  <2>1. PoolInv' /\ holders' = holders /\ waiting' = waiting \ {r} /\ r \notin holders
    BY <1>3, GiveUpAccounted DEF NoConnection, NeedsConnection
  <2>2. pc' = [pc EXCEPT ![r] = "failed"] /\ UNCHANGED <<rows, parsed, reading>>
    BY <1>3 DEF NoConnection, Goto
  <2>3. holders \subseteq Requests /\ waiting \subseteq Requests
    BY DEF PoolInv, PoolTypeOK
  <2>4. RequestTypes' /\ DataTypes'
    BY <2>2 DEF RequestTypes, DataTypes, rows, reading, Places, Ended
  <2>5. HeldInv'
    BY <2>1, <2>2, <2>3 DEF HeldInv, RequestTypes, Active, Ended
  <2> QED  BY <2>1, <2>4, <2>5
<1>4. ASSUME NEW s \in Searchers, BeginSearch(s)
      PROVE  PoolInv' /\ HeldInv' /\ RequestTypes' /\ DataTypes'
  <2>1. s \notin holders \cup waiting
    BY <1>4 DEF BeginSearch, HeldInv, Active
  <2>2. PoolInv' /\ HeldInv' /\ RequestTypes'
    BY <1>4, <2>1, Moves DEF BeginSearch, Places, Ended
  <2> QED  BY <1>4, <2>2 DEF BeginSearch, DataTypes, rows, reading
<1>5. ASSUME NEW s \in Searchers, InsertSearch(s)
      PROVE  PoolInv' /\ HeldInv' /\ RequestTypes' /\ DataTypes'
  <2>1. s \in holders /\ s \notin waiting
    BY <1>5 DEF InsertSearch, Connected, PoolInv, Accounted
  <2>2. PoolInv' /\ HeldInv' /\ RequestTypes'
    BY <1>5, <2>1, Moves DEF InsertSearch, Places, Ended
  <2> QED  BY <1>5, <2>2 DEF InsertSearch, DataTypes, reading
<1>6. ASSUME NEW s \in Searchers, Launch(s)
      PROVE  PoolInv' /\ HeldInv' /\ RequestTypes' /\ DataTypes'
  <2>1. s \in holders /\ s \notin waiting
    BY <1>6 DEF Launch, Connected, PoolInv, Accounted
  <2>2. PoolInv' /\ HeldInv' /\ RequestTypes'
    BY <1>6, <2>1, Moves DEF Launch, Fail, Places, Ended
  <2> QED  BY <1>6, <2>2 DEF Launch, DataTypes, rows, reading
<1>7. ASSUME NEW s \in Searchers, ProcessExits(s)
      PROVE  PoolInv' /\ HeldInv' /\ RequestTypes' /\ DataTypes'
  <2>1. s \in holders /\ s \notin waiting
    BY <1>7 DEF ProcessExits, HeldInv, PoolInv, Accounted
  <2>2. PoolInv' /\ HeldInv' /\ RequestTypes'
    BY <1>7, <2>1, Moves DEF ProcessExits, Fail, Places, Ended
  <2> QED  BY <1>7, <2>2 DEF ProcessExits, DataTypes, rows, reading
<1>8. ASSUME NEW s \in Searchers, StoreResults(s)
      PROVE  PoolInv' /\ HeldInv' /\ RequestTypes' /\ DataTypes'
  <2>1. s \in holders /\ s \notin waiting
    BY <1>8 DEF StoreResults, HeldInv, PoolInv, Accounted
  <2>2. PoolInv' /\ HeldInv' /\ RequestTypes'
    BY <1>8, <2>1, Moves DEF StoreResults, Places, Ended
  <2> QED  BY <1>8, <2>2 DEF StoreResults, Stored, DataTypes, reading
<1>9. ASSUME NEW r \in Readers, BeginReading(r)
      PROVE  PoolInv' /\ HeldInv' /\ RequestTypes' /\ DataTypes'
  <2>1. r \notin holders \cup waiting
    BY <1>9 DEF BeginReading, HeldInv, Active
  <2>2. PoolInv' /\ HeldInv' /\ RequestTypes'
    BY <1>9, <2>1, Moves DEF BeginReading, Places, Ended
  <2> QED  BY <1>9, <2>2 DEF BeginReading, DataTypes, rows
<1>10. ASSUME NEW r \in Readers, SelectSearches(r)
       PROVE  PoolInv' /\ HeldInv' /\ RequestTypes' /\ DataTypes'
  <2>1. r \in holders /\ r \notin waiting
    BY <1>10 DEF SelectSearches, Connected, PoolInv, Accounted
  <2>2. PoolInv' /\ HeldInv' /\ RequestTypes'
    BY <1>10, <2>1, Moves DEF SelectSearches, Fail, Places, Ended
  <2> QED  BY <1>10, <2>2 DEF SelectSearches, DataTypes, rows
<1>11. ASSUME NEW r \in Readers, LoadResults(r)
       PROVE  PoolInv' /\ HeldInv' /\ RequestTypes' /\ DataTypes'
  <2>1. r \in holders /\ r \notin waiting
    BY <1>11 DEF LoadResults, HeldInv, PoolInv, Accounted
  <2>2. PoolInv' /\ HeldInv' /\ RequestTypes'
    BY <1>11, <2>1, Moves DEF LoadResults, Fail, Places, Ended
  <2> QED  BY <1>11, <2>2 DEF LoadResults, DataTypes, rows
<1>12. CASE Restart
  <2>1. PoolInv' /\ holders' = {} /\ waiting' = {}
    BY <1>12, PoolRestarts DEF Restart, PoolReset
  <2>2. RequestTypes' /\ DataTypes'
    BY <1>12 DEF Restart, RequestTypes, DataTypes, rows, reading, Active, Places, Ended
  <2>3. HeldInv'
    BY <1>12, <2>1 DEF Restart, HeldInv, RequestTypes, Active, Places, Ended
  <2> QED  BY <2>1, <2>2, <2>3
<1> QED  BY <1>1, <1>2, <1>3, <1>4, <1>5, <1>6, <1>7, <1>8, <1>9, <1>10, <1>11, <1>12
         DEF Next, SearchStep, ReadStep, Session

LEMMA ConnectionsInit == Init => TypeOK /\ ConnectionsAccounted
<1> SUFFICES ASSUME Init PROVE TypeOK /\ ConnectionsAccounted
  OBVIOUS
<1>1. PoolInv
  BY PoolStarts DEF Init
<1>2. HeldInv
  BY DEF Init, PoolInit, HeldInv
<1>3. RequestTypes /\ DataTypes
  BY SearchAssumption DEF Init, RequestTypes, DataTypes, Places, Ended
<1> QED  BY <1>1, <1>2, <1>3, InvParts

\* TypeOK always holds.
THEOREM TypeCorrect == Spec => []TypeOK
<1> DEFINE Inv == TypeOK /\ ConnectionsAccounted
<1>1. Init => Inv
  BY ConnectionsInit
<1>2. Inv /\ [Next]_vars => Inv'
  BY ConnectionsStep
<1>3. Inv => TypeOK
  OBVIOUS
<1> QED  BY <1>1, <1>2, <1>3, PTL DEF Spec

\* No connection of the pool leaks, whatever fails, times out or is restarted
\* (ConnectionsAccounted), and the pool never exceeds what database.py:19-20 allows.
THEOREM ConnectionsAreAccounted == Spec => []ConnectionsAccounted
<1> DEFINE Inv == TypeOK /\ ConnectionsAccounted
<1>1. Init => Inv
  BY ConnectionsInit
<1>2. Inv /\ [Next]_vars => Inv'
  BY ConnectionsStep
<1>3. Inv => ConnectionsAccounted
  OBVIOUS
<1> QED  BY <1>1, <1>2, <1>3, PTL DEF Spec

-----------------------------------------------------------------------------
(* What readers are told                                                   *)

\* The rows and what readers have seen are as far as the places say, whoever steps.
LEMMA RowsStep ==
  ASSUME TypeOK, RowsInv, ReadInv, [Next]_vars
  PROVE  RowsInv' /\ ReadInv'
<1> USE SearchAssumption DEF TypeOK, Places, Ended
<1> Searchers \subseteq Requests /\ Readers \subseteq Requests
  OBVIOUS
<1>1. CASE UNCHANGED vars
  BY <1>1 DEF vars, RowsInv, ReadInv
<1>2. ASSUME NEW r \in Requests, Connect(r)
      PROVE  RowsInv' /\ ReadInv'
  BY <1>2 DEF Connect, rows, reading, RowsInv, ReadInv
<1>3. ASSUME NEW r \in Requests, NoConnection(r)
      PROVE  RowsInv' /\ ReadInv'
  BY <1>3 DEF NoConnection, NeedsConnection, Goto, rows, reading, RowsInv, ReadInv
<1>4. ASSUME NEW s \in Searchers, BeginSearch(s)
      PROVE  RowsInv' /\ ReadInv'
  <2>1. RowsInv'
    BY <1>4 DEF BeginSearch, Goto, rows, reading, RowsInv
  <2>2. ReadInv'
    BY <1>4 DEF BeginSearch, Goto, rows, reading, ReadInv
  <2> QED  BY <2>1, <2>2
<1>5. ASSUME NEW s \in Searchers, InsertSearch(s)
      PROVE  RowsInv' /\ ReadInv'
  BY <1>5 DEF InsertSearch, Connected, Goto, reading, RowsInv, ReadInv
<1>6. ASSUME NEW s \in Searchers, Launch(s)
      PROVE  RowsInv' /\ ReadInv'
  <2>1. RowsInv'
    BY <1>6 DEF Launch, Connected, Goto, Fail, rows, reading, RowsInv
  <2>2. ReadInv'
    BY <1>6 DEF Launch, Connected, Goto, Fail, rows, reading, ReadInv
  <2> QED  BY <2>1, <2>2
<1>7. ASSUME NEW s \in Searchers, ProcessExits(s)
      PROVE  RowsInv' /\ ReadInv'
  BY <1>7 DEF ProcessExits, Goto, Fail, rows, reading, RowsInv, ReadInv
<1>8. ASSUME NEW s \in Searchers, StoreResults(s)
      PROVE  RowsInv' /\ ReadInv'
  <2>1. RowsInv'
    BY <1>8 DEF StoreResults, Stored, Goto, reading, RowsInv
  <2>2. ReadInv'
    BY <1>8 DEF StoreResults, Stored, Goto, reading, ReadInv
  <2> QED  BY <2>1, <2>2
<1>9. ASSUME NEW r \in Readers, BeginReading(r)
      PROVE  RowsInv' /\ ReadInv'
  BY <1>9 DEF BeginReading, Goto, rows, RowsInv, ReadInv
<1>10. ASSUME NEW r \in Readers, SelectSearches(r)
       PROVE  RowsInv' /\ ReadInv'
  <2>1. RowsInv'
    BY <1>10 DEF SelectSearches, Connected, Goto, Fail, rows, RowsInv
  <2>2. ReadInv'
    BY <1>10 DEF SelectSearches, Connected, Goto, Fail, rows, RowsInv, ReadInv
  <2> QED  BY <2>1, <2>2
<1>11. ASSUME NEW r \in Readers, LoadResults(r)
       PROVE  RowsInv' /\ ReadInv'
  <2>1. /\ pc[r] = "load" /\ r \notin Searchers
        /\ \A q \in Requests \ {r} : pc'[q] = pc[q]
        /\ UNCHANGED <<rows, parsed, selected, known>>
    BY <1>11 DEF LoadResults, Goto, Fail
  <2>2. \A q \in Readers \ {r} : lists'[q] = lists[q]
    BY <1>11 DEF LoadResults, Fail
  <2>3. \/ pc'[r] = "failed" /\ lists' = lists
        \/ /\ pc'[r] = "answered"
           /\ \A s \in Searchers : lists'[r][s] = IF s \in selected[r] THEN results[s] ELSE {}
    <3>2. CASE Fail(r) /\ UNCHANGED lists
      BY <3>2 DEF Fail, Goto
    <3>3. CASE /\ lists' = [lists EXCEPT ![r] = [s \in Searchers |->
                                             IF s \in selected[r] THEN results[s] ELSE {}]]
               /\ Goto(r, "answered")
      BY <3>3 DEF Goto
    <3> QED  BY <1>11, <3>2, <3>3 DEF LoadResults
  <2>4. RowsInv'
    BY <2>1, <2>2, <2>3 DEF rows, RowsInv
  <2>5. \A q \in Readers \ {r} : pc'[q] = pc[q]
    BY <2>1
  <2>6. \A s \in Searchers : pc'[s] = pc[s]
    BY <2>1
  <2>7. ASSUME NEW q \in Readers
        PROVE  /\ \A s \in known[q] : pc'[s] = "answered"
               /\ pc'[q] \in {"load", "answered"} =>
                    \A s \in known[q] : UserOf[s] = UserOf[q] => s \in selected[q]
               /\ \A s \in selected[q] : UserOf[s] = UserOf[q]
    BY <2>1, <2>5, <2>6 DEF ReadInv
  <2>9. ASSUME NEW q \in Readers, NEW s \in Searchers
        PROVE  lists'[q][s] \in {{}, parsed[s]}
    <3>1. results[s] \in {{}, parsed[s]} /\ lists[q][s] \in {{}, parsed[s]}
      BY DEF RowsInv, ReadInv
    <3> QED  BY <2>2, <2>3, <3>1
  <2>8. ASSUME NEW q \in Readers, pc'[q] = "answered",
               NEW s \in known[q], UserOf[s] = UserOf[q]
        PROVE  lists'[q][s] = parsed[s]
    <3>1. CASE q = r
      BY <2>1, <2>3, <2>8, <3>1 DEF RowsInv, ReadInv
    <3>2. CASE q # r
      BY <2>2, <2>5, <2>8, <3>2 DEF ReadInv
    <3> QED  BY <3>1, <3>2
  <2> QED  BY <2>1, <2>4, <2>7, <2>8, <2>9 DEF ReadInv
<1>12. CASE Restart
  BY <1>12 DEF Restart, Active, rows, reading, RowsInv, ReadInv
<1> QED  BY <1>1, <1>2, <1>3, <1>4, <1>5, <1>6, <1>7, <1>8, <1>9, <1>10, <1>11, <1>12
         DEF Next, SearchStep, ReadStep, Session

LEMMA InductiveInvariant == Spec => []IInv
<1>1. Init => IInv
  <2>1. Init => RowsInv /\ ReadInv
    BY SearchAssumption DEF Init, RowsInv, ReadInv, Ended
  <2> QED  BY <2>1, ConnectionsInit DEF IInv
<1>2. IInv /\ [Next]_vars => IInv'
  BY ConnectionsStep, RowsStep DEF IInv
<1> QED  BY <1>1, <1>2, PTL DEF Spec

\* What a search answered is listed to whoever asks later (AnswersRetrievable).
THEOREM AnswersAreRetrievable == Spec => []AnswersRetrievable
<1>1. IInv => AnswersRetrievable
  BY DEF IInv, ReadInv, AnswersRetrievable
<1> QED  BY <1>1, InductiveInvariant, PTL

\* A search is listed whole or empty, and under its own username (ListedWhole).
THEOREM SearchesListedWhole == Spec => []ListedWhole
<1>1. IInv => ListedWhole
  BY DEF IInv, TypeOK, ReadInv, ListedWhole
<1> QED  BY <1>1, InductiveInvariant, PTL
=============================================================================
