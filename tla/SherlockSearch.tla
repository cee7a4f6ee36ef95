--------------------------- MODULE SherlockSearch ---------------------------
(***************************************************************************)
(* The direct Sherlock endpoints: POST /api/sherlock/search runs the tool   *)
(* as a subprocess and stores what it finds, GET /api/sherlock/results      *)
(* lists the searches for a username (src/app/routers/sherlock.py,          *)
(* src/app/services/sherlock.py).  Each request has a session of its own,   *)
(* which takes a connection of the pool at its first statement after a      *)
(* commit, and returns it when it commits, rolls back or closes.            *)
(*                                                                         *)
(* A search commits its row first; the refresh that follows takes a         *)
(* connection again and keeps it, inside a transaction, while the           *)
(* subprocess runs, for which the code sets no time limit.  A search is     *)
(* named by its request, results[s] is the set of the Result rows of s.     *)
(***************************************************************************)
EXTENDS ConnectionPool

CONSTANTS Searchers,   \* requests for a search
          Readers,     \* requests for the list of searches
          UserOf,      \* the username of each request
          Sites        \* sites on which an account may be found

ASSUME SearchAssumption == /\ Requests = Searchers \cup Readers
                           /\ Searchers \cap Readers = {}

VARIABLES pc,
          searches,    \* Search rows
          results,     \* search -> sites of its Result rows
          parsed,      \* search -> what the tool found, as run_sherlock parsed it
          selected,    \* reader -> the searches its first statement returned
          lists,       \* reader -> search -> the results its second one returned
          known        \* history: the searches answered before the reader began

rows    == <<searches, results>>
reading == <<selected, lists, known>>
vars    == <<poolVars, pc, searches, results, parsed, selected, lists, known>>

Ended  == {"refused", "answered", "failed", "lost"}
Active(r) == pc[r] \notin Ended \cup {"new"}
Connected(r, place) == pc[r] = place /\ r \in holders

Init == /\ PoolInit
        /\ pc = [r \in Requests |-> "new"]
        /\ searches = {}
        /\ results = [s \in Searchers |-> {}]
        /\ parsed = [s \in Searchers |-> {}]
        /\ selected = [r \in Readers |-> {}]
        /\ lists = [r \in Readers |-> [s \in Searchers |-> {}]]
        /\ known = [r \in Readers |-> {}]

Goto(r, place) == pc' = [pc EXCEPT ![r] = place]

\* The exception leaves the handler, whose session rolls back and closes.
\* Faulty variant: the session stays as it is.
FailKeepsSession(r) == Goto(r, "failed") /\ UNCHANGED poolVars
Fail(r) == Goto(r, "failed") /\ Release(r)

-----------------------------------------------------------------------------
\* A session takes its connection just before a statement.
NeedsConnection(r) == pc[r] \in {"insert", "refresh", "select"} /\ r \notin holders

Connect(r) == /\ NeedsConnection(r)
              /\ Acquire(r)
              /\ UNCHANGED <<pc, rows, parsed, reading>>

NoConnection(r) == /\ NeedsConnection(r)
                   /\ GiveUp(r)
                   /\ Goto(r, "failed")
                   /\ UNCHANGED <<rows, parsed, reading>>

-----------------------------------------------------------------------------
(* POST /search                                                            *)

\* A site that is not in SHERLOCK_SITES is refused before the session is used.
BeginSearch(s) == /\ pc[s] = "new"
                  /\ Goto(s, "insert") \/ Goto(s, "refused")
                  /\ UNCHANGED <<poolVars, rows, parsed, reading>>

\* The insert or its commit fails; a commit whose acknowledgement is lost has
\* taken effect all the same.
InsertSearch(s) == /\ Connected(s, "insert")
                   /\ \/ Goto(s, "refresh") /\ searches' = searches \cup {s}
                      \/ Goto(s, "failed") /\ searches' \in {searches, searches \cup {s}}
                   /\ Release(s)
                   /\ UNCHANGED <<results, parsed, reading>>

\* The row is read back and the subprocess started, within one transaction.
Launch(s) == /\ Connected(s, "refresh")
             /\ \/ Goto(s, "running") /\ UNCHANGED poolVars
                \/ Fail(s)
             /\ UNCHANGED <<rows, parsed, reading>>

\* The subprocess exits: its output is parsed, or its exit code or a line without
\* a colon and a site raises.
ProcessExits(s) == /\ pc[s] = "running"
                   /\ \/ /\ parsed' \in {[parsed EXCEPT ![s] = found] : found \in SUBSET Sites}
                         /\ Goto(s, "storing")
                         /\ UNCHANGED poolVars
                      \/ Fail(s) /\ UNCHANGED parsed
                   /\ UNCHANGED <<rows, reading>>

\* All results are added and committed at once.
\* Faulty variants: an account is committed at a time, or none is.
StoredOneByOne(s) == {[results EXCEPT ![s] = found] : found \in SUBSET parsed[s]}
StoredNowhere(s)  == {results}
Stored(s)         == {[results EXCEPT ![s] = parsed[s]]}
StoreResults(s) == /\ pc[s] = "storing"
                   /\ \/ Goto(s, "answered") /\ results' \in Stored(s)
                      \/ Goto(s, "failed") /\ results' \in {results} \cup Stored(s)
                   /\ Release(s)
                   /\ UNCHANGED <<searches, parsed, reading>>

-----------------------------------------------------------------------------
(* GET /results                                                            *)

BeginReading(r) == /\ pc[r] = "new"
                   /\ Goto(r, "select")
                   /\ known' = [known EXCEPT ![r] = {s \in Searchers : pc[s] = "answered"}]
                   /\ UNCHANGED <<poolVars, rows, parsed, selected, lists>>

\* The searches for the username; without any the second statement is not sent.
SelectSearches(r) ==
  /\ Connected(r, "select")
  /\ \/ /\ selected' = [selected EXCEPT ![r] = {s \in searches : UserOf[s] = UserOf[r]}]
        /\ IF selected'[r] = {} THEN Goto(r, "answered") /\ Release(r)
                                ELSE Goto(r, "load") /\ UNCHANGED poolVars
     \/ Fail(r) /\ UNCHANGED selected
  /\ UNCHANGED <<rows, parsed, lists, known>>

\* selectinload: the results of the selected searches, as they are by now.
LoadResults(r) ==
  /\ pc[r] = "load"
  /\ \/ /\ lists' = [lists EXCEPT ![r] = [s \in Searchers |->
                                             IF s \in selected[r] THEN results[s] ELSE {}]]
        /\ Goto(r, "answered")
        /\ Release(r)
     \/ Fail(r) /\ UNCHANGED lists
  /\ UNCHANGED <<rows, parsed, selected, known>>

-----------------------------------------------------------------------------
\* The process stops: requests and pool are gone, what was committed stays.
Restart == /\ \E r \in Requests : Active(r)
           /\ pc' = [r \in Requests |-> IF Active(r) THEN "lost" ELSE pc[r]]
           /\ PoolReset
           /\ UNCHANGED <<rows, parsed, reading>>

\* What a request does by itself once it has begun, the subprocess apart.
SearchStep(s) == InsertSearch(s) \/ Launch(s) \/ StoreResults(s)
ReadStep(r)   == SelectSearches(r) \/ LoadResults(r)
Session(r)    == Connect(r) \/ NoConnection(r)

Next == \/ \E s \in Searchers : BeginSearch(s) \/ ProcessExits(s) \/ SearchStep(s)
        \/ \E r \in Readers : BeginReading(r) \/ ReadStep(r)
        \/ \E r \in Requests : Session(r)
        \/ Restart

Fairness == /\ \A s \in Searchers : WF_vars(Session(s) \/ SearchStep(s))
            /\ \A r \in Readers : WF_vars(Session(r) \/ ReadStep(r))

Spec == Init /\ [][Next]_vars /\ Fairness

-----------------------------------------------------------------------------
Places == Ended \cup {"new", "insert", "refresh", "running", "storing", "select", "load"}

\* Types, and which places belong to which kind of request.
TypeOK == /\ PoolTypeOK
          /\ pc \in [Requests -> Places]
          /\ \A s \in Searchers : pc[s] \notin {"select", "load"}
          /\ \A r \in Readers : pc[r] \in Ended \cup {"new", "select", "load"}
          /\ searches \in SUBSET Searchers
          /\ results \in [Searchers -> SUBSET Sites]
          /\ parsed \in [Searchers -> SUBSET Sites]
          /\ selected \in [Readers -> SUBSET Searchers]
          /\ lists \in [Readers -> [Searchers -> SUBSET Sites]]
          /\ known \in [Readers -> SUBSET Searchers]

\* No connection leaks on any of the ways a request may end: every open one is
\* idle or held by a request still at work, and who waits for a subprocess, or is
\* between two statements of one transaction, holds one.
ConnectionsAccounted ==
  /\ Accounted
  /\ \A r \in holders \cup waiting : Active(r)
  /\ \A r \in Requests : pc[r] \in {"running", "storing", "load"} => r \in holders

\* "Results are saved to the database for later retrieval" (src/app/routers/sherlock.py:54):
\* a search that was answered is listed, with all it found, to every reader of its
\* username who begins later.
AnswersRetrievable ==
  \A r \in Readers : pc[r] = "answered" =>
    \A s \in known[r] : UserOf[s] = UserOf[r] =>
      s \in selected[r] /\ lists[r][s] = parsed[s]

\* Whatever fails, and whenever it is read, a search is listed with everything its
\* subprocess found or with nothing, and only under its own username.
ListedWhole ==
  \A r \in Readers : \A s \in selected[r] :
    lists[r][s] \in {{}, parsed[s]} /\ UserOf[s] = UserOf[r]

\* A request that has begun ends, even if every subprocess hangs for ever and keeps
\* its connection, unless its own subprocess is the one it waits for.
RequestsEnd ==
  \A r \in Requests : Active(r) ~> (~Active(r) \/ pc[r] = "running")

-----------------------------------------------------------------------------
(* The inductive invariant behind AnswersRetrievable and ListedWhole       *)

\* How far the rows of a search are, by the place of its request.
RowsInv ==
  \A s \in Searchers :
    /\ pc[s] \in {"refresh", "running", "storing", "answered"} => s \in searches
    /\ pc[s] \in {"new", "insert", "refresh", "running"} =>
         results[s] = {} /\ \A r \in Readers : lists[r][s] = {}
    /\ pc[s] = "answered" => results[s] = parsed[s]
    /\ results[s] \in {{}, parsed[s]}

\* What a reader knows and has read so far.
ReadInv ==
  \A r \in Readers :
    /\ \A s \in known[r] : pc[s] = "answered"
    /\ pc[r] \in {"load", "answered"} =>
         \A s \in known[r] : UserOf[s] = UserOf[r] => s \in selected[r]
    /\ pc[r] = "answered" =>
         \A s \in known[r] : UserOf[s] = UserOf[r] => lists[r][s] = parsed[s]
    /\ \A s \in selected[r] : UserOf[s] = UserOf[r]
    /\ \A s \in Searchers : lists[r][s] \in {{}, parsed[s]}

IInv == TypeOK /\ ConnectionsAccounted /\ RowsInv /\ ReadInv
=============================================================================
