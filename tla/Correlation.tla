---------------------------- MODULE Correlation -----------------------------
(***************************************************************************)
(* Concurrent requests POST /investigations/{id}/correlate                  *)
(* (src/app/routers/investigation.py and                                    *)
(* run_correlation_for_investigation of src/app/services/correlation.py),   *)
(* while scans add findings and requests add targets.                       *)
(*                                                                         *)
(* An action is one database statement, or what follows it up to the next.  *)
(* A statement sees what other sessions have committed and what its own     *)
(* session has added, which autoflush sends ahead of it.  No query orders   *)
(* its rows: each returns them in any order.                                *)
(***************************************************************************)
EXTENDS Correlator, SequencesExt

CONSTANTS
  Requests,
  Investigations,
  Batches,          \* the findings that the modules of a scan may find at once
  MaxLinks          \* bound on the link rows of an investigation

ASSUME LinksAssumption == MaxLinks \in Nat

ASSUME FindingsAssumption == IsFiniteSet(FindingIds) /\ Batches \subseteq SUBSET FindingIds

Targets == {Info[f].target : f \in FindingIds}

VARIABLES
  links,      \* investigation -> its rows in investigation_targets
  stored,     \* target -> its committed findings
  relations,  \* committed Relation rows: key, and the request that made it
  pc,         \* where each request is
  inv,        \* the investigation of each request
  toLoad,     \* links whose findings it has still to load
  seen,       \* all_findings
  todo,       \* proposals not yet looked up
  created,    \* keys of relations_created
  failed,     \* whether errors is not empty
  earlier     \* history: the requests that had succeeded when it began

local == <<inv, toLoad, seen, todo, created, failed, earlier>>
vars  == <<links, stored, relations, pc, local>>

Rows == [key : Keys, by : Requests]
LinkRows == [target : Targets, no : 1 .. MaxLinks]
PCs  == {"start", "loading", "checking", "refreshing", "answered", "aborted"}

Succeeded(r) == pc[r] = "answered" /\ ~failed[r]
Stored       == {row.key : row \in relations}
Linked(i)    == {row.target : row \in links[i]}

-----------------------------------------------------------------------------
Init ==
  /\ links = [i \in Investigations |-> {}]
  /\ stored = [t \in Targets |-> {}]
  /\ relations = {}
  /\ pc = [r \in Requests |-> "start"]
  /\ inv \in [Requests -> Investigations]
  /\ toLoad = [r \in Requests |-> {}]
  /\ seen = [r \in Requests |-> <<>>]
  /\ todo = [r \in Requests |-> {}]
  /\ created = [r \in Requests |-> {}]
  /\ failed = [r \in Requests |-> FALSE]
  /\ earlier = [r \in Requests |-> {}]

Goto(r, place) == pc' = [pc EXCEPT ![r] = place]
Fails(r)       == failed' = [failed EXCEPT ![r] = TRUE]

\* Faulty variant: no early return for an investigation without links.
BeginAlways(r) ==
  /\ pc[r] = "start"
  /\ toLoad' = [toLoad EXCEPT ![r] = links[inv[r]]]
  /\ Goto(r, "loading")
  /\ earlier' = [earlier EXCEPT ![r] = {q \in Requests : Succeeded(q)}]
  /\ UNCHANGED <<links, stored, relations, inv, seen, todo, created, failed>>
\* The handler finds the investigation, whatever its status, and the service
\* reads its links.
Begin(r) ==
  /\ pc[r] = "start"
  /\ toLoad' = [toLoad EXCEPT ![r] = links[inv[r]]]
  /\ Goto(r, IF links[inv[r]] = {} THEN "answered" ELSE "loading")
  /\ earlier' = [earlier EXCEPT ![r] = {q \in Requests : Succeeded(q)}]
  /\ UNCHANGED <<links, stored, relations, inv, seen, todo, created, failed>>

\* Any database call of the handler may raise before the service's own try block.
BeginFails(r) ==
  /\ pc[r] = "start"
  /\ Goto(r, "aborted")
  /\ UNCHANGED <<links, stored, relations, local>>

\* _load_findings_as_dicts: the findings of a target, in any order.
FindingsOf(t) == SetToSeqs(stored[t])

\* The findings of one link, whichever of the rest the query returned next, then the
\* rules once all links are loaded.
Load(r) ==
  /\ pc[r] = "loading"
  /\ \E row \in toLoad[r] : \E loaded \in FindingsOf(row.target) :
       LET findings == seen[r] \o loaded
           rest     == toLoad[r] \ {row}
       IN /\ seen' = [seen EXCEPT ![r] = findings]
          /\ toLoad' = [toLoad EXCEPT ![r] = rest]
          /\ \/ rest # {} /\ UNCHANGED <<pc, todo>>
             \/ rest = {} /\ findings = <<>> /\ Goto(r, "answered") /\ UNCHANGED todo
             \/ /\ rest = {} /\ findings # <<>>
                /\ Goto(r, "checking")
                /\ todo' = [todo EXCEPT ![r] = run_all_rules(findings)]
  /\ UNCHANGED <<links, stored, relations, inv, created, failed, earlier>>

\* A failed load is noted and nothing is rolled back, so that the transaction
\* refuses every later statement: the other loads fail too, and if the findings
\* loaded before propose a relation, looking it up fails.
LoadFails(r) ==
  /\ pc[r] = "loading"
  /\ Goto(r, "answered")
  /\ Fails(r)
  /\ UNCHANGED <<links, stored, relations, inv, toLoad, seen, todo, created, earlier>>

-----------------------------------------------------------------------------
\* Faulty variant: the two findings of the lookup are swapped.
ReverseExists(k) == Key(k.target, k.source, k.type) \in Stored
RelationExists(k) == k \in Stored

\* One proposal: skipped if a relation with its key exists, added otherwise.
Propose(r, k) ==
  /\ pc[r] = "checking"
  /\ todo' = [todo EXCEPT ![r] = @ \ {k}]
  /\ created' = [created EXCEPT ![r] = IF RelationExists(k) THEN @ ELSE @ \cup {k}]
  /\ UNCHANGED <<links, stored, relations, pc, inv, toLoad, seen, failed, earlier>>

\* Faulty variant: what was flushed before the failure is committed.
KeepFlushed(r) ==
  /\ Fails(r)
  /\ relations' = relations \cup [key : created[r], by : {r}]
RollBack(r) == Fails(r) /\ UNCHANGED relations

\* A lookup, a flush or the commit raises.  The rollback empties the session but
\* not relations_created, and the handler serializes what the list holds: rows
\* that were flushed have their ids and are answered, one that was not has no id
\* and fails the response model.
PersistFails(r) ==
  /\ pc[r] = "checking"
  /\ RollBack(r)
  /\ \/ Goto(r, "answered")
     \/ created[r] # {} /\ Goto(r, "aborted")
  /\ UNCHANGED <<links, stored, inv, toLoad, seen, todo, created, earlier>>

Commit(r) ==
  /\ pc[r] = "checking" /\ todo[r] = {}
  /\ relations' = relations \cup [key : created[r], by : {r}]
  /\ Goto(r, IF created[r] = {} THEN "answered" ELSE "refreshing")
  /\ UNCHANGED <<links, stored, local>>

Refreshed(r) ==
  /\ pc[r] = "refreshing"
  /\ Goto(r, "answered")
  /\ UNCHANGED <<links, stored, relations, local>>

\* The rollback after a failed refresh expires the committed relations, and the
\* handler cannot read them any more.
RefreshFails(r) ==
  /\ pc[r] = "refreshing"
  /\ Fails(r)
  /\ Goto(r, "aborted")
  /\ UNCHANGED <<links, stored, relations, inv, toLoad, seen, todo, created, earlier>>

-----------------------------------------------------------------------------
\* The other requests: a scan commits what a module found of a target and is not
\* stored yet, a target gets a link.
StoreFindings(t, batch) ==
  /\ \A f \in batch : Info[f].target = t
  /\ ~(batch \subseteq stored[t])
  /\ stored' = [stored EXCEPT ![t] = @ \cup batch]
  /\ UNCHANGED <<links, relations, pc, local>>

\* Nothing stops a second link of the same target (see Investigations); the rows are
\* numbered to tell them apart.
LinkTarget(i, row) ==
  /\ {other.no : other \in links[i]} = 1 .. row.no - 1
  /\ links' = [links EXCEPT ![i] = @ \cup {row}]
  /\ UNCHANGED <<stored, relations, pc, local>>

RequestStep(r) ==
  \/ Begin(r)
  \/ BeginFails(r)
  \/ Load(r)
  \/ LoadFails(r)
  \/ \E k \in todo[r] : Propose(r, k)
  \/ PersistFails(r)
  \/ Commit(r)
  \/ Refreshed(r)
  \/ RefreshFails(r)

Next ==
  \/ \E r \in Requests : RequestStep(r)
  \/ \E t \in Targets, batch \in Batches : StoreFindings(t, batch)
  \/ \E i \in Investigations, row \in LinkRows : LinkTarget(i, row)

Spec == Init /\ [][Next]_vars

-----------------------------------------------------------------------------
TypeOK ==
  /\ links \in [Investigations -> SUBSET LinkRows]
  /\ stored \in [Targets -> SUBSET FindingIds]
  /\ relations \subseteq Rows
  /\ pc \in [Requests -> PCs]
  /\ inv \in [Requests -> Investigations]
  /\ toLoad \in [Requests -> SUBSET LinkRows]
  /\ \A r \in Requests : pc[r] = "loading" => toLoad[r] # {}
  /\ seen \in [Requests -> Seq(FindingIds)]
  /\ todo \in [Requests -> SUBSET Keys]
  /\ created \in [Requests -> SUBSET Keys]
  /\ failed \in [Requests -> BOOLEAN]
  /\ earlier \in [Requests -> SUBSET Requests]

\* "Never invent relations": whatever the order and the repetitions in which the
\* findings of several targets were loaded, a stored relation claims what its two
\* findings say, and both belong to targets linked to the investigation whose
\* correlation made it (the indexes of the rules name findings by position).
RelationsExplained ==
  \A row \in relations :
    /\ Explains(row.key)
    /\ {Info[row.key.source].target, Info[row.key.target].target}
         \subseteq Linked(inv[row.by])

\* All or nothing: a request that answers without error has every relation its
\* rules proposed in the table, made by itself or by another request, while one
\* that failed before its commit left none, however the two interleave with the
\* rollbacks of others.
AllOrNothing ==
  \A r \in Requests :
    LET mine == {row \in relations : row.by = r} IN
    /\ Succeeded(r) => run_all_rules(seen[r]) \subseteq Stored
    /\ mine = {} \/ mine = [key : created[r], by : {r}]
    /\ pc[r] = "answered" /\ failed[r] => mine = {}

\* "Already-existing relations are skipped": what an earlier request proposed and
\* answered without error, a request that begins after it does not make again,
\* for the same or another investigation.
RepeatsCreateNothing ==
  \A r \in Requests : \A q \in earlier[r] :
    created[r] \cap run_all_rules(seen[q]) = {}

\* SHARES_IP is symmetric but stored with a direction, that of the order in which the
\* request listed the two findings.  However often and in whatever order the links and
\* findings come, one request never stores a pair both ways ("spurious bidirectional
\* pairs", core/correlator.py:298-299); where two requests do, the database returned
\* them the findings in opposite orders, which no query prevents.
OneDirection ==
  \A x, y \in relations :
    (/\ x.key.type = "SHARES_IP" /\ y.key.type = "SHARES_IP"
     /\ x.key.source = y.key.target /\ x.key.target = y.key.source)
    => /\ x.by # y.by
       /\ Before(seen[x.by], x.key.source, x.key.target)
       /\ Before(seen[y.by], x.key.target, x.key.source)

-----------------------------------------------------------------------------
\* The inductive invariant.  A list holds findings of linked targets only, the
\* proposals and what was made of them come from the list, and the place of a
\* request says which of its proposals are in the table.
Mine(r) == {row \in relations : row.by = r}
ListsInv ==
  /\ \A t \in Targets : \A f \in stored[t] : Info[f].target = t
  /\ \A r \in Requests :
       /\ toLoad[r] \subseteq links[inv[r]]
       /\ \A f \in Listed(seen[r]) : Info[f].target \in Linked(inv[r])
       /\ todo[r] \cup created[r] \subseteq run_all_rules(seen[r])
PlaceInv ==
  \A r \in Requests :
    /\ pc[r] = "start" => seen[r] = <<>>
    /\ pc[r] \in {"start", "loading"} => todo[r] = {} /\ created[r] = {} /\ ~failed[r]
    /\ pc[r] \in {"start", "loading", "checking"} => Mine(r) = {}
    /\ pc[r] = "checking" =>
         ~failed[r] /\ run_all_rules(seen[r]) \subseteq todo[r] \cup created[r] \cup Stored
    /\ pc[r] = "refreshing" =>
         /\ ~failed[r] /\ run_all_rules(seen[r]) \subseteq Stored
         /\ Mine(r) = [key : created[r], by : {r}]
EarlierInv == \A r \in Requests : \A q \in earlier[r] : Succeeded(q)

IInv == /\ TypeOK /\ ListsInv /\ PlaceInv /\ EarlierInv
        /\ AllOrNothing /\ RepeatsCreateNothing

-----------------------------------------------------------------------------
\* The relations an answer lists as "inserted this run" are in the table.
ReportedRelationsExist ==
  \A r \in Requests : pc[r] = "answered" => created[r] \subseteq Stored
=============================================================================
