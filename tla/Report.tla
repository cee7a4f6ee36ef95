------------------------------- MODULE Report -------------------------------
(***************************************************************************)
(* The requests that read an investigation, while scans store findings,     *)
(* requests link targets and correlations store relations:                  *)
(*   "summary"   GET /investigations/{id}, and the summary that the answers *)
(*               to create, add, scan and close end with                    *)
(*   "adaptive"  the summary in the answer to an adaptive scan              *)
(*   "report"    GET /investigations/{id}/report                            *)
(*   "listing"   GET /investigations/{id}/relations                         *)
(*   "target"    GET /investigations/{id}/targets/{target_id}/findings      *)
(* (src/app/services/report.py, and the reads of services/investigation.py, *)
(* services/correlation.py and routers/investigation.py).                   *)
(*                                                                         *)
(* An action of a reader is one statement; each sees what was committed     *)
(* before it, so that one answer mixes several states of the database.  No  *)
(* operation deletes a row.                                                 *)
(***************************************************************************)
EXTENDS Naturals, Sequences, Functions, FiniteSets

CONSTANTS
  Readers,
  Targets,
  FindingIds,
  TargetOf,       \* target_id of each finding
  Pairs,          \* relations that may be stored, as pairs of finding ids
  MaxLinks,       \* bound on the rows that link a target to the investigation
  MaxEvidence     \* bound on the evidence of one finding

ASSUME ReportAssumption ==
  /\ IsFiniteSet(FindingIds)
  /\ TargetOf \in [FindingIds -> Targets]
  /\ Pairs \subseteq FindingIds \X FindingIds
  /\ MaxLinks \in Nat /\ MaxEvidence \in Nat

VARIABLES
  links,       \* the targets of the investigation's links, in row order
  evidence,    \* finding -> number of its Evidence rows; 0 while it is not stored
  relations,   \* committed Relation rows
  kind,        \* what each reader asks for
  pc,          \* where it is
  view,        \* the targets of the links in its session
  next,        \* the link of view that a summary counts next
  listed,      \* ids of the findings it selected
  counts,      \* finding_count and evidence_count of its answer
  rels,        \* the relations it answers with
  details,     \* ids of the findings that a listing describes
  atStart,     \* history: the findings stored when it began
  current      \* history: nothing was committed since it began

db   == <<links, evidence, relations>>
data == <<view, next, listed, counts, rels, details>>
vars == <<db, kind, pc, data, atStart, current>>

Kinds == {"summary", "adaptive", "report", "listing", "target"}
PCs   == {"start", "scanning", "counting", "counting evidence", "links", "link", "findings",
          "evidence", "relations", "details", "answered", "refused", "failed"}

Stored       == {f \in FindingIds : evidence[f] > 0}
Of(S)        == {f \in FindingIds : TargetOf[f] \in S}
Viewed(r)    == Range(view[r])
Rows(S)      == {row \in S \X (1 .. MaxEvidence) : row[2] <= evidence[row[1]]}
Evidence(S)  == Cardinality(Rows(S))
Ends(pairs)  == UNION {{p[1], p[2]} : p \in pairs}

-----------------------------------------------------------------------------
Init ==
  /\ links = <<>>
  /\ evidence = [f \in FindingIds |-> 0]
  /\ relations = {}
  /\ kind \in [Readers -> Kinds]
  /\ pc = [r \in Readers |-> "start"]
  /\ view = [r \in Readers |-> <<>>]
  /\ next = [r \in Readers |-> 1]
  /\ listed = [r \in Readers |-> {}]
  /\ counts = [r \in Readers |-> [findings |-> 0, evidence |-> 0]]
  /\ rels = [r \in Readers |-> {}]
  /\ details = [r \in Readers |-> {}]
  /\ atStart = [r \in Readers |-> {}]
  /\ current = [r \in Readers |-> FALSE]

-----------------------------------------------------------------------------
(* What other requests commit meanwhile                                    *)

Outdate == current' = [r \in Readers |-> FALSE]

\* add_target_to_investigation; overlapping requests may link a target twice.
AddLink(t) ==
  /\ Len(links) < MaxLinks
  /\ links' = Append(links, t)
  /\ Outdate
  /\ UNCHANGED <<evidence, relations, kind, pc, data, atStart>>

\* store_module_result commits the new findings of a target, each with an
\* evidence row, and evidence rows for findings it already has.
Store(t, batch) ==
  /\ batch # {}
  /\ batch \subseteq Of({t})
  /\ \A f \in batch : evidence[f] < MaxEvidence
  /\ evidence' = [f \in FindingIds |-> IF f \in batch THEN evidence[f] + 1 ELSE evidence[f]]
  /\ Outdate
  /\ UNCHANGED <<links, relations, kind, pc, data, atStart>>

\* Faulty: a proposal may name a finding that is not stored.
AnyPair == Pairs \ relations

\* The relations a correlation of this or of another investigation may add.
NewPairs == {p \in Pairs \ relations : {p[1], p[2]} \subseteq Stored}

\* run_correlation_for_investigation commits all its relations at once.
Correlate ==
  /\ \E batch \in SUBSET NewPairs \ {{}} : relations' = relations \cup batch
  /\ Outdate
  /\ UNCHANGED <<links, evidence, kind, pc, data, atStart>>

-----------------------------------------------------------------------------
(* The beginning and the end of a reader                                   *)

Goto(r, place) == pc' = [pc EXCEPT ![r] = place]

First == [summary |-> "counting", adaptive |-> "scanning", report |-> "findings",
          listing |-> "links", target |-> "link"]

\* get_investigation, with the links of the investigation.  A listing selects
\* them again; a request for one target names it.
Begin(r) ==
  /\ pc[r] = "start"
  /\ Goto(r, First[kind[r]])
  /\ IF kind[r] = "target"
     THEN \E t \in Targets : view' = [view EXCEPT ![r] = <<t>>]
     ELSE view' = [view EXCEPT ![r] = links]
  /\ atStart' = [atStart EXCEPT ![r] = Stored]
  /\ current' = [current EXCEPT ![r] = TRUE]
  /\ UNCHANGED <<db, kind, next, listed, counts, rels, details>>

\* The investigation is not found under the reader's owner_id.
Refuse(r) ==
  /\ pc[r] = "start"
  /\ Goto(r, "refused")
  /\ UNCHANGED <<db, kind, data, atStart, current>>

\* Any statement may raise, and the request ends without an answer.
Fail(r) ==
  /\ pc[r] \notin {"start", "answered", "refused", "failed"}
  /\ Goto(r, "failed")
  /\ UNCHANGED <<db, kind, data, atStart, current>>

-----------------------------------------------------------------------------
(* Summaries                                                               *)

\* After an adaptive scan the handler still refers to the investigation it
\* loaded, so that the session answers with the same links, unless a rollback
\* has expired them.
LoadAfterScan(r) ==
  /\ pc[r] = "scanning"
  /\ \E expired \in BOOLEAN : view' = [view EXCEPT ![r] = IF expired THEN links ELSE @]
  /\ Goto(r, "counting")
  /\ UNCHANGED <<db, kind, next, listed, counts, rels, details, atStart, current>>

\* Faulty: the condition on the target is missing.
EveryFinding(t) == Stored

\* What the first count of a summary selects.
FindingsOf(t) == Stored \cap Of({t})

CountFindings(r) ==
  /\ pc[r] = "counting"
  /\ next[r] <= Len(view[r])
  /\ counts' = [counts EXCEPT
                  ![r].findings = @ + Cardinality(FindingsOf(view[r][next[r]]))]
  /\ Goto(r, "counting evidence")
  /\ UNCHANGED <<db, kind, view, next, listed, rels, details, atStart, current>>

\* Faulty: the count of the last target replaces the sum.
CountLastEvidence(r) ==
  /\ pc[r] = "counting evidence"
  /\ counts' = [counts EXCEPT ![r].evidence = Evidence(Of({view[r][next[r]]}))]
  /\ next' = [next EXCEPT ![r] = @ + 1]
  /\ Goto(r, "counting")
  /\ UNCHANGED <<db, kind, view, listed, rels, details, atStart, current>>

CountEvidence(r) ==
  /\ pc[r] = "counting evidence"
  /\ counts' = [counts EXCEPT ![r].evidence = @ + Evidence(Of({view[r][next[r]]}))]
  /\ next' = [next EXCEPT ![r] = @ + 1]
  /\ Goto(r, "counting")
  /\ UNCHANGED <<db, kind, view, listed, rels, details, atStart, current>>

AnswerSummary(r) ==
  /\ pc[r] = "counting"
  /\ next[r] > Len(view[r])
  /\ Goto(r, "answered")
  /\ UNCHANGED <<db, kind, data, atStart, current>>

-----------------------------------------------------------------------------
(* Reports, listings, and the findings of one target                       *)

\* get_relations_for_investigation selects the link rows itself.
SelectLinks(r) ==
  /\ pc[r] = "links"
  /\ view' = [view EXCEPT ![r] = links]
  /\ Goto(r, IF links = <<>> THEN "answered" ELSE "findings")
  /\ UNCHANGED <<db, kind, next, listed, counts, rels, details, atStart, current>>

\* The target must be linked, or there is nothing to answer (404).
CheckLink(r) ==
  /\ pc[r] = "link"
  /\ Goto(r, IF Viewed(r) \subseteq Range(links) THEN "findings" ELSE "refused")
  /\ UNCHANGED <<db, kind, data, atStart, current>>

\* A report of an investigation without links has selected the same nothing.
SelectFindings(r) ==
  /\ pc[r] = "findings"
  /\ LET found == Stored \cap Of(Viewed(r)) IN
       /\ listed' = [listed EXCEPT ![r] = found]
       /\ counts' = [counts EXCEPT ![r].findings = Cardinality(found)]
       /\ Goto(r, IF found = {} THEN "answered"
                  ELSE IF kind[r] = "listing" THEN "relations" ELSE "evidence")
  /\ UNCHANGED <<db, kind, view, next, rels, details, atStart, current>>

\* selectinload fetches the evidence of these findings in a select of its own.
SelectEvidence(r) ==
  /\ pc[r] = "evidence"
  /\ counts' = [counts EXCEPT ![r].evidence = Evidence(listed[r])]
  /\ Goto(r, IF kind[r] = "report" THEN "relations" ELSE "answered")
  /\ UNCHANGED <<db, kind, view, next, listed, rels, details, atStart, current>>

\* Faulty: only one end is looked at.
FromListed(r) == {p \in relations : p[1] \in listed[r]}

\* Faulty: the condition is missing.
AllRelations(r) == relations

\* "either the source or target Finding belongs to a target in the investigation"
TouchingListed(r) == {p \in relations : p[1] \in listed[r] \/ p[2] \in listed[r]}

\* A report is then put together without a further statement.
SelectRelations(r) ==
  /\ pc[r] = "relations"
  /\ rels' = [rels EXCEPT ![r] = TouchingListed(r)]
  /\ Goto(r, IF kind[r] = "listing" /\ TouchingListed(r) # {} THEN "details" ELSE "answered")
  /\ UNCHANGED <<db, kind, view, next, listed, counts, details, atStart, current>>

\* Faulty: the findings selected before are used again.
Described(r) == listed[r]

\* The handler selects the findings at both ends of the relations.
EndsOf(r) == Stored \cap Ends(rels[r])

SelectDetails(r) ==
  /\ pc[r] = "details"
  /\ details' = [details EXCEPT ![r] = EndsOf(r)]
  /\ Goto(r, "answered")
  /\ UNCHANGED <<db, kind, view, next, listed, counts, rels, atStart, current>>

Next ==
  \/ \E t \in Targets : AddLink(t)
  \/ \E t \in Targets : \E batch \in SUBSET FindingIds : Store(t, batch)
  \/ Correlate
  \/ \E r \in Readers :
       \/ Begin(r)
       \/ Refuse(r)
       \/ Fail(r)
       \/ LoadAfterScan(r)
       \/ CountFindings(r)
       \/ CountEvidence(r)
       \/ AnswerSummary(r)
       \/ SelectLinks(r)
       \/ CheckLink(r)
       \/ SelectFindings(r)
       \/ SelectEvidence(r)
       \/ SelectRelations(r)
       \/ SelectDetails(r)

Spec == Init /\ [][Next]_vars

-----------------------------------------------------------------------------
(* Properties                                                              *)

\* The types of the variables, and the foreign keys of relations.
TypeOK ==
  /\ links \in Seq(Targets)
  /\ evidence \in [FindingIds -> 0 .. MaxEvidence]
  /\ relations \subseteq Pairs
  /\ Ends(relations) \subseteq Stored
  /\ kind \in [Readers -> Kinds]
  /\ pc \in [Readers -> PCs]
  /\ view \in [Readers -> Seq(Targets)]
  /\ next \in [Readers -> Nat]
  /\ listed \in [Readers -> SUBSET FindingIds]
  /\ counts \in [Readers -> [findings : Nat, evidence : Nat]]
  /\ rels \in [Readers -> SUBSET Pairs]
  /\ details \in [Readers -> SUBSET FindingIds]
  /\ atStart \in [Readers -> SUBSET FindingIds]
  /\ current \in [Readers -> BOOLEAN]

Answered(r)      == pc[r] = "answered"
Summary(r)       == kind[r] \in {"summary", "adaptive"}
DistinctView(r)  == IsInjective(view[r])
Countable(r)     == kind[r] # "listing" /\ (Summary(r) => DistinctView(r))

\* A count made of several statements is one that the database had, or passed
\* over, while the request ran: nothing stored before is missed and nothing is
\* counted that was not stored.  (A target linked twice is counted twice by a
\* summary, but not by a report.)
CountsInRange ==
  \A r \in Readers : Answered(r) /\ Countable(r) =>
    /\ counts[r].findings >= Cardinality(atStart[r] \cap Of(Viewed(r)))
    /\ counts[r].findings <= Cardinality(Stored \cap Of(Viewed(r)))
    /\ counts[r].evidence <= Evidence(Of(Viewed(r)))

\* "Every claim in the report must trace back": no answer counts fewer evidence
\* rows than findings, although they are read in different statements.
EvidenceNotBehind ==
  \A r \in Readers : Answered(r) /\ kind[r] # "listing" =>
    counts[r].evidence >= counts[r].findings

\* When nothing is committed while a request runs, its answer is what the
\* database holds, whichever the endpoint: the summary and the report agree, and
\* so do the report and the listing of relations.
QuietAnswersExact ==
  \A r \in Readers : Answered(r) /\ current[r] =>
    LET mine == Stored \cap Of(Viewed(r)) IN
      /\ kind[r] # "target" => view[r] = links
      /\ Countable(r) => /\ counts[r].findings = Cardinality(mine)
                         /\ counts[r].evidence = Evidence(mine)
      /\ kind[r] \in {"report", "listing"} =>
           rels[r] = {p \in relations : {p[1], p[2]} \cap mine # {}}

\* A relation in a report or listing has an end among the findings it lists, and
\* an end it does not list is a finding of a target it does not show or one
\* stored after the request began.
RelationsTraceable ==
  \A r \in Readers : \A p \in rels[r] :
    /\ {p[1], p[2]} \cap listed[r] # {}
    /\ \A f \in {p[1], p[2]} \cap atStart[r] : TargetOf[f] \in Viewed(r) => f \in listed[r]

\* No relation of a listing is answered with the details of an end missing, the
\* case build_relation_items foresees for orphaned data.
ListingDescribed ==
  \A r \in Readers : Answered(r) /\ kind[r] = "listing" => Ends(rels[r]) \subseteq details[r]

=============================================================================
