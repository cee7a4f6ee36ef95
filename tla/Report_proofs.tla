---------------------------- MODULE Report_proofs ----------------------------
(***************************************************************************)
(* Proofs about Report, for any readers, targets, findings and relations:   *)
(* what reports and listings say about relations traces back to findings,   *)
(* although the two come from different statements.                         *)
(***************************************************************************)
EXTENDS Report, FiniteSetTheorems, TLAPS

\* Types, without the counts, and the foreign keys of relations.
DbTypes ==
  /\ links \in Seq(Targets)
  /\ evidence \in [FindingIds -> 0 .. MaxEvidence]
  /\ relations \subseteq Pairs
  /\ Ends(relations) \subseteq Stored
ReaderTypes ==
  /\ kind \in [Readers -> Kinds]
  /\ pc \in [Readers -> PCs]
  /\ view \in [Readers -> Seq(Targets)]
  /\ listed \in [Readers -> SUBSET FindingIds]
  /\ rels \in [Readers -> SUBSET Pairs]
  /\ details \in [Readers -> SUBSET FindingIds]
  /\ atStart \in [Readers -> SUBSET FindingIds]
Types == DbTypes /\ ReaderTypes

Before(r) == pc[r] \in PCs \ {"details", "answered", "failed"}
Listing(r) == pc[r] \in {"evidence", "relations", "details"}

\* What a reader has read, by the place it is at: the relations are stored ones and
\* come last; the findings listed are no fewer than were stored when it began.
ReaderInv(r) ==
  /\ Before(r) => rels[r] = {}
  /\ rels[r] \subseteq relations
  /\ atStart[r] \subseteq Stored
  /\ Listing(r) => atStart[r] \cap Of(Viewed(r)) \subseteq listed[r]
  /\ \A p \in rels[r] :
       /\ {p[1], p[2]} \cap listed[r] # {}
       /\ \A f \in {p[1], p[2]} \cap atStart[r] : TargetOf[f] \in Viewed(r) => f \in listed[r]
  /\ Answered(r) /\ kind[r] = "listing" => Ends(rels[r]) \subseteq details[r]

Inv == Types /\ \A r \in Readers : ReaderInv(r)

-----------------------------------------------------------------------------
\* Commits of other requests only add rows.
LEMMA WriterStep ==
  ASSUME Inv, UNCHANGED <<kind, pc, data, atStart>>, DbTypes',
         Stored \subseteq Stored', relations \subseteq relations'
  PROVE  Inv'
<1>1. Types'
  BY DEF Inv, Types, ReaderTypes, data
<1>2. ASSUME NEW r \in Readers
      PROVE  ReaderInv(r)'
  <2>1. ReaderInv(r)
    BY DEF Inv
  <2>2. Viewed(r)' = Viewed(r) /\ Of(Viewed(r))' = Of(Viewed(r))
    BY DEF Viewed, data, Of
  <2> QED  BY <2>1, <2>2 DEF ReaderInv, Before, Listing, Answered, data
<1> QED  BY <1>1, <1>2 DEF Inv

\* A step of a reader leaves the others as they are.
LEMMA ReaderStep ==
  ASSUME Inv, NEW r \in Readers, UNCHANGED <<db, kind>>, ReaderTypes',
         \A q \in Readers \ {r} : /\ pc'[q] = pc[q] /\ view'[q] = view[q]
                                  /\ listed'[q] = listed[q] /\ rels'[q] = rels[q]
                                  /\ details'[q] = details[q] /\ atStart'[q] = atStart[q],
         ReaderInv(r)'
  PROVE  Inv'
<1>1. Types'
  BY DEF Inv, Types, DbTypes, Stored, db
<1>2. ASSUME NEW q \in Readers \ {r}
      PROVE  ReaderInv(q)'
  <2>1. ReaderInv(q)
    BY DEF Inv
  <2>2. Viewed(q)' = Viewed(q) /\ Of(Viewed(q))' = Of(Viewed(q)) /\ Stored' = Stored
    BY DEF Viewed, db, Of, Stored
  <2> QED  BY <2>1, <2>2 DEF ReaderInv, Before, Listing, Answered, db
<1> QED  BY <1>1, <1>2 DEF Inv

-----------------------------------------------------------------------------
LEMMA InvInit == Init => Inv
<1> SUFFICES ASSUME Init PROVE Inv
  OBVIOUS
<1>1. Types
  <2>1. 0 \in 0 .. MaxEvidence
    BY ReportAssumption
  <2> QED  BY <2>1 DEF Init, Types, DbTypes, ReaderTypes, Ends, Kinds, PCs
<1>2. ASSUME NEW r \in Readers
      PROVE  ReaderInv(r)
  BY DEF Init, ReaderInv, Before, Listing, Answered, Ends
<1> QED  BY <1>1, <1>2 DEF Inv

\* One step of anybody keeps the invariant.
LEMMA InvStep == Inv /\ [Next]_vars => Inv'
<1> SUFFICES ASSUME Inv, [Next]_vars
             PROVE  Inv'
  OBVIOUS
<1> USE ReportAssumption
<1>1. CASE UNCHANGED vars
  <2>1. DbTypes' /\ Stored' = Stored
    BY <1>1 DEF vars, db, Inv, Types, DbTypes, Stored
  <2> QED  BY <1>1, <2>1, WriterStep DEF vars, db
<1>2. ASSUME NEW t \in Targets, AddLink(t)
      PROVE  Inv'
  <2>1. DbTypes' /\ Stored' = Stored
    BY <1>2 DEF AddLink, Inv, Types, DbTypes, Stored
  <2> QED  BY <1>2, <2>1, WriterStep DEF AddLink
<1>3. ASSUME NEW t \in Targets, NEW batch \in SUBSET FindingIds, Store(t, batch)
      PROVE  Inv'
  <2>1. evidence' \in [FindingIds -> 0 .. MaxEvidence]
    BY <1>3 DEF Store, Inv, Types, DbTypes
  <2>2. Stored \subseteq Stored'
    BY <1>3 DEF Store, Inv, Types, DbTypes, Stored
  <2>3. DbTypes'
    BY <1>3, <2>1, <2>2 DEF Store, Inv, Types, DbTypes
  <2> QED  BY <1>3, <2>2, <2>3, WriterStep DEF Store
<1>4. CASE Correlate
  <2>1. PICK batch \in SUBSET NewPairs : relations' = relations \cup batch
    BY <1>4 DEF Correlate
  <2>2. Ends(relations') \subseteq Stored /\ relations' \subseteq Pairs
    BY <2>1 DEF Inv, Types, DbTypes, NewPairs, Ends
  <2>3. DbTypes' /\ Stored' = Stored
    BY <1>4, <2>2 DEF Correlate, Inv, Types, DbTypes, Stored
  <2> QED  BY <1>4, <2>1, <2>3, WriterStep DEF Correlate
<1>5. ASSUME NEW r \in Readers, Begin(r)
      PROVE  Inv'
  <2>1. ReaderTypes'
    <3>1. First[kind[r]] \in PCs
      <4>1. kind[r] \in Kinds
        BY DEF Inv, Types, ReaderTypes
      <4>2. /\ First["summary"] \in PCs /\ First["adaptive"] \in PCs /\ First["report"] \in PCs
            /\ First["listing"] \in PCs /\ First["target"] \in PCs
        BY DEF First, PCs
      <4> QED  BY <4>1, <4>2 DEF Kinds
    <3>2. pc' \in [Readers -> PCs]
      BY <1>5, <3>1 DEF Begin, Goto, Inv, Types, ReaderTypes
    <3>3. view' \in [Readers -> Seq(Targets)]
      <4>1. view \in [Readers -> Seq(Targets)] /\ links \in Seq(Targets)
        BY DEF Inv, Types, ReaderTypes, DbTypes
      <4>2. CASE kind[r] = "target"
        <5>1. PICK t \in Targets : view' = [view EXCEPT ![r] = <<t>>]
          BY <1>5, <4>2 DEF Begin
        <5>2. <<t>> \in Seq(Targets)
          OBVIOUS
        <5> QED  BY <4>1, <5>1, <5>2
      <4>3. CASE kind[r] # "target"
        BY <1>5, <4>1, <4>3 DEF Begin
      <4> QED  BY <4>2, <4>3
    <3>4. atStart' \in [Readers -> SUBSET FindingIds]
      BY <1>5 DEF Begin, Inv, Types, ReaderTypes, Stored
    <3> QED  BY <1>5, <3>2, <3>3, <3>4 DEF Begin, Inv, Types, ReaderTypes
  <2>2. /\ pc'[r] \in {"counting", "scanning", "findings", "links", "link"}
        /\ atStart'[r] = Stored
    BY <1>5 DEF Begin, Goto, Inv, Types, ReaderTypes, First, Kinds
  <2>3. rels'[r] = {} /\ Stored' = Stored
    BY <1>5 DEF Begin, Inv, ReaderInv, Before, PCs, db, Stored
  <2>4. ReaderInv(r)'
    BY <2>2, <2>3 DEF ReaderInv, Before, Listing, Answered, Ends
  <2>5. \A q \in Readers \ {r} : /\ pc'[q] = pc[q] /\ view'[q] = view[q]
                                 /\ atStart'[q] = atStart[q]
    BY <1>5 DEF Begin, Goto, Inv, Types, ReaderTypes
  <2> QED  BY <1>5, <2>1, <2>4, <2>5, ReaderStep DEF Begin
<1>6. ASSUME NEW r \in Readers, Refuse(r) \/ Fail(r) \/ CheckLink(r) \/ AnswerSummary(r)
      PROVE  Inv'
  <2>1. UNCHANGED <<db, kind, data, atStart>>
    BY <1>6 DEF Refuse, Fail, CheckLink, AnswerSummary
  <2>2. PICK place \in {"refused", "failed", "findings", "answered"} : Goto(r, place)
    BY <1>6 DEF Refuse, Fail, CheckLink, AnswerSummary
  <2>3. place = "answered" \/ place = "findings" => Before(r)
    BY <1>6, <2>2 DEF Refuse, Fail, CheckLink, AnswerSummary, Goto, Before, PCs,
       Inv, Types, ReaderTypes
  <2>4. ReaderTypes'
    BY <2>1, <2>2 DEF Goto, data, Inv, Types, ReaderTypes, PCs
  <2>5. pc'[r] = place /\ \A q \in Readers \ {r} : pc'[q] = pc[q]
    BY <2>2 DEF Goto, Inv, Types, ReaderTypes
  <2>6. ReaderInv(r) /\ (~Before(r) => place \in {"refused", "failed"})
    BY <2>3 DEF Inv
  <2>7. Before(r) \/ pc[r] \in {"details", "answered", "failed"}
    BY DEF Before, Inv, Types, ReaderTypes
  <2>8. place = "refused" => Before(r)
    BY <1>6, <2>2, <2>7 DEF Refuse, Fail, CheckLink, AnswerSummary, Goto, Inv, Types, ReaderTypes
  <2>9. Viewed(r)' = Viewed(r) /\ Stored' = Stored
    BY <2>1 DEF data, db, Viewed, Stored
  <2>10. ReaderInv(r)'
    BY <2>1, <2>3, <2>5, <2>6, <2>8, <2>9
       DEF ReaderInv, Before, Listing, Answered, data, db, Ends
  <2> QED  BY <2>1, <2>4, <2>5, <2>10, ReaderStep DEF data
<1>7. ASSUME NEW r \in Readers,
             LoadAfterScan(r) \/ CountFindings(r) \/ CountEvidence(r) \/ SelectLinks(r)
      PROVE  Inv'
  <2>1. /\ UNCHANGED <<db, kind, atStart, listed, rels, details>>
        /\ view' \in [Readers -> Seq(Targets)]
        /\ \A q \in Readers \ {r} : view'[q] = view[q]
    BY <1>7 DEF LoadAfterScan, CountFindings, CountEvidence, SelectLinks, db,
       Inv, Types, DbTypes, ReaderTypes
  <2>2. PICK place \in {"counting", "counting evidence", "answered", "findings"} : Goto(r, place)
    BY <1>7 DEF LoadAfterScan, CountFindings, CountEvidence, SelectLinks
  <2>3. Before(r)
    BY <1>7 DEF LoadAfterScan, CountFindings, CountEvidence, SelectLinks, Before, PCs
  <2>4. /\ pc' \in [Readers -> PCs] /\ pc'[r] = place
        /\ \A q \in Readers \ {r} : pc'[q] = pc[q]
    BY <2>2 DEF Goto, Inv, Types, ReaderTypes, PCs
  <2>5. ReaderTypes'
    BY <2>1, <2>4 DEF Inv, Types, ReaderTypes
  <2>6. rels'[r] = {} /\ Stored' = Stored /\ atStart'[r] \subseteq Stored
    BY <2>1, <2>3 DEF Inv, ReaderInv, db, Stored
  <2>7. ReaderInv(r)'
    BY <2>4, <2>6 DEF ReaderInv, Before, Listing, Answered, Ends
  <2> QED  BY <2>1, <2>4, <2>5, <2>7, ReaderStep
<1>8. ASSUME NEW r \in Readers, SelectFindings(r)
      PROVE  Inv'
  <2> DEFINE found == Stored \cap Of(Viewed(r))
  <2>1. /\ UNCHANGED <<db, kind, atStart, view, rels, details>>
        /\ listed' = [listed EXCEPT ![r] = found]
    BY <1>8 DEF SelectFindings
  <2>2. PICK place \in {"answered", "relations", "evidence"} : Goto(r, place)
    BY <1>8 DEF SelectFindings
  <2>3. /\ pc' \in [Readers -> PCs] /\ pc'[r] = place
        /\ \A q \in Readers \ {r} : pc'[q] = pc[q]
    BY <2>2 DEF Goto, Inv, Types, ReaderTypes, PCs
  <2>4. ReaderTypes'
    BY <2>1, <2>3 DEF Inv, Types, ReaderTypes, Stored
  <2>5. rels'[r] = {}
    BY <1>8, <2>1 DEF SelectFindings, Before, PCs, Inv, ReaderInv
  <2>6. /\ listed'[r] = found /\ Stored' = Stored /\ Viewed(r)' = Viewed(r)
        /\ atStart'[r] \subseteq Stored
    BY <2>1 DEF Inv, Types, ReaderTypes, ReaderInv, db, Stored, Viewed
  <2>7. ReaderInv(r)'
    BY <2>3, <2>5, <2>6 DEF ReaderInv, Before, Listing, Answered, Ends, Of
  <2> QED  BY <2>1, <2>3, <2>4, <2>7, ReaderStep DEF Inv, Types, ReaderTypes
<1>9. ASSUME NEW r \in Readers, SelectEvidence(r)
      PROVE  Inv'
  <2>1. UNCHANGED <<db, kind, atStart, view, listed, rels, details>>
    BY <1>9 DEF SelectEvidence
  <2>2. PICK place \in {"answered", "relations"} : Goto(r, place)
    BY <1>9 DEF SelectEvidence
  <2>3. /\ pc' \in [Readers -> PCs] /\ pc'[r] = place
        /\ \A q \in Readers \ {r} : pc'[q] = pc[q]
    BY <2>2 DEF Goto, Inv, Types, ReaderTypes, PCs
  <2>4. ReaderTypes'
    BY <2>1, <2>3 DEF Inv, Types, ReaderTypes
  <2>5. Stored' = Stored /\ Viewed(r)' = Viewed(r) /\ Of(Viewed(r))' = Of(Viewed(r))
    BY <2>1 DEF db, Stored, Viewed, Of
  <2>6. Listing(r) /\ Before(r) /\ ReaderInv(r)
    BY <1>9 DEF SelectEvidence, Listing, Before, PCs, Inv
  <2>7. ReaderInv(r)'
    BY <2>1, <2>3, <2>5, <2>6 DEF ReaderInv, Before, Listing, Answered, Ends
  <2> QED  BY <2>1, <2>3, <2>4, <2>7, ReaderStep
<1>10. ASSUME NEW r \in Readers, SelectRelations(r)
       PROVE  Inv'
  <2>1. /\ UNCHANGED <<db, kind, atStart, view, listed, details>>
        /\ rels' = [rels EXCEPT ![r] = TouchingListed(r)]
    BY <1>10 DEF SelectRelations
  <2>2. PICK place \in {"answered", "details"} :
          /\ Goto(r, place)
          /\ kind[r] = "listing" /\ TouchingListed(r) # {} => place = "details"
    BY <1>10 DEF SelectRelations
  <2>3. /\ pc' \in [Readers -> PCs] /\ pc'[r] = place
        /\ \A q \in Readers \ {r} : pc'[q] = pc[q]
    BY <2>2 DEF Goto, Inv, Types, ReaderTypes, PCs
  <2>4. rels'[r] = TouchingListed(r) /\ rels'[r] \subseteq relations
        /\ rels' \in [Readers -> SUBSET Pairs]
        /\ \A q \in Readers \ {r} : rels'[q] = rels[q]
    BY <2>1 DEF TouchingListed, Inv, Types, DbTypes, ReaderTypes
  <2>5. ReaderTypes'
    BY <2>1, <2>3, <2>4 DEF Inv, Types, ReaderTypes
  <2>6. Stored' = Stored /\ Viewed(r)' = Viewed(r) /\ Of(Viewed(r))' = Of(Viewed(r))
    BY <2>1 DEF db, Stored, Viewed, Of
  <2>7. ReaderInv(r) /\ atStart[r] \cap Of(Viewed(r)) \subseteq listed[r]
    BY <1>10 DEF SelectRelations, Listing, Inv, ReaderInv
  <2>8. \A p \in rels'[r] : {p[1], p[2]} \cap listed[r] # {}
    BY <2>4 DEF TouchingListed
  <2>9. \A f \in atStart[r] : TargetOf[f] \in Viewed(r) => f \in listed[r]
    BY <2>7 DEF Of, Inv, Types, ReaderTypes
  <2>10. Answered(r)' /\ kind'[r] = "listing" => rels'[r] = {}
    BY <2>1, <2>2, <2>3, <2>4 DEF Answered
  <2>11. ReaderInv(r)'
    BY <2>1, <2>2, <2>3, <2>4, <2>6, <2>7, <2>8, <2>9, <2>10
       DEF ReaderInv, Before, Listing, db, Ends
  <2> QED  BY <2>1, <2>3, <2>4, <2>5, <2>11, ReaderStep
<1>11. ASSUME NEW r \in Readers, SelectDetails(r)
       PROVE  Inv'
  <2>1. /\ UNCHANGED <<db, kind, atStart, view, listed, rels>>
        /\ details' = [details EXCEPT ![r] = EndsOf(r)]
        /\ Goto(r, "answered")
    BY <1>11 DEF SelectDetails
  <2>2. /\ pc' \in [Readers -> PCs] /\ pc'[r] = "answered"
        /\ \A q \in Readers \ {r} : pc'[q] = pc[q]
    BY <2>1 DEF Goto, Inv, Types, ReaderTypes, PCs
  <2>3. EndsOf(r) \subseteq FindingIds
    BY DEF EndsOf, Stored
  <2>4. /\ ReaderTypes' /\ details'[r] = EndsOf(r)
        /\ \A q \in Readers \ {r} : details'[q] = details[q]
    BY <2>1, <2>2, <2>3 DEF Inv, Types, ReaderTypes
  <2>5. ReaderInv(r)
    BY DEF Inv
  <2>6. Ends(rels[r]) \subseteq EndsOf(r)
    BY <2>5 DEF Inv, Types, DbTypes, ReaderInv, EndsOf, Ends
  <2>7. Stored' = Stored /\ Viewed(r)' = Viewed(r)
    BY <2>1 DEF db, Stored, Viewed
  <2>8. ReaderInv(r)'
    BY <2>1, <2>2, <2>4, <2>5, <2>6, <2>7 DEF ReaderInv, Before, Listing, Answered, db, Ends
  <2> QED  BY <2>1, <2>2, <2>4, <2>8, ReaderStep
<1> QED  BY <1>1, <1>2, <1>3, <1>4, <1>5, <1>6, <1>7, <1>8, <1>9, <1>10, <1>11 DEF Next

LEMMA InvAlways == Spec => []Inv
BY InvInit, InvStep, PTL DEF Spec

-----------------------------------------------------------------------------
\* A relation that a report or listing names has an end among the findings it lists,
\* and any end it leaves out is not one it should have had (RelationsTraceable).
THEOREM RelationsAreTraceable == Spec => []RelationsTraceable
<1>1. Inv => RelationsTraceable
  BY DEF Inv, ReaderInv, RelationsTraceable
<1> QED  BY <1>1, InvAlways, PTL

\* No listing names a relation with an end it cannot describe (ListingDescribed).
THEOREM ListingsAreDescribed == Spec => []ListingDescribed
<1>1. Inv => ListingDescribed
  BY DEF Inv, ReaderInv, ListingDescribed
<1> QED  BY <1>1, InvAlways, PTL

-----------------------------------------------------------------------------
(* The counts                                                              *)

\* The findings of the targets before the n-th of a view.
UpTo(v, n) == Of({v[m] : m \in {m \in DOMAIN v : m < n}})
Counted(r, n) == UpTo(view[r], n)

\* What the counts of an answer may be when findings have been counted for the
\* targets of S and evidence for those of T.
Within(r, S, T) ==
  /\ Cardinality(atStart[r] \cap S) <= counts[r].findings
  /\ counts[r].findings <= Cardinality(Stored \cap S)
  /\ counts[r].evidence <= Evidence(T)
  /\ current[r] => /\ counts[r].findings = Cardinality(Stored \cap S)
                   /\ counts[r].evidence = Evidence(T)
InStep(r) == counts[r].findings <= counts[r].evidence

Mine(r)     == Stored \cap Of(Viewed(r))
Touching(S) == {p \in relations : {p[1], p[2]} \cap S # {}}

\* Before anything is counted.
UnreadInv(r) ==
  pc[r] \in {"start", "scanning", "links", "link", "findings"} =>
    next[r] = 1 /\ counts[r] = [findings |-> 0, evidence |-> 0]

\* While a summary counts link after link.
CountingInv(r) ==
  /\ pc[r] = "counting" =>
       /\ next[r] \in 1 .. Len(view[r]) + 1
       /\ InStep(r)
       /\ DistinctView(r) => Within(r, Counted(r, next[r]), Counted(r, next[r]))
  /\ pc[r] = "counting evidence" =>
       /\ next[r] \in 1 .. Len(view[r])
       /\ counts[r].findings <= counts[r].evidence + Evidence(Of({view[r][next[r]]}))
       /\ DistinctView(r) => Within(r, Counted(r, next[r] + 1), Counted(r, next[r]))

\* While a report or listing selects.
SelectingInv(r) ==
  /\ pc[r] \in {"evidence", "relations"} =>
       /\ listed[r] \subseteq Mine(r)
       /\ current[r] => listed[r] = Mine(r)
  /\ pc[r] = "evidence" =>
       counts[r] = [findings |-> Cardinality(listed[r]), evidence |-> 0]
  /\ pc[r] = "details" => (current[r] => rels[r] = Touching(Mine(r)))

\* When all counts are made.
CountedInv(r) ==
  /\ (pc[r] = "relations" \/ Answered(r)) /\ kind[r] # "listing" =>
       /\ InStep(r)
       /\ Countable(r) => Within(r, Of(Viewed(r)), Of(Viewed(r)))
  /\ Answered(r) /\ current[r] /\ kind[r] \in {"report", "listing"} =>
       rels[r] = Touching(Mine(r))

\* Which places belong to which kind of request.
PlaceInv(r) ==
  /\ pc[r] \in {"scanning", "counting", "counting evidence"} => Summary(r)
  /\ pc[r] \in {"links", "details"} => kind[r] = "listing"
  /\ pc[r] \in {"link", "findings", "evidence", "relations"} => ~Summary(r)
  /\ pc[r] = "evidence" => kind[r] # "listing"
  /\ pc[r] = "relations" => kind[r] # "target"
  /\ pc[r] \notin {"start", "refused", "failed"} /\ kind[r] # "target" /\ current[r] =>
       view[r] = links

CountsInv(r) == /\ PlaceInv(r) /\ UnreadInv(r) /\ CountingInv(r)
                /\ SelectingInv(r) /\ CountedInv(r)
CountInv == \A r \in Readers : CountsInv(r)

\* Types of what is counted.
CountTypes ==
  /\ next \in [Readers -> Nat]
  /\ counts \in [Readers -> [findings : Nat, evidence : Nat]]
  /\ current \in [Readers -> BOOLEAN]

-----------------------------------------------------------------------------
(* Counting findings and rows of evidence                                  *)

LEMMA CountsAreNumbers ==
  ASSUME NEW S \in SUBSET FindingIds
  PROVE  /\ IsFiniteSet(S) /\ Cardinality(S) \in Nat
         /\ IsFiniteSet(Rows(S)) /\ Evidence(S) \in Nat
<1>1. IsFiniteSet(S)
  BY ReportAssumption, FS_Subset
<1>2. IsFiniteSet(1 .. MaxEvidence)
  BY ReportAssumption, FS_Interval
<1>3. IsFiniteSet(S \X (1 .. MaxEvidence))
  BY <1>1, <1>2, FS_Product
<1>4. Rows(S) \in SUBSET (S \X (1 .. MaxEvidence))
  BY DEF Rows
<1>5. IsFiniteSet(Rows(S))
  BY <1>3, <1>4, FS_Subset
<1> QED  BY <1>1, <1>5, FS_CardinalityType DEF Evidence

\* More findings have more rows.
LEMMA CountsAreMonotonic ==
  ASSUME NEW T \in SUBSET FindingIds, NEW S \in SUBSET T
  PROVE  Cardinality(S) <= Cardinality(T) /\ Evidence(S) <= Evidence(T)
<1>1. IsFiniteSet(T) /\ IsFiniteSet(Rows(T))
  BY CountsAreNumbers
<1>2. Rows(S) \in SUBSET Rows(T)
  BY DEF Rows
<1> QED  BY <1>1, <1>2, FS_Subset DEF Evidence

\* What is counted in two parts is counted once.
LEMMA PartsAdd ==
  ASSUME NEW A, NEW B, IsFiniteSet(A), IsFiniteSet(B), A \cap B = {}
  PROVE  Cardinality(A \cup B) = Cardinality(A) + Cardinality(B)
<1>1. Cardinality(A) \in Nat /\ Cardinality(B) \in Nat
  BY FS_CardinalityType
<1>2. Cardinality(A \cap B) = 0
  BY FS_EmptySet
<1>3. Cardinality(A \cup B) = Cardinality(A) + Cardinality(B) - Cardinality(A \cap B)
  BY FS_Union
<1> QED  BY <1>1, <1>2, <1>3

LEMMA CountsAdd ==
  ASSUME NEW A \in SUBSET FindingIds, NEW B \in SUBSET FindingIds, A \cap B = {}
  PROVE  /\ \A X \in SUBSET FindingIds :
              Cardinality(X \cap (A \cup B)) = Cardinality(X \cap A) + Cardinality(X \cap B)
         /\ Evidence(A \cup B) = Evidence(A) + Evidence(B)
<1>1. ASSUME NEW X \in SUBSET FindingIds
      PROVE  Cardinality(X \cap (A \cup B)) = Cardinality(X \cap A) + Cardinality(X \cap B)
  <2>1. IsFiniteSet(X \cap A) /\ IsFiniteSet(X \cap B)
    BY CountsAreNumbers
  <2>2. (X \cap A) \cap (X \cap B) = {}
    OBVIOUS
  <2>3. Cardinality((X \cap A) \cup (X \cap B)) = Cardinality(X \cap A) + Cardinality(X \cap B)
    BY <2>1, <2>2, PartsAdd
  <2>4. X \cap (A \cup B) = (X \cap A) \cup (X \cap B)
    OBVIOUS
  <2> QED  BY <2>3, <2>4
<1>2. Evidence(A \cup B) = Evidence(A) + Evidence(B)
  <2>1. IsFiniteSet(Rows(A)) /\ IsFiniteSet(Rows(B))
    BY CountsAreNumbers
  <2>2. Rows(A) \cap Rows(B) = {}
    BY DEF Rows
  <2>3. Cardinality(Rows(A) \cup Rows(B)) = Cardinality(Rows(A)) + Cardinality(Rows(B))
    BY <2>1, <2>2, PartsAdd
  <2>4. Rows(A \cup B) = Rows(A) \cup Rows(B)
    BY DEF Rows
  <2> QED  BY <2>3, <2>4 DEF Evidence
<1> QED  BY <1>1, <1>2

\* A stored finding has a row; only stored ones do.
LEMMA StoredHaveEvidence ==
  ASSUME DbTypes, NEW S \in SUBSET FindingIds
  PROVE  Cardinality(Stored \cap S) <= Evidence(S) /\ Evidence(S) = Evidence(Stored \cap S)
<1> DEFINE M == Stored \cap S
           f == [x \in M |-> <<x, 1>>]
<1>1. \A x \in M : evidence[x] \in 1 .. MaxEvidence
  BY DEF Stored, DbTypes
<1>2. f \in Injection(M, Rows(S))
  <2>1. \A x \in M : <<x, 1>> \in Rows(S)
    BY <1>1, ReportAssumption DEF Rows
  <2>2. \A x, y \in M : f[x] = f[y] => x = y
    OBVIOUS
  <2> QED  BY <2>1, <2>2 DEF Injection, IsInjective
<1>3. IsFiniteSet(Rows(S))
  BY CountsAreNumbers
<1>4. Cardinality(M) <= Cardinality(Rows(S))
  BY <1>2, <1>3, FS_Injection
<1>5. Rows(S) = Rows(M)
  <2>1. ASSUME NEW row \in Rows(S)
        PROVE  row \in Rows(M)
    <3>1. row[1] \in S /\ row[2] \in 1 .. MaxEvidence /\ row[2] <= evidence[row[1]]
          /\ row = <<row[1], row[2]>>
      BY DEF Rows
    <3>2. row[1] \in Stored
      BY <3>1, ReportAssumption DEF Stored, DbTypes
    <3> QED  BY <3>1, <3>2 DEF Rows
  <2> QED  BY <2>1 DEF Rows
<1> QED  BY <1>4, <1>5 DEF Evidence

\* Rows are only added.
LEMMA EvidenceGrows ==
  ASSUME DbTypes, DbTypes', NEW S \in SUBSET FindingIds,
         \A f \in FindingIds : evidence[f] <= evidence'[f]
  PROVE  Evidence(S) <= Evidence(S)' /\ Evidence(S)' \in Nat
<1> DEFINE G == {row \in S \X (1 .. MaxEvidence) : row[2] <= evidence'[row[1]]}
<1>1. IsFiniteSet(G)
  <2>1. IsFiniteSet(S) /\ IsFiniteSet(1 .. MaxEvidence)
    BY CountsAreNumbers, ReportAssumption, FS_Interval
  <2>2. IsFiniteSet(S \X (1 .. MaxEvidence))
    BY <2>1, FS_Product
  <2> QED  BY <2>2, FS_Subset
<1>2. Rows(S) \in SUBSET G
  <2> SUFFICES ASSUME NEW row \in Rows(S)
               PROVE  row \in G
    OBVIOUS
  <2>1. row \in S \X (1 .. MaxEvidence) /\ row[2] <= evidence[row[1]]
    BY DEF Rows
  <2>2. evidence[row[1]] \in Int /\ evidence'[row[1]] \in Int
        /\ evidence[row[1]] <= evidence'[row[1]]
    BY <2>1, ReportAssumption DEF DbTypes
  <2> QED  BY <2>1, <2>2
<1>3. Cardinality(Rows(S)) <= Cardinality(G)
  BY <1>1, <1>2, FS_Subset
<1>4. Cardinality(G) \in Nat
  BY <1>1, FS_CardinalityType
<1> QED  BY <1>3, <1>4 DEF Evidence, Rows

\* The targets of a view, one after the other.
LEMMA NextLink ==
  ASSUME NEW v \in Seq(Targets)
  PROVE  /\ UpTo(v, 1) = {}
         /\ UpTo(v, Len(v) + 1) = Of(Range(v))
         /\ \A n \in 1 .. Len(v) :
              /\ UpTo(v, n + 1) = UpTo(v, n) \cup Of({v[n]})
              /\ IsInjective(v) => UpTo(v, n) \cap Of({v[n]}) = {}
<1>1. DOMAIN v = 1 .. Len(v) /\ Len(v) \in Nat
  OBVIOUS
<1>2. UpTo(v, 1) = {} /\ UpTo(v, Len(v) + 1) = Of(Range(v))
  BY <1>1 DEF UpTo, Of, Range
<1>3. ASSUME NEW n \in 1 .. Len(v)
      PROVE  /\ UpTo(v, n + 1) = UpTo(v, n) \cup Of({v[n]})
             /\ IsInjective(v) => UpTo(v, n) \cap Of({v[n]}) = {}
  <2>1. {m \in DOMAIN v : m < n + 1} = {m \in DOMAIN v : m < n} \cup {n}
    BY <1>1
  <2> QED  BY <1>1, <2>1 DEF UpTo, Of, IsInjective
<1> QED  BY <1>2, <1>3

-----------------------------------------------------------------------------
AllInv == Inv /\ CountTypes /\ CountInv

\* Commits of other requests add rows and outdate every request.
LEMMA WriterCounts ==
  ASSUME AllInv, UNCHANGED <<kind, pc, data, atStart>>, Outdate, DbTypes',
         Stored \subseteq Stored', \A f \in FindingIds : evidence[f] <= evidence'[f]
  PROVE  CountTypes' /\ CountInv'
<1>1. CountTypes'
  BY DEF AllInv, CountTypes, Outdate, data
<1>2. ASSUME NEW r \in Readers
      PROVE  CountsInv(r)'
  <2>1. CountsInv(r) /\ ~current'[r]
    BY DEF AllInv, CountInv, Outdate
  <2>2. /\ Viewed(r)' = Viewed(r) /\ Of(Viewed(r))' = Of(Viewed(r))
        /\ DistinctView(r)' = DistinctView(r) /\ Summary(r)' = Summary(r)
        /\ Countable(r)' = Countable(r) /\ InStep(r)' = InStep(r)
        /\ Answered(r)' = Answered(r)
        /\ \A n : Counted(r, n)' = Counted(r, n)
        /\ Of({view[r][next[r]]})' = Of({view[r][next[r]]})
    BY DEF Viewed, data, Of, DistinctView, Summary, Countable, InStep, Answered, Counted, UpTo
  <2>3. \A S, T \in SUBSET FindingIds : Within(r, S, T) => Within(r, S, T)'
    <3> SUFFICES ASSUME NEW S \in SUBSET FindingIds, NEW T \in SUBSET FindingIds, Within(r, S, T)
                 PROVE  Within(r, S, T)'
      OBVIOUS
    <3>1. Cardinality(Stored \cap S) <= Cardinality(Stored' \cap S)
      <4>1. Stored' \cap S \in SUBSET FindingIds /\ Stored \cap S \in SUBSET (Stored' \cap S)
        OBVIOUS
      <4> QED  BY <4>1, CountsAreMonotonic
    <3>2. Evidence(T) <= Evidence(T)' /\ Evidence(T)' \in Nat
      BY EvidenceGrows DEF AllInv, Inv, Types
    <3>3. /\ Cardinality(Stored \cap S) \in Nat /\ Cardinality(Stored' \cap S) \in Nat
          /\ Evidence(T) \in Nat
      <4>1. Stored \cap S \in SUBSET FindingIds /\ Stored' \cap S \in SUBSET FindingIds
        OBVIOUS
      <4> QED  BY <4>1, CountsAreNumbers
    <3>4. counts[r].findings \in Nat /\ counts[r].evidence \in Nat
      BY DEF AllInv, CountTypes
    <3> QED  BY <2>1, <3>1, <3>2, <3>3, <3>4 DEF Within, data
  <2>4. Of(Viewed(r)) \in SUBSET FindingIds /\ \A n : Counted(r, n) \in SUBSET FindingIds
    BY DEF Of, Counted, UpTo
  <2>5. PlaceInv(r)' /\ UnreadInv(r)'
    BY <2>1, <2>2 DEF CountsInv, PlaceInv, UnreadInv, data
  <2>6. CountingInv(r)'
    <3> DEFINE X == Of({view[r][next[r]]})
    <3>1. Evidence(X) <= Evidence(X)' /\ Evidence(X) \in Nat /\ Evidence(X)' \in Nat
      <4>1. \A S \in SUBSET FindingIds :
              Evidence(S) <= Evidence(S)' /\ Evidence(S) \in Nat /\ Evidence(S)' \in Nat
        BY EvidenceGrows, CountsAreNumbers DEF AllInv, Inv, Types
      <4> QED  BY <2>2, <4>1 DEF Of
    <3>2. counts[r].findings \in Nat /\ counts[r].evidence \in Nat
      BY DEF AllInv, CountTypes
    <3>3. pc'[r] = pc[r] /\ next'[r] = next[r] /\ view'[r] = view[r] /\ counts'[r] = counts[r]
      BY DEF data
    <3>4. CountingInv(r)
      BY <2>1 DEF CountsInv
    <3>5. PICK A, B : A = Counted(r, next[r]) /\ B = Counted(r, next[r] + 1)
      OBVIOUS
    <3>6. Counted(r, next[r])' = A /\ Counted(r, next[r] + 1)' = B
      BY <3>3, <3>5 DEF Counted, UpTo, Of
    <3>7. /\ Within(r, A, A) => Within(r, A, A)'
          /\ Within(r, B, A) => Within(r, B, A)'
      BY <2>3, <2>4, <3>5
    <3>8. /\ Within(r, Counted(r, next[r]), Counted(r, next[r]))' <=> Within(r, A, A)'
          /\ Within(r, Counted(r, next[r] + 1), Counted(r, next[r]))' <=> Within(r, B, A)'
      BY <3>6 DEF Within, Evidence, Rows
    <3>9. pc'[r] = "counting" =>
            /\ next'[r] \in 1 .. Len(view'[r]) + 1
            /\ InStep(r)'
            /\ DistinctView(r)' => Within(r, Counted(r, next[r]), Counted(r, next[r]))'
      BY <2>2, <3>3, <3>4, <3>5, <3>7, <3>8 DEF CountingInv
    <3>10. pc'[r] = "counting evidence" =>
             /\ next'[r] \in 1 .. Len(view'[r])
             /\ counts'[r].findings <= counts'[r].evidence + Evidence(X)'
             /\ DistinctView(r)' => Within(r, Counted(r, next[r] + 1), Counted(r, next[r]))'
      <4>1. ASSUME pc'[r] = "counting evidence"
            PROVE  counts'[r].findings <= counts'[r].evidence + Evidence(X)'
        <5>1. counts[r].findings <= counts[r].evidence + Evidence(X)
          BY <3>3, <3>4, <4>1 DEF CountingInv
        <5> HIDE DEF X
        <5> QED  BY <3>1, <3>2, <3>3, <5>1
      <4> QED  BY <2>2, <3>3, <3>4, <3>5, <3>7, <3>8, <4>1 DEF CountingInv
    <3> QED  BY <3>9, <3>10 DEF CountingInv
  <2>7. SelectingInv(r)'
    BY <2>1, <2>2 DEF CountsInv, SelectingInv, Mine, data
  <2>8. CountedInv(r)'
    BY <2>1, <2>2, <2>3, <2>4 DEF CountsInv, CountedInv, data
  <2> QED  BY <2>5, <2>6, <2>7, <2>8 DEF CountsInv
<1> QED  BY <1>1, <1>2 DEF CountInv

\* A reader that does not step keeps its answer as it is.
LEMMA SameCounts ==
  ASSUME AllInv, NEW q \in Readers, UNCHANGED <<db, kind>>,
         /\ pc'[q] = pc[q] /\ view'[q] = view[q] /\ next'[q] = next[q] /\ listed'[q] = listed[q]
         /\ counts'[q] = counts[q] /\ rels'[q] = rels[q] /\ atStart'[q] = atStart[q]
         /\ current'[q] = current[q]
  PROVE  CountsInv(q)'
<1>1. CountsInv(q)
  BY DEF AllInv, CountInv
<1>2. /\ Viewed(q)' = Viewed(q) /\ DistinctView(q)' = DistinctView(q)
      /\ Summary(q)' = Summary(q) /\ Countable(q)' = Countable(q) /\ InStep(q)' = InStep(q)
      /\ Answered(q)' = Answered(q) /\ Mine(q)' = Mine(q)
      /\ \A S : Touching(S)' = Touching(S)
  BY DEF Viewed, DistinctView, Summary, Countable, InStep, Answered, Mine, Touching,
         Stored, Of, db
<1>3. PICK A, B, V, X : /\ A = Counted(q, next[q]) /\ B = Counted(q, next[q] + 1)
                        /\ V = Of(Viewed(q)) /\ X = Of({view[q][next[q]]})
  OBVIOUS
<1>4. /\ Counted(q, next[q])' = A /\ Counted(q, next[q] + 1)' = B
      /\ Of(Viewed(q))' = V /\ Of({view[q][next[q]]})' = X
  BY <1>2, <1>3 DEF Counted, UpTo, Of
<1>5. \A S, T : Within(q, S, T)' <=> Within(q, S, T)
  BY DEF Within, Evidence, Rows, Stored, db
<1>6. /\ Within(q, Counted(q, next[q]), Counted(q, next[q]))' <=> Within(q, A, A)'
      /\ Within(q, Counted(q, next[q] + 1), Counted(q, next[q]))' <=> Within(q, B, A)'
      /\ Within(q, Of(Viewed(q)), Of(Viewed(q)))' <=> Within(q, V, V)'
  BY <1>4 DEF Within, Evidence, Rows
<1>7. Evidence(Of({view[q][next[q]]}))' = Evidence(X)
  BY <1>4 DEF Evidence, Rows, db
<1>8. PlaceInv(q)' /\ UnreadInv(q)'
  BY <1>1, <1>2 DEF CountsInv, PlaceInv, UnreadInv, db
<1>9. CountingInv(q)'
  BY <1>1, <1>2, <1>3, <1>5, <1>6, <1>7 DEF CountsInv, CountingInv
<1>10. Touching(Mine(q))' = Touching(Mine(q))
  BY <1>2 DEF Touching, db
<1>11. SelectingInv(q)'
  BY <1>1, <1>2, <1>10 DEF CountsInv, SelectingInv
<1>12. CountedInv(q)'
  BY <1>1, <1>2, <1>3, <1>5, <1>6, <1>10 DEF CountsInv, CountedInv
<1> QED  BY <1>8, <1>9, <1>11, <1>12 DEF CountsInv

\* A step of a reader leaves the others as they are.
LEMMA ReaderCounts ==
  ASSUME AllInv, NEW r \in Readers, UNCHANGED <<db, kind>>, CountTypes',
         \A q \in Readers \ {r} :
           /\ pc'[q] = pc[q] /\ view'[q] = view[q] /\ next'[q] = next[q] /\ listed'[q] = listed[q]
           /\ counts'[q] = counts[q] /\ rels'[q] = rels[q] /\ atStart'[q] = atStart[q]
           /\ current'[q] = current[q],
         CountsInv(r)'
  PROVE  CountTypes' /\ CountInv'
BY SameCounts DEF CountInv

\* What the steps below use of the invariant.
LEMMA ReadFacts ==
  ASSUME AllInv, NEW r \in Readers
  PROVE  /\ kind[r] \in Kinds /\ pc[r] \in PCs
         /\ links \in Seq(Targets) /\ view[r] \in Seq(Targets) /\ next[r] \in Nat
         /\ counts[r] \in [findings : Nat, evidence : Nat] /\ current[r] \in BOOLEAN
         /\ listed[r] \subseteq FindingIds /\ Stored \subseteq FindingIds
         /\ atStart[r] \subseteq Stored
         /\ ReaderInv(r) /\ PlaceInv(r) /\ UnreadInv(r) /\ CountingInv(r)
         /\ SelectingInv(r) /\ CountedInv(r)
BY DEF AllInv, Inv, Types, DbTypes, ReaderTypes, CountTypes, CountInv, CountsInv, ReaderInv, Stored

\* With nothing counted yet, the counts fit.
LEMMA StartOfCount ==
  ASSUME AllInv, Inv', UNCHANGED db, NEW r \in Readers, pc'[r] = "counting",
         next'[r] = 1, counts'[r] = [findings |-> 0, evidence |-> 0]
  PROVE  CountingInv(r)'
<1>1. PICK v \in Seq(Targets) : v = view'[r]
  BY DEF Inv, Types, ReaderTypes
<1>2. Counted(r, next[r])' = {}
  BY <1>1, NextLink DEF Counted, UpTo, Of
<1>3. Cardinality({}) = 0 /\ Cardinality(Rows({})) = 0 /\ \A S : S \cap {} = {}
  <2>1. Rows({}) = {}
    BY DEF Rows
  <2> QED  BY <2>1, FS_EmptySet
<1>4. Rows({})' = Rows({})
  BY DEF Rows
<1>5. Within(r, {}, {})'
  BY <1>3, <1>4 DEF Within, Evidence
<1>6. Within(r, Counted(r, next[r]), Counted(r, next[r]))'
  BY <1>2, <1>5 DEF Within, Evidence, Rows
<1>7. next'[r] \in 1 .. Len(view'[r]) + 1
  BY <1>1
<1> QED  BY <1>6, <1>7 DEF CountingInv, InStep

\* One step of anybody keeps what is known of the counts.
LEMMA CountStep == AllInv /\ Inv' /\ [Next]_vars => CountTypes' /\ CountInv'
<1> SUFFICES ASSUME AllInv, Inv', [Next]_vars
             PROVE  CountTypes' /\ CountInv'
  OBVIOUS
<1> USE ReportAssumption
<1>1. CASE UNCHANGED vars
  <2>1. CountTypes'
    BY <1>1 DEF vars, data, AllInv, CountTypes
  <2>2. \A q \in Readers : CountsInv(q)'
    BY <1>1, SameCounts DEF vars, data
  <2> QED  BY <2>1, <2>2 DEF CountInv
<1>2. ASSUME NEW t \in Targets, AddLink(t)
      PROVE  CountTypes' /\ CountInv'
  <2>1. /\ DbTypes' /\ Stored' = Stored /\ \A f \in FindingIds : evidence[f] <= evidence'[f]
    BY <1>2 DEF AddLink, AllInv, Inv, Types, DbTypes, Stored
  <2> QED  BY <1>2, <2>1, WriterCounts DEF AddLink
<1>3. ASSUME NEW t \in Targets, NEW batch \in SUBSET FindingIds, Store(t, batch)
      PROVE  CountTypes' /\ CountInv'
  <2>1. DbTypes'
    BY DEF Inv, Types
  <2>2. \A f \in FindingIds : evidence[f] <= evidence'[f]
    BY <1>3 DEF Store, AllInv, Inv, Types, DbTypes
  <2>3. Stored \subseteq Stored'
    BY <1>3 DEF Store, AllInv, Inv, Types, DbTypes, Stored
  <2> QED  BY <1>3, <2>1, <2>2, <2>3, WriterCounts DEF Store
<1>4. CASE Correlate
  <2>1. DbTypes' /\ DbTypes
    BY DEF AllInv, Inv, Types
  <2>2. evidence' = evidence
    BY <1>4 DEF Correlate
  <2>3. Stored' = Stored /\ \A f \in FindingIds : evidence[f] <= evidence'[f]
    BY <2>1, <2>2 DEF DbTypes, Stored
  <2> QED  BY <1>4, <2>1, <2>3, WriterCounts DEF Correlate
<1>5. ASSUME NEW r \in Readers, Begin(r)
      PROVE  CountTypes' /\ CountInv'
  <2>1. /\ UNCHANGED <<db, kind, next, listed, counts, rels>>
        /\ pc[r] = "start" /\ pc' = [pc EXCEPT ![r] = First[kind[r]]]
        /\ current' = [current EXCEPT ![r] = TRUE]
        /\ kind[r] # "target" => view' = [view EXCEPT ![r] = links]
        /\ atStart' = [atStart EXCEPT ![r] = Stored]
    BY <1>5 DEF Begin, Goto
  <2>2. CountTypes'
    BY <2>1 DEF AllInv, CountTypes
  <2>3. \A q \in Readers \ {r} : pc'[q] = pc[q] /\ view'[q] = view[q] /\ atStart'[q] = atStart[q]
                                 /\ current'[q] = current[q]
    BY <1>5, <2>1 DEF Begin, AllInv, Inv, Types, ReaderTypes, CountTypes
  <2>4. pc'[r] = First[kind[r]] /\ (kind[r] # "target" => view'[r] = links)
    BY <2>1 DEF AllInv, Inv, Types, ReaderTypes
  <2>5. \/ kind[r] = "summary" /\ pc'[r] = "counting"
        \/ kind[r] = "adaptive" /\ pc'[r] = "scanning"
        \/ kind[r] = "report" /\ pc'[r] = "findings"
        \/ kind[r] = "listing" /\ pc'[r] = "links"
        \/ kind[r] = "target" /\ pc'[r] = "link"
    <3>1. kind[r] \in Kinds
      BY ReadFacts
    <3>2. /\ First["summary"] = "counting" /\ First["adaptive"] = "scanning"
          /\ First["report"] = "findings" /\ First["listing"] = "links" /\ First["target"] = "link"
      BY DEF First
    <3> QED  BY <2>4, <3>1, <3>2 DEF Kinds
  <2>6. PlaceInv(r)'
    BY <2>1, <2>4, <2>5 DEF PlaceInv, Summary, db
  <2>7. next'[r] = 1 /\ counts'[r] = [findings |-> 0, evidence |-> 0]
    BY <2>1, ReadFacts DEF UnreadInv
  <2>8. UnreadInv(r)'
    BY <2>7 DEF UnreadInv
  <2>9. CountingInv(r)'
    BY <2>1, <2>5, <2>7, StartOfCount DEF CountingInv
  <2>10. SelectingInv(r)' /\ CountedInv(r)'
    BY <2>5 DEF SelectingInv, CountedInv, Answered
  <2> QED  BY <2>1, <2>2, <2>3, <2>6, <2>8, <2>9, <2>10, ReaderCounts DEF CountsInv
<1>6. ASSUME NEW r \in Readers, Refuse(r) \/ Fail(r)
      PROVE  CountTypes' /\ CountInv'
  <2>1. /\ UNCHANGED <<db, kind, data, atStart, current>>
        /\ pc'[r] \in {"refused", "failed"} /\ \A q \in Readers \ {r} : pc'[q] = pc[q]
    BY <1>6 DEF Refuse, Fail, Goto, AllInv, Inv, Types, ReaderTypes
  <2>2. CountTypes'
    BY <2>1 DEF data, AllInv, CountTypes
  <2>3. CountsInv(r)'
    BY <2>1 DEF CountsInv, PlaceInv, UnreadInv, CountingInv, SelectingInv, CountedInv, Answered
  <2> QED  BY <2>1, <2>2, <2>3, ReaderCounts DEF data
<1>7. ASSUME NEW r \in Readers, LoadAfterScan(r)
      PROVE  CountTypes' /\ CountInv'
  <2>1. /\ UNCHANGED <<db, kind, next, listed, counts, rels, details, atStart, current>>
        /\ pc[r] = "scanning" /\ pc'[r] = "counting" /\ view'[r] \in {view[r], links}
        /\ \A q \in Readers \ {r} : pc'[q] = pc[q] /\ view'[q] = view[q]
    BY <1>7 DEF LoadAfterScan, Goto, AllInv, Inv, Types, ReaderTypes
  <2>2. CountTypes'
    BY <2>1 DEF AllInv, CountTypes
  <2>3. PlaceInv(r)'
    BY <2>1, ReadFacts DEF PlaceInv, Summary, db
  <2>4. CountingInv(r)'
    BY <2>1, ReadFacts, StartOfCount DEF UnreadInv
  <2>5. UnreadInv(r)' /\ SelectingInv(r)' /\ CountedInv(r)'
    BY <2>1 DEF UnreadInv, SelectingInv, CountedInv, Answered
  <2> QED  BY <2>1, <2>2, <2>3, <2>4, <2>5, ReaderCounts DEF CountsInv
<1>8. ASSUME NEW r \in Readers, CheckLink(r)
      PROVE  CountTypes' /\ CountInv'
  <2>1. /\ UNCHANGED <<db, kind, data, atStart, current>>
        /\ pc[r] = "link" /\ pc'[r] \in {"findings", "refused"}
        /\ \A q \in Readers \ {r} : pc'[q] = pc[q]
    BY <1>8 DEF CheckLink, Goto, AllInv, Inv, Types, ReaderTypes
  <2>2. CountTypes'
    BY <2>1 DEF data, AllInv, CountTypes
  <2>3. CountsInv(r)'
    BY <2>1, ReadFacts DEF CountsInv, PlaceInv, UnreadInv, CountingInv, SelectingInv,
       CountedInv, Answered, Summary, data, db
  <2> QED  BY <2>1, <2>2, <2>3, ReaderCounts DEF data
<1>9. ASSUME NEW r \in Readers, CountFindings(r)
      PROVE  CountTypes' /\ CountInv'
  <2> DEFINE v == view[r]
             C == Counted(r, next[r])
             X == Of({v[next[r]]})
             new == Cardinality(Stored \cap X)
  <2>1. /\ UNCHANGED <<db, kind, view, next, listed, rels, details, atStart, current>>
        /\ pc[r] = "counting" /\ pc'[r] = "counting evidence" /\ next[r] <= Len(v)
        /\ \A q \in Readers \ {r} : pc'[q] = pc[q]
    BY <1>9 DEF CountFindings, Goto, AllInv, Inv, Types, ReaderTypes
  <2>2. X \in SUBSET FindingIds /\ C \in SUBSET FindingIds /\ Stored \cap X \in SUBSET FindingIds
        /\ atStart[r] \in SUBSET FindingIds /\ Stored \in SUBSET FindingIds
    BY ReadFacts DEF Of, Counted, UpTo
  <2>3. new \in Nat /\ Evidence(X) \in Nat /\ new <= Evidence(X)
    BY <2>2, CountsAreNumbers, StoredHaveEvidence DEF AllInv, Inv, Types
  <2>4. counts' = [counts EXCEPT ![r].findings = @ + new]
    BY <1>9 DEF CountFindings, FindingsOf
  <2>5. /\ counts'[r].findings = counts[r].findings + new
        /\ counts'[r].evidence = counts[r].evidence
        /\ counts' \in [Readers -> [findings : Nat, evidence : Nat]]
        /\ \A q \in Readers \ {r} : counts'[q] = counts[q]
    BY <2>3, <2>4 DEF AllInv, CountTypes
  <2>6. CountTypes'
    BY <2>1, <2>5 DEF AllInv, CountTypes
  <2>7. next[r] \in 1 .. Len(v) /\ v \in Seq(Targets) /\ InStep(r)
        /\ (DistinctView(r) => Within(r, C, C))
    <3>1. CountingInv(r) /\ v \in Seq(Targets)
      BY ReadFacts
    <3>2. next[r] \in 1 .. Len(v) + 1 /\ InStep(r) /\ (DistinctView(r) => Within(r, C, C))
      BY <2>1, <3>1 DEF CountingInv
    <3>3. Len(v) \in Nat
      BY <3>1
    <3>4. next[r] \in 1 .. Len(v)
      <4>1. next[r] <= Len(v)
        BY <2>1
      <4> HIDE DEF v
      <4> QED  BY <3>2, <3>3, <4>1
    <3> QED  BY <3>1, <3>2, <3>4
  <2>8. ASSUME DistinctView(r)
        PROVE  /\ Cardinality(atStart[r] \cap (C \cup X)) <= counts[r].findings + new
               /\ counts[r].findings + new <= Cardinality(Stored \cap (C \cup X))
               /\ counts[r].evidence <= Evidence(C)
               /\ current[r] => /\ counts[r].findings + new = Cardinality(Stored \cap (C \cup X))
                                /\ counts[r].evidence = Evidence(C)
    <3>1. C \cap X = {}
      BY <2>7, <2>8, NextLink DEF Counted, DistinctView
    <3>2. /\ Cardinality(Stored \cap (C \cup X)) = Cardinality(Stored \cap C) + new
          /\ Cardinality(atStart[r] \cap (C \cup X))
               = Cardinality(atStart[r] \cap C) + Cardinality(atStart[r] \cap X)
      BY <2>2, <3>1, CountsAdd
    <3>3. Cardinality(atStart[r] \cap X) <= new
      <4>1. atStart[r] \cap X \in SUBSET (Stored \cap X)
        BY ReadFacts
      <4> QED  BY <2>2, <4>1, CountsAreMonotonic
    <3>4. /\ Cardinality(Stored \cap C) \in Nat /\ Cardinality(atStart[r] \cap C) \in Nat
          /\ Cardinality(atStart[r] \cap X) \in Nat
      <4>1. /\ Stored \cap C \in SUBSET FindingIds /\ atStart[r] \cap C \in SUBSET FindingIds
            /\ atStart[r] \cap X \in SUBSET FindingIds
        BY <2>2
      <4> QED  BY <4>1, CountsAreNumbers
    <3>5. Within(r, C, C) /\ counts[r].findings \in Nat
      BY <2>7, <2>8, ReadFacts
    <3> HIDE DEF new, C, X
    <3> QED  BY <2>3, <3>2, <3>3, <3>4, <3>5 DEF Within
  <2>9. PICK A, B : A = C /\ B = C \cup X
    OBVIOUS
  <2>10. Counted(r, next[r])' = A /\ Counted(r, next[r] + 1)' = B
    <3>1. Counted(r, next[r] + 1) = C \cup X
      BY <2>7, NextLink DEF Counted
    <3> QED  BY <2>1, <2>9, <3>1 DEF Counted
  <2>11. DistinctView(r)' => Within(r, Counted(r, next[r] + 1), Counted(r, next[r]))'
    <3>1. ASSUME DistinctView(r)
          PROVE  Within(r, B, A)'
      <4>1. Evidence(A)' = Evidence(A) /\ Stored' = Stored
        BY <2>1 DEF Evidence, Rows, Stored, db
      <4> HIDE DEF new, C, X
      <4> QED  BY <2>1, <2>5, <2>8, <2>9, <3>1, <4>1 DEF Within
    <3>2. DistinctView(r)' => DistinctView(r)
      BY <2>1 DEF DistinctView
    <3>3. Within(r, B, A)' <=> Within(r, Counted(r, next[r] + 1), Counted(r, next[r]))'
      BY <2>10 DEF Within, Evidence, Rows
    <3> QED  BY <3>1, <3>2, <3>3
  <2>12. counts'[r].findings <= counts'[r].evidence + Evidence(Of({view[r][next[r]]}))'
    <3>1. Evidence(Of({view[r][next[r]]}))' = Evidence(X)
      BY <2>1 DEF Evidence, Rows, Of, db
    <3>2. counts[r].findings \in Nat /\ counts[r].evidence \in Nat
      BY ReadFacts
    <3> QED  BY <2>3, <2>5, <2>7, <3>1, <3>2 DEF InStep
  <2>13. CountingInv(r)'
    BY <2>1, <2>7, <2>11, <2>12 DEF CountingInv
  <2>14. PlaceInv(r)'
    BY <2>1, ReadFacts DEF PlaceInv, Summary, db
  <2>15. UnreadInv(r)' /\ SelectingInv(r)' /\ CountedInv(r)'
    BY <2>1 DEF UnreadInv, SelectingInv, CountedInv, Answered
  <2> QED  BY <2>1, <2>5, <2>6, <2>13, <2>14, <2>15, ReaderCounts DEF CountsInv
<1>10. ASSUME NEW r \in Readers, CountEvidence(r)
       PROVE  CountTypes' /\ CountInv'
  <2> DEFINE v == view[r]
             C == Counted(r, next[r])
             X == Of({v[next[r]]})
  <2>1. /\ UNCHANGED <<db, kind, view, listed, rels, details, atStart, current>>
        /\ pc[r] = "counting evidence" /\ pc'[r] = "counting"
        /\ \A q \in Readers \ {r} : pc'[q] = pc[q]
    BY <1>10 DEF CountEvidence, Goto, AllInv, Inv, Types, ReaderTypes
  <2>2. X \in SUBSET FindingIds /\ C \in SUBSET FindingIds
    BY DEF Of, Counted, UpTo
  <2>3. Evidence(X) \in Nat /\ Evidence(C) \in Nat
    BY <2>2, CountsAreNumbers
  <2>4. /\ counts' = [counts EXCEPT ![r].evidence = @ + Evidence(X)]
        /\ next' = [next EXCEPT ![r] = @ + 1]
    BY <1>10 DEF CountEvidence
  <2>5. /\ counts'[r].findings = counts[r].findings
        /\ counts'[r].evidence = counts[r].evidence + Evidence(X)
        /\ counts' \in [Readers -> [findings : Nat, evidence : Nat]]
        /\ \A q \in Readers \ {r} : counts'[q] = counts[q]
    BY <2>3, <2>4 DEF AllInv, CountTypes
  <2>6. /\ next'[r] = next[r] + 1 /\ next' \in [Readers -> Nat]
        /\ \A q \in Readers \ {r} : next'[q] = next[q]
    BY <2>4 DEF AllInv, CountTypes
  <2>7. CountTypes'
    BY <2>1, <2>5, <2>6 DEF AllInv, CountTypes
  <2>8. /\ next[r] \in 1 .. Len(v) /\ v \in Seq(Targets) /\ Len(v) \in Nat
        /\ counts[r].findings <= counts[r].evidence + Evidence(X)
        /\ (DistinctView(r) => Within(r, C \cup X, C))
    <3>1. CountingInv(r) /\ v \in Seq(Targets)
      BY ReadFacts
    <3>2. /\ next[r] \in 1 .. Len(v) /\ counts[r].findings <= counts[r].evidence + Evidence(X)
          /\ (DistinctView(r) => Within(r, Counted(r, next[r] + 1), C))
      BY <2>1, <3>1 DEF CountingInv
    <3>3. Counted(r, next[r] + 1) = C \cup X
      BY <3>1, <3>2, NextLink DEF Counted
    <3>4. Len(v) \in Nat
      BY <3>1
    <3> HIDE DEF C, X
    <3> QED  BY <3>1, <3>2, <3>3, <3>4
  <2>9. PICK A, B : A = C /\ B = C \cup X
    OBVIOUS
  <2>10. Counted(r, next[r])' = B
    <3>1. Counted(r, next[r] + 1) = C \cup X
      BY <2>8, NextLink DEF Counted
    <3> QED  BY <2>1, <2>6, <2>9, <3>1 DEF Counted
  <2>11. DistinctView(r)' => Within(r, Counted(r, next[r]), Counted(r, next[r]))'
    <3>1. ASSUME DistinctView(r)
          PROVE  Within(r, B, B)'
      <4>1. Evidence(B)' = Evidence(B) /\ Stored' = Stored
        BY <2>1 DEF Evidence, Rows, Stored, db
      <4>2. C \cap X = {}
        BY <2>8, <3>1, NextLink DEF Counted, DistinctView
      <4>3. Evidence(C \cup X) = Evidence(C) + Evidence(X)
        BY <2>2, <4>2, CountsAdd
      <4>4. Within(r, B, A) /\ counts[r].evidence \in Nat
        BY <2>8, <2>9, <3>1, ReadFacts
      <4>5. Evidence(B) = Evidence(A) + Evidence(X) /\ Evidence(A) \in Nat
        BY <2>3, <2>9, <4>3
      <4>6. atStart'[r] = atStart[r] /\ current'[r] = current[r]
        BY <2>1
      <4> HIDE DEF C, X
      <4> QED  BY <2>3, <2>5, <4>1, <4>4, <4>5, <4>6 DEF Within
    <3>2. DistinctView(r)' => DistinctView(r)
      BY <2>1 DEF DistinctView
    <3>3. Within(r, B, B)' <=> Within(r, Counted(r, next[r]), Counted(r, next[r]))'
      BY <2>10 DEF Within, Evidence, Rows
    <3> QED  BY <3>1, <3>2, <3>3
  <2>12. InStep(r)' /\ next'[r] \in 1 .. Len(view'[r]) + 1
    <3>1. counts[r].findings \in Nat /\ counts[r].evidence \in Nat
      BY ReadFacts
    <3>2. InStep(r)'
      <4> HIDE DEF X
      <4> QED  BY <2>3, <2>5, <2>8, <3>1 DEF InStep
    <3>3. next'[r] \in 1 .. Len(view'[r]) + 1
      <4>1. view'[r] = v
        BY <2>1
      <4> HIDE DEF v
      <4> QED  BY <2>6, <2>8, <4>1
    <3> QED  BY <3>2, <3>3
  <2>13. CountingInv(r)'
    BY <2>1, <2>11, <2>12 DEF CountingInv
  <2>14. PlaceInv(r)'
    BY <2>1, ReadFacts DEF PlaceInv, Summary, db
  <2>15. UnreadInv(r)' /\ SelectingInv(r)' /\ CountedInv(r)'
    BY <2>1 DEF UnreadInv, SelectingInv, CountedInv, Answered
  <2> QED  BY <2>1, <2>5, <2>6, <2>7, <2>13, <2>14, <2>15, ReaderCounts DEF CountsInv
<1>11. ASSUME NEW r \in Readers, AnswerSummary(r)
       PROVE  CountTypes' /\ CountInv'
  <2>1. /\ UNCHANGED <<db, kind, data, atStart, current>>
        /\ pc[r] = "counting" /\ pc'[r] = "answered" /\ next[r] > Len(view[r])
        /\ \A q \in Readers \ {r} : pc'[q] = pc[q]
    BY <1>11 DEF AnswerSummary, Goto, AllInv, Inv, Types, ReaderTypes
  <2>2. CountTypes'
    BY <2>1 DEF data, AllInv, CountTypes
  <2>3. view[r] \in Seq(Targets) /\ CountingInv(r) /\ PlaceInv(r)
    BY ReadFacts
  <2>4. next[r] = Len(view[r]) + 1
    <3>1. Len(view[r]) \in Nat /\ next[r] \in 1 .. Len(view[r]) + 1
      BY <2>1, <2>3 DEF CountingInv
    <3> QED  BY <2>1, <3>1
  <2>5. Counted(r, next[r]) = Of(Viewed(r))
    BY <2>3, <2>4, NextLink DEF Counted, Viewed
  <2>6. Summary(r) /\ InStep(r) /\ (DistinctView(r) => Within(r, Of(Viewed(r)), Of(Viewed(r))))
    BY <2>1, <2>3, <2>5 DEF CountingInv, PlaceInv
  <2>7. /\ Of(Viewed(r))' = Of(Viewed(r)) /\ DistinctView(r)' = DistinctView(r)
        /\ Summary(r)' = Summary(r) /\ InStep(r)' = InStep(r)
        /\ \A S : Within(r, S, S)' = Within(r, S, S)
    BY <2>1 DEF Of, Viewed, DistinctView, Summary, InStep, Within, Evidence, Rows, Stored, data, db
  <2>8. DistinctView(r)' => Within(r, Of(Viewed(r)), Of(Viewed(r)))'
    <3>1. PICK V : V = Of(Viewed(r))
      OBVIOUS
    <3>2. Within(r, Of(Viewed(r)), Of(Viewed(r)))' <=> Within(r, V, V)'
      BY <2>7, <3>1 DEF Within, Evidence, Rows
    <3> QED  BY <2>6, <2>7, <3>1, <3>2
  <2>9. CountedInv(r)'
    BY <2>6, <2>7, <2>8 DEF CountedInv, Countable, Summary
  <2>10. PlaceInv(r)' /\ UnreadInv(r)' /\ CountingInv(r)' /\ SelectingInv(r)'
    BY <2>1, <2>3 DEF PlaceInv, UnreadInv, CountingInv, SelectingInv, Summary, data, db
  <2> QED  BY <2>1, <2>2, <2>9, <2>10, ReaderCounts DEF CountsInv, data
<1>12. ASSUME NEW r \in Readers, SelectLinks(r)
       PROVE  CountTypes' /\ CountInv'
  <2>1. /\ UNCHANGED <<db, kind, next, listed, counts, rels, details, atStart, current>>
        /\ pc[r] = "links" /\ view'[r] = links
        /\ \/ links = <<>> /\ pc'[r] = "answered"
           \/ links # <<>> /\ pc'[r] = "findings"
        /\ \A q \in Readers \ {r} : pc'[q] = pc[q] /\ view'[q] = view[q]
    BY <1>12 DEF SelectLinks, Goto, AllInv, Inv, Types, ReaderTypes
  <2>2. CountTypes'
    BY <2>1 DEF AllInv, CountTypes
  <2>3. PlaceInv(r) /\ UnreadInv(r) /\ ReaderInv(r)
    BY ReadFacts
  <2>4. kind[r] = "listing" /\ rels[r] = {}
    BY <2>1, <2>3 DEF PlaceInv, ReaderInv, Before, PCs
  <2>5. PlaceInv(r)' /\ UnreadInv(r)' /\ CountingInv(r)' /\ SelectingInv(r)'
    BY <2>1, <2>3, <2>4 DEF PlaceInv, UnreadInv, CountingInv, SelectingInv, Summary, db
  <2>6. CountedInv(r)'
    <3>1. ASSUME Answered(r)'
          PROVE  Touching(Mine(r))' = {}
      BY <2>1, <3>1 DEF Answered, Touching, Mine, Of, Viewed, Range
    <3> QED  BY <2>1, <2>4, <3>1 DEF CountedInv, Answered
  <2> QED  BY <2>1, <2>2, <2>5, <2>6, ReaderCounts DEF CountsInv
<1>13. ASSUME NEW r \in Readers, SelectFindings(r)
       PROVE  CountTypes' /\ CountInv'
  <2> DEFINE found == Mine(r)
             V == Of(Viewed(r))
  <2>1. /\ UNCHANGED <<db, kind, view, next, rels, details, atStart, current>>
        /\ pc[r] = "findings" /\ listed' = [listed EXCEPT ![r] = found]
        /\ counts' = [counts EXCEPT ![r].findings = Cardinality(found)]
        /\ Goto(r, IF found = {} THEN "answered"
                   ELSE IF kind[r] = "listing" THEN "relations" ELSE "evidence")
    BY <1>13 DEF SelectFindings, Mine
  <2>2. found \in SUBSET FindingIds /\ V \in SUBSET FindingIds /\ found = Stored \cap V
    BY DEF Mine, Stored, Of
  <2>3. Cardinality(found) \in Nat
    BY <2>2, CountsAreNumbers
  <2>4. /\ \/ found = {} /\ pc'[r] = "answered"
           \/ found # {} /\ kind[r] = "listing" /\ pc'[r] = "relations"
           \/ found # {} /\ kind[r] # "listing" /\ pc'[r] = "evidence"
        /\ \A q \in Readers \ {r} : pc'[q] = pc[q]
    <3> HIDE DEF found
    <3>1. pc \in [Readers -> PCs]
      BY DEF AllInv, Inv, Types, ReaderTypes
    <3>2. CASE found = {}
      BY <2>1, <3>1, <3>2 DEF Goto
    <3>3. CASE found # {} /\ kind[r] = "listing"
      BY <2>1, <3>1, <3>3 DEF Goto
    <3>4. CASE found # {} /\ kind[r] # "listing"
      BY <2>1, <3>1, <3>4 DEF Goto
    <3> QED  BY <3>2, <3>3, <3>4
  <2>5. PlaceInv(r) /\ counts[r] = [findings |-> 0, evidence |-> 0] /\ next[r] = 1
    BY <2>1, ReadFacts DEF UnreadInv
  <2>6. /\ counts'[r] = [findings |-> Cardinality(found), evidence |-> 0]
        /\ counts' \in [Readers -> [findings : Nat, evidence : Nat]]
        /\ \A q \in Readers \ {r} : counts'[q] = counts[q]
    BY <2>1, <2>3, <2>5 DEF AllInv, CountTypes
  <2>7. CountTypes'
    BY <2>1, <2>6 DEF AllInv, CountTypes
  <2>8. /\ listed'[r] = found /\ \A q \in Readers \ {r} : listed'[q] = listed[q]
    BY <2>1 DEF AllInv, Inv, Types, ReaderTypes
  <2>9. rels[r] = {}
    BY <2>1, ReadFacts DEF ReaderInv, Before, PCs
  <2>10. Mine(r)' = found /\ Summary(r)' = Summary(r) /\ Of(Viewed(r))' = V
    BY <2>1 DEF Mine, Stored, Of, Viewed, Summary, db
  <2>11. PlaceInv(r)' /\ UnreadInv(r)' /\ CountingInv(r)'
    BY <2>1, <2>4, <2>5, <2>10 DEF PlaceInv, UnreadInv, CountingInv, db
  <2>12. SelectingInv(r)'
    BY <2>4, <2>6, <2>8, <2>10 DEF SelectingInv
  <2>13. CountedInv(r)'
    <3>1. ASSUME found = {}
          PROVE  InStep(r)' /\ Touching(Mine(r))' = {} /\ Within(r, Of(Viewed(r)), Of(Viewed(r)))'
      <4>1. Cardinality(found) = 0 /\ Stored \cap V = {} /\ atStart[r] \cap V = {}
        BY <2>2, <3>1, FS_EmptySet, ReadFacts
      <4>2. Evidence(V) = 0
        <5>1. Evidence(V) = Evidence({})
          BY <2>2, <3>1, StoredHaveEvidence DEF AllInv, Inv, Types
        <5>2. Rows({}) = {}
          BY DEF Rows
        <5> QED  BY <5>1, <5>2, FS_EmptySet DEF Evidence
      <4>3. PICK W : W = V
        OBVIOUS
      <4>4. Evidence(W)' = Evidence(W) /\ Stored' = Stored
        BY <2>1 DEF Evidence, Rows, Stored, db
      <4>5. Cardinality({}) = 0
        BY FS_EmptySet
      <4> HIDE DEF V, found
      <4>6. Within(r, W, W)'
        <5>1. counts'[r].findings = 0 /\ counts'[r].evidence = 0
          BY <2>6, <4>1
        <5>2. Stored \cap W = {} /\ atStart[r] \cap W = {} /\ Evidence(W) = 0
          BY <4>1, <4>2, <4>3
        <5>3. atStart'[r] = atStart[r]
          BY <2>1
        <5> QED  BY <5>1, <5>2, <5>3, <4>4, <4>5 DEF Within
      <4>7. Within(r, Of(Viewed(r)), Of(Viewed(r)))' <=> Within(r, W, W)'
        BY <2>10, <4>3 DEF Within, Evidence, Rows
      <4> QED  BY <2>6, <2>10, <3>1, <4>1, <4>6, <4>7 DEF InStep, Touching
    <3> HIDE DEF found
    <3> QED  BY <2>1, <2>4, <2>9, <3>1 DEF CountedInv, Answered
  <2> QED  BY <2>1, <2>4, <2>6, <2>7, <2>8, <2>11, <2>12, <2>13, ReaderCounts DEF CountsInv
<1>14. ASSUME NEW r \in Readers, SelectEvidence(r)
       PROVE  CountTypes' /\ CountInv'
  <2> DEFINE L == listed[r]
             V == Of(Viewed(r))
  <2>1. /\ UNCHANGED <<db, kind, view, next, listed, rels, details, atStart, current>>
        /\ pc[r] = "evidence" /\ counts' = [counts EXCEPT ![r].evidence = Evidence(L)]
        /\ \/ kind[r] = "report" /\ pc'[r] = "relations"
           \/ kind[r] # "report" /\ pc'[r] = "answered"
        /\ \A q \in Readers \ {r} : pc'[q] = pc[q]
    BY <1>14 DEF SelectEvidence, Goto, AllInv, Inv, Types, ReaderTypes
  <2>2. /\ L \in SUBSET FindingIds /\ V \in SUBSET FindingIds /\ Stored \in SUBSET FindingIds
        /\ PlaceInv(r) /\ SelectingInv(r) /\ ReaderInv(r) /\ kind[r] \in Kinds
    BY ReadFacts DEF Of
  <2>3. /\ L \subseteq Stored \cap V /\ (current[r] => L = Stored \cap V)
        /\ counts[r] = [findings |-> Cardinality(L), evidence |-> 0]
        /\ atStart[r] \cap V \subseteq L
    BY <2>1, <2>2 DEF SelectingInv, Mine, ReaderInv, Listing
  <2>4. Cardinality(L) \in Nat /\ Evidence(L) \in Nat
    BY <2>2, CountsAreNumbers
  <2>5. /\ counts'[r].findings = Cardinality(L) /\ counts'[r].evidence = Evidence(L)
        /\ counts' \in [Readers -> [findings : Nat, evidence : Nat]]
        /\ \A q \in Readers \ {r} : counts'[q] = counts[q]
    BY <2>1, <2>3, <2>4 DEF AllInv, CountTypes
  <2>6. CountTypes'
    BY <2>1, <2>5 DEF AllInv, CountTypes
  <2>7. Cardinality(L) <= Evidence(L)
    <3>1. Stored \cap L = L
      BY <2>3
    <3> QED  BY <2>2, <3>1, StoredHaveEvidence DEF AllInv, Inv, Types
  <2>8. PICK W : W = V
    OBVIOUS
  <2>9. Within(r, W, W)'
    <3>1. Cardinality(atStart[r] \cap W) <= Cardinality(L)
      <4>1. atStart[r] \cap W \in SUBSET L
        BY <2>3, <2>8
      <4> QED  BY <2>2, <4>1, CountsAreMonotonic
    <3>2. Cardinality(L) <= Cardinality(Stored \cap W)
      <4>1. L \in SUBSET (Stored \cap W) /\ Stored \cap W \in SUBSET FindingIds
        BY <2>2, <2>3, <2>8
      <4> QED  BY <4>1, CountsAreMonotonic
    <3>3. Evidence(L) <= Evidence(W)
      <4>1. L \in SUBSET W /\ W \in SUBSET FindingIds
        BY <2>2, <2>3, <2>8
      <4> QED  BY <4>1, CountsAreMonotonic
    <3>4. current[r] => Cardinality(L) = Cardinality(Stored \cap W) /\ Evidence(L) = Evidence(W)
      <4>1. W \in SUBSET FindingIds
        BY <2>2, <2>8
      <4>2. Evidence(W) = Evidence(Stored \cap W)
        BY <4>1, StoredHaveEvidence DEF AllInv, Inv, Types
      <4> QED  BY <2>3, <2>8, <4>2
    <3>5. /\ Evidence(W)' = Evidence(W) /\ Stored' = Stored
          /\ atStart'[r] = atStart[r] /\ current'[r] = current[r]
      BY <2>1 DEF Evidence, Rows, Stored, db
    <3> HIDE DEF L, V
    <3> QED  BY <2>5, <3>1, <3>2, <3>3, <3>4, <3>5 DEF Within
  <2>10. Within(r, Of(Viewed(r)), Of(Viewed(r)))'
    <3>1. Of(Viewed(r))' = W
      BY <2>1, <2>8 DEF Of, Viewed
    <3> QED  BY <2>9, <3>1 DEF Within, Evidence, Rows
  <2>11. InStep(r)'
    BY <2>5, <2>7 DEF InStep
  <2>12. /\ kind[r] # "listing" /\ ~Summary(r) /\ Mine(r)' = Mine(r) /\ listed'[r] = L
         /\ Summary(r)' = Summary(r)
    BY <2>1, <2>2 DEF PlaceInv, Mine, Stored, Of, Viewed, Summary, db
  <2>13. PlaceInv(r)' /\ UnreadInv(r)' /\ CountingInv(r)'
    BY <2>1, <2>2, <2>12 DEF PlaceInv, UnreadInv, CountingInv, Kinds, db
  <2>14. SelectingInv(r)'
    BY <2>1, <2>3, <2>12 DEF SelectingInv, Mine
  <2>15. CountedInv(r)'
    BY <2>1, <2>10, <2>11, <2>12 DEF CountedInv, Answered
  <2> QED  BY <2>1, <2>5, <2>6, <2>13, <2>14, <2>15, ReaderCounts DEF CountsInv
<1>15. ASSUME NEW r \in Readers, SelectRelations(r)
       PROVE  CountTypes' /\ CountInv'
  <2>1. /\ UNCHANGED <<db, kind, view, next, listed, counts, details, atStart, current>>
        /\ pc[r] = "relations" /\ rels' = [rels EXCEPT ![r] = TouchingListed(r)]
        /\ pc'[r] \in {"answered", "details"} /\ (pc'[r] = "details" => kind[r] = "listing")
        /\ \A q \in Readers \ {r} : pc'[q] = pc[q]
    BY <1>15 DEF SelectRelations, Goto, AllInv, Inv, Types, ReaderTypes
  <2>2. CountTypes'
    BY <2>1 DEF AllInv, CountTypes
  <2>3. rels'[r] = TouchingListed(r) /\ \A q \in Readers \ {r} : rels'[q] = rels[q]
    BY <2>1 DEF AllInv, Inv, Types, ReaderTypes
  <2>4. TouchingListed(r) = Touching(listed[r])
    BY DEF TouchingListed, Touching
  <2>5. SelectingInv(r) /\ CountedInv(r) /\ PlaceInv(r)
    BY ReadFacts
  <2>6. Touching(Mine(r))' = Touching(Mine(r)) /\ InStep(r)' = InStep(r)
        /\ Countable(r)' = Countable(r) /\ Summary(r)' = Summary(r)
    BY <2>1 DEF Touching, Mine, Stored, Of, Viewed, InStep, Countable, Summary, DistinctView, db
  <2>7. current[r] => rels'[r] = Touching(Mine(r))
    BY <2>1, <2>3, <2>4, <2>5 DEF SelectingInv
  <2>8. Within(r, Of(Viewed(r)), Of(Viewed(r)))' <=> Within(r, Of(Viewed(r)), Of(Viewed(r)))
    BY <2>1 DEF Within, Evidence, Rows, Stored, Of, Viewed, db
  <2>9. PlaceInv(r)' /\ UnreadInv(r)' /\ CountingInv(r)'
    BY <2>1, <2>5, <2>6 DEF PlaceInv, UnreadInv, CountingInv, db
  <2>10. SelectingInv(r)' /\ CountedInv(r)'
    BY <2>1, <2>5, <2>6, <2>7, <2>8 DEF SelectingInv, CountedInv, Answered
  <2> QED  BY <2>1, <2>2, <2>3, <2>9, <2>10, ReaderCounts DEF CountsInv
<1>16. ASSUME NEW r \in Readers, SelectDetails(r)
       PROVE  CountTypes' /\ CountInv'
  <2>1. /\ UNCHANGED <<db, kind, view, next, listed, counts, rels, atStart, current>>
        /\ pc[r] = "details" /\ pc'[r] = "answered"
        /\ \A q \in Readers \ {r} : pc'[q] = pc[q]
    BY <1>16 DEF SelectDetails, Goto, AllInv, Inv, Types, ReaderTypes
  <2>2. CountTypes'
    BY <2>1 DEF AllInv, CountTypes
  <2>3. SelectingInv(r) /\ PlaceInv(r)
    BY ReadFacts
  <2>4. Touching(Mine(r))' = Touching(Mine(r)) /\ Summary(r)' = Summary(r)
    BY <2>1 DEF Touching, Mine, Stored, Of, Viewed, Summary, db
  <2>5. PlaceInv(r)' /\ UnreadInv(r)' /\ CountingInv(r)' /\ SelectingInv(r)'
    BY <2>1, <2>3, <2>4 DEF PlaceInv, UnreadInv, CountingInv, SelectingInv, db
  <2>6. CountedInv(r)'
    BY <2>1, <2>3, <2>4 DEF SelectingInv, CountedInv, PlaceInv, Answered
  <2> QED  BY <2>1, <2>2, <2>5, <2>6, ReaderCounts DEF CountsInv
<1> QED
  BY <1>1, <1>2, <1>3, <1>4, <1>5, <1>6, <1>7, <1>8, <1>9, <1>10, <1>11, <1>12, <1>13, <1>14,
     <1>15, <1>16 DEF Next

LEMMA CountInit == Init => CountTypes /\ CountInv
<1> SUFFICES ASSUME Init PROVE CountTypes /\ CountInv
  OBVIOUS
<1>1. CountTypes
  BY DEF Init, CountTypes
<1>2. ASSUME NEW r \in Readers
      PROVE  CountsInv(r)
  <2>1. /\ pc[r] = "start" /\ next[r] = 1 /\ counts[r] = [findings |-> 0, evidence |-> 0]
        /\ current[r] = FALSE
    BY DEF Init
  <2> QED  BY <2>1 DEF CountsInv, PlaceInv, UnreadInv, CountingInv, SelectingInv, CountedInv, Answered
<1> QED  BY <1>1, <1>2 DEF CountInv

LEMMA AllInvAlways == Spec => []AllInv
<1>1. Init => AllInv
  BY InvInit, CountInit DEF AllInv
<1>2. AllInv /\ [Next]_vars => AllInv'
  BY InvStep, CountStep DEF AllInv
<1> QED  BY <1>1, <1>2, PTL DEF Spec

-----------------------------------------------------------------------------
\* The variables keep their types, and relations their foreign keys (TypeOK).
THEOREM TypeCorrect == Spec => []TypeOK
<1>1. AllInv => TypeOK
  BY DEF AllInv, Inv, Types, DbTypes, ReaderTypes, CountTypes, TypeOK
<1> QED  BY <1>1, AllInvAlways, PTL

\* An answer counts what the database had or passed over while the request ran,
\* although every count is a statement of its own (CountsInRange).
THEOREM CountsAreInRange == Spec => []CountsInRange
<1>1. AllInv => CountsInRange
  <2> SUFFICES ASSUME AllInv, NEW r \in Readers, Answered(r), Countable(r)
               PROVE  Within(r, Of(Viewed(r)), Of(Viewed(r)))
    BY DEF CountsInRange, Within
  <2> QED  BY ReadFacts DEF CountedInv, Countable
<1> QED  BY <1>1, AllInvAlways, PTL

\* No answer has fewer rows of evidence than findings (EvidenceNotBehind).
THEOREM EvidenceIsNotBehind == Spec => []EvidenceNotBehind
<1>1. AllInv => EvidenceNotBehind
  <2> SUFFICES ASSUME AllInv, NEW r \in Readers, Answered(r), kind[r] # "listing"
               PROVE  counts[r].evidence >= counts[r].findings
    BY DEF EvidenceNotBehind
  <2>1. counts[r].findings <= counts[r].evidence
    BY ReadFacts DEF CountedInv, InStep
  <2>2. counts[r].findings \in Nat /\ counts[r].evidence \in Nat
    BY ReadFacts
  <2> QED  BY <2>1, <2>2
<1> QED  BY <1>1, AllInvAlways, PTL

\* When nothing is committed meanwhile, an answer of several statements is what the
\* database holds (QuietAnswersExact).
THEOREM QuietAnswersAreExact == Spec => []QuietAnswersExact
<1>1. AllInv => QuietAnswersExact
  <2> SUFFICES ASSUME AllInv, NEW r \in Readers, Answered(r), current[r]
               PROVE  /\ kind[r] # "target" => view[r] = links
                      /\ Countable(r) => /\ counts[r].findings = Cardinality(Mine(r))
                                         /\ counts[r].evidence = Evidence(Mine(r))
                      /\ kind[r] \in {"report", "listing"} => rels[r] = Touching(Mine(r))
    BY DEF QuietAnswersExact, Mine, Touching
  <2>1. PlaceInv(r) /\ CountedInv(r)
    BY ReadFacts
  <2>2. Countable(r) => Within(r, Of(Viewed(r)), Of(Viewed(r)))
    BY <2>1 DEF CountedInv, Countable
  <2>3. Evidence(Of(Viewed(r))) = Evidence(Mine(r))
    <3>1. Of(Viewed(r)) \in SUBSET FindingIds
      BY DEF Of
    <3> QED  BY <3>1, StoredHaveEvidence DEF AllInv, Inv, Types, Mine
  <2>4. kind[r] # "target" => view[r] = links
    BY <2>1 DEF PlaceInv, Answered
  <2>5. Countable(r) => /\ counts[r].findings = Cardinality(Mine(r))
                        /\ counts[r].evidence = Evidence(Mine(r))
    BY <2>2, <2>3 DEF Within, Mine
  <2>6. kind[r] \in {"report", "listing"} => rels[r] = Touching(Mine(r))
    BY <2>1 DEF CountedInv
  <2> QED  BY <2>4, <2>5, <2>6
<1> QED  BY <1>1, AllInvAlways, PTL

=============================================================================
