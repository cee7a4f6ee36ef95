------------------------- MODULE Correlation_proofs -------------------------
(***************************************************************************)
(* Proofs about concurrent correlation requests, for any findings,          *)
(* investigations and number of requests.                                   *)
(***************************************************************************)
EXTENDS Correlation, Correlator_proofs, FiniteSetTheorems

-----------------------------------------------------------------------------
LEMMA InitIInv == Init => IInv
<1> SUFFICES ASSUME Init PROVE IInv
  OBVIOUS
<1>1. TypeOK
  BY DEF Init, TypeOK, PCs
<1>2. Listed(<<>>) = {}
  BY DEF Listed
<1> QED
  BY <1>1, <1>2, NoFindingsNoProposals
  DEF Init, IInv, ListsInv, PlaceInv, EarlierInv, AllOrNothing, RepeatsCreateNothing, Mine,
      Succeeded

\* A request that has not committed ends without a row and with an error.
LEMMA FailStep ==
  ASSUME IInv, NEW r \in Requests, BeginFails(r) \/ LoadFails(r) \/ PersistFails(r)
  PROVE  IInv'
<1> USE DEF IInv
<1>1. UNCHANGED <<links, stored, relations, inv, toLoad, seen, todo, created, earlier>>
  BY DEF BeginFails, LoadFails, PersistFails, RollBack, local
<1>2. /\ pc' \in [Requests -> PCs] /\ failed' \in [Requests -> BOOLEAN]
      /\ \/ pc'[r] = "aborted"
         \/ pc'[r] = "answered" /\ failed'[r]
      /\ \A q \in Requests : q # r => pc'[q] = pc[q] /\ failed'[q] = failed[q]
  BY DEF BeginFails, LoadFails, PersistFails, RollBack, Goto, Fails, local, TypeOK, PCs
<1>3. Mine(r) = {} /\ pc[r] # "answered"
  BY DEF BeginFails, LoadFails, PersistFails, PlaceInv
<1>4. TypeOK' /\ ListsInv' /\ PlaceInv'
  <2>1. TypeOK' /\ ListsInv'
    BY <1>1, <1>2 DEF TypeOK, ListsInv, Linked
  <2>2. Stored' = Stored /\ \A q \in Requests : Mine(q)' = Mine(q)
    BY <1>1 DEF Stored, Mine
  <2>3. PlaceInv'
    BY <1>1, <1>2, <2>2 DEF PlaceInv
  <2> QED
    BY <2>1, <2>3
<1>5. EarlierInv'
  BY <1>1, <1>2, <1>3 DEF EarlierInv, Succeeded, TypeOK
<1>6. AllOrNothing'
  BY <1>1, <1>2, <1>3 DEF AllOrNothing, Succeeded, Mine, Stored
<1> QED
  BY <1>1, <1>4, <1>5, <1>6 DEF RepeatsCreateNothing

LEMMA BeginStep ==
  ASSUME IInv, NEW r \in Requests, Begin(r)
  PROVE  IInv'
<1> USE DEF IInv
<1>1. /\ UNCHANGED <<links, stored, relations, inv, seen, todo, created, failed>>
      /\ pc[r] = "start" /\ links[inv[r]] \subseteq LinkRows
  BY DEF Begin, TypeOK
<1>2. /\ pc' \in [Requests -> PCs]
      /\ \/ pc'[r] = "answered" /\ links[inv[r]] = {}
         \/ pc'[r] = "loading" /\ links[inv[r]] # {}
      /\ \A q \in Requests : q # r => pc'[q] = pc[q]
  BY DEF Begin, Goto, TypeOK, PCs
<1>3. /\ toLoad' \in [Requests -> SUBSET LinkRows] /\ toLoad'[r] = links[inv[r]]
      /\ \A q \in Requests : q # r => toLoad'[q] = toLoad[q]
  BY <1>1 DEF Begin, TypeOK
<1>4. /\ earlier' \in [Requests -> SUBSET Requests]
      /\ earlier'[r] = {q \in Requests : Succeeded(q)}
      /\ \A q \in Requests : q # r => earlier'[q] = earlier[q]
  BY DEF Begin, TypeOK
<1>5. /\ seen[r] = <<>> /\ todo[r] = {} /\ created[r] = {} /\ Mine(r) = {}
      /\ run_all_rules(seen[r]) = {}
  BY <1>1, NoFindingsNoProposals DEF PlaceInv
<1>6. TypeOK' /\ ListsInv' /\ PlaceInv'
  <2>1. TypeOK'
    BY <1>1, <1>2, <1>3, <1>4 DEF TypeOK
  <2>2. ListsInv'
    BY <1>1, <1>3 DEF ListsInv, Linked
  <2>3. PlaceInv'
    BY <1>1, <1>2, <1>5 DEF PlaceInv, Mine, Stored
  <2> QED
    BY <2>1, <2>2, <2>3
<1>7. EarlierInv'
  <2>1. \A q \in Requests : Succeeded(q) => q # r /\ Succeeded(q)'
    BY <1>1, <1>2 DEF Succeeded
  <2> QED
    BY <1>4, <2>1 DEF EarlierInv, TypeOK
<1>8. AllOrNothing'
  <2>1. Stored' = Stored /\ \A q \in Requests : Mine(q)' = Mine(q)
    BY <1>1 DEF Stored, Mine
  <2>2. \A q \in Requests :
          /\ Succeeded(q)' => run_all_rules(seen'[q]) \subseteq Stored'
          /\ Mine(q)' = {} \/ Mine(q)' = [key : created'[q], by : {q}]
          /\ pc'[q] = "answered" /\ failed'[q] => Mine(q)' = {}
    <3> SUFFICES ASSUME NEW q \in Requests
                 PROVE  /\ Succeeded(q)' => run_all_rules(seen'[q]) \subseteq Stored'
                        /\ Mine(q)' = {} \/ Mine(q)' = [key : created'[q], by : {q}]
                        /\ pc'[q] = "answered" /\ failed'[q] => Mine(q)' = {}
      OBVIOUS
    <3>1. CASE q = r
      <4>1. run_all_rules(seen'[r]) = {} /\ Mine(r)' = {}
        BY <1>1, <1>5, <2>1
      <4> QED
        BY <3>1, <4>1
    <3>2. CASE q # r
      <4>1. Succeeded(q)' <=> Succeeded(q)
        BY <3>2, <1>1, <1>2 DEF Succeeded
      <4>2. /\ Succeeded(q) => run_all_rules(seen[q]) \subseteq Stored
            /\ Mine(q) = {} \/ Mine(q) = [key : created[q], by : {q}]
            /\ pc[q] = "answered" /\ failed[q] => Mine(q) = {}
        BY DEF AllOrNothing, Mine
      <4>3. Mine(q)' = Mine(q) /\ Stored' = Stored
        BY <2>1, Zenon
      <4>4. pc'[q] = pc[q] /\ failed' = failed /\ created' = created /\ seen' = seen
        BY <3>2, <1>1, <1>2
      <4> QED
        BY <4>1, <4>2, <4>3, <4>4
    <3> QED
      BY <3>1, <3>2
  <2> QED
    BY <2>2 DEF AllOrNothing, Mine
<1>9. RepeatsCreateNothing'
  BY <1>1, <1>4, <1>5 DEF RepeatsCreateNothing
<1> QED
  BY <1>6, <1>7, <1>8, <1>9

\* The rows of a finite set, in whatever order, are a list of its members.
LEMMA RowsAreListed ==
  ASSUME NEW S \in SUBSET FindingIds, NEW rows \in SetToSeqs(S)
  PROVE  rows \in Seq(FindingIds) /\ Listed(rows) \subseteq S
<1>1. IsFiniteSet(S)
  BY FindingsAssumption, FS_Subset
<1>2. Cardinality(S) \in Nat
  BY <1>1, FS_CardinalityType
<1>3. rows \in [1 .. Cardinality(S) -> S]
  BY DEF SetToSeqs
<1> QED
  BY <1>2, <1>3 DEF Listed

\* The findings of a link join the list; after the last link the rules run.
LEMMA LoadStep ==
  ASSUME IInv, NEW r \in Requests, Load(r)
  PROVE  IInv'
<1> USE DEF IInv
<1> DEFINE Loaded(row, loaded) ==
             LET findings == seen[r] \o loaded
                 rest     == toLoad[r] \ {row}
             IN /\ seen' = [seen EXCEPT ![r] = findings]
                /\ toLoad' = [toLoad EXCEPT ![r] = rest]
                /\ \/ rest # {} /\ UNCHANGED <<pc, todo>>
                   \/ rest = {} /\ findings = <<>> /\ Goto(r, "answered") /\ UNCHANGED todo
                   \/ /\ rest = {} /\ findings # <<>>
                      /\ Goto(r, "checking")
                      /\ todo' = [todo EXCEPT ![r] = run_all_rules(findings)]
<1>a. PICK row \in toLoad[r] : \E loaded \in FindingsOf(row.target) : Loaded(row, loaded)
  BY DEF Load
<1>0. PICK loaded \in FindingsOf(row.target) : Loaded(row, loaded)
  BY <1>a
<1> DEFINE t        == row.target
           rest     == toLoad[r] \ {row}
           findings == seen[r] \o loaded
<1>1. /\ UNCHANGED <<links, stored, relations, inv, created, failed, earlier>>
      /\ pc[r] = "loading"
  BY DEF Load
<1>2. /\ toLoad[r] \subseteq LinkRows /\ rest \subseteq toLoad[r]
      /\ t \in Targets /\ row \in links[inv[r]] /\ stored[t] \subseteq FindingIds
  BY DEF TypeOK, LinkRows, ListsInv
<1>3. /\ findings \in Seq(FindingIds)
      /\ Listed(findings) \subseteq Listed(seen[r]) \cup stored[t]
  <2>1. loaded \in Seq(FindingIds) /\ Listed(loaded) \subseteq stored[t]
    BY <1>2, RowsAreListed DEF FindingsOf
  <2>2. seen[r] \in Seq(FindingIds)
    BY DEF TypeOK
  <2>3. findings \in Seq(FindingIds) /\ Listed(findings) = Listed(seen[r]) \cup Listed(loaded)
    BY <2>1, <2>2, ListedConcat
  <2> QED
    BY <2>1, <2>3
<1> HIDE DEF findings, rest
<1>4. /\ seen' \in [Requests -> Seq(FindingIds)] /\ seen'[r] = findings
      /\ toLoad' \in [Requests -> SUBSET LinkRows] /\ toLoad'[r] = rest
      /\ \A q \in Requests : q # r => seen'[q] = seen[q] /\ toLoad'[q] = toLoad[q]
  BY <1>0, <1>2, <1>3 DEF TypeOK, findings, rest
<1>5. /\ pc' \in [Requests -> PCs] /\ todo' \in [Requests -> SUBSET Keys]
      /\ \/ pc'[r] = "loading" /\ rest # {} /\ todo'[r] = {}
         \/ pc'[r] = "answered" /\ findings = <<>> /\ todo'[r] = {}
         \/ pc'[r] = "checking" /\ todo'[r] = run_all_rules(findings)
      /\ \A q \in Requests : q # r => pc'[q] = pc[q] /\ todo'[q] = todo[q]
  <2>1. todo[r] = {}
    BY <1>1 DEF PlaceInv
  <2>2. run_all_rules(findings) \subseteq Keys
    BY <1>3, RulesExplained
  <2>3. \/ UNCHANGED <<pc, todo>> /\ rest # {}
        \/ pc' = [pc EXCEPT ![r] = "answered"] /\ UNCHANGED todo /\ findings = <<>>
        \/ /\ pc' = [pc EXCEPT ![r] = "checking"]
           /\ todo' = [todo EXCEPT ![r] = run_all_rules(findings)]
    BY <1>0 DEF Goto, findings, rest
  <2>4. {"loading", "answered", "checking"} \subseteq PCs
    BY DEF PCs
  <2>5. CASE UNCHANGED <<pc, todo>> /\ rest # {}
    BY <1>1, <2>1, <2>5 DEF TypeOK
  <2>6. CASE pc' = [pc EXCEPT ![r] = "answered"] /\ UNCHANGED todo /\ findings = <<>>
    BY <2>1, <2>4, <2>6 DEF TypeOK
  <2>7. CASE /\ pc' = [pc EXCEPT ![r] = "checking"]
             /\ todo' = [todo EXCEPT ![r] = run_all_rules(findings)]
    BY <2>2, <2>4, <2>7 DEF TypeOK
  <2> QED
    BY <2>3, <2>5, <2>6, <2>7
<1>6. created[r] = {} /\ ~failed[r] /\ Mine(r) = {}
  BY <1>1 DEF PlaceInv
<1>7. TypeOK'
  BY <1>1, <1>4, <1>5 DEF TypeOK
<1>8. ListsInv'
  <2>1. \A f \in Listed(findings) : Info[f].target \in Linked(inv[r])
    <3>1. \A f \in stored[t] : Info[f].target = t
      BY <1>2 DEF ListsInv, Linked
    <3>2. t \in Linked(inv[r])
      BY <1>2 DEF Linked
    <3>3. \A f \in Listed(seen[r]) : Info[f].target \in Linked(inv[r])
      BY DEF ListsInv, Linked
    <3> QED
      BY <1>3, <3>1, <3>2, <3>3
  <2>2. todo'[r] \cup created'[r] \subseteq run_all_rules(seen'[r])
    BY <1>1, <1>4, <1>5, <1>6
  <2>3. toLoad'[r] \subseteq links[inv[r]]
    BY <1>2, <1>4 DEF ListsInv, Linked
  <2>4. \A q \in Requests : q # r =>
          /\ toLoad'[q] \subseteq links[inv[q]]
          /\ \A f \in Listed(seen'[q]) : Info[f].target \in Linked(inv[q])
          /\ todo'[q] \cup created'[q] \subseteq run_all_rules(seen'[q])
    BY <1>1, <1>4, <1>5 DEF ListsInv, Linked
  <2>5. \A f \in Listed(seen'[r]) : Info[f].target \in Linked(inv[r])
    BY <1>4, <2>1
  <2>6. \A q \in Requests :
          /\ toLoad'[q] \subseteq links[inv[q]]
          /\ \A f \in Listed(seen'[q]) : Info[f].target \in Linked(inv[q])
          /\ todo'[q] \cup created'[q] \subseteq run_all_rules(seen'[q])
    BY <2>2, <2>3, <2>4, <2>5
  <2> QED
    BY <1>1, <2>6 DEF ListsInv, Linked
<1>9. PlaceInv'
  <2>1. Stored' = Stored /\ \A q \in Requests : Mine(q)' = Mine(q)
    BY <1>1 DEF Stored, Mine
  <2>2. pc'[r] = "checking" => run_all_rules(seen'[r]) \subseteq todo'[r]
    BY <1>4, <1>5
  <2> QED
    BY <1>1, <1>4, <1>5, <1>6, <2>1, <2>2 DEF PlaceInv
<1>10. EarlierInv' /\ \A q \in Requests : r \notin earlier[q]
  BY <1>1, <1>5 DEF EarlierInv, Succeeded, TypeOK
<1>11. AllOrNothing'
  BY <1>1, <1>4, <1>5, <1>6, NoFindingsNoProposals DEF AllOrNothing, Succeeded, Mine, Stored
<1>12. RepeatsCreateNothing'
  BY <1>1, <1>4, <1>10 DEF RepeatsCreateNothing, TypeOK
<1> QED
  BY <1>7, <1>8, <1>9, <1>10, <1>11, <1>12

\* A proposal is skipped or added: neither is decided by another's addition.
LEMMA ProposeStep ==
  ASSUME IInv, NEW r \in Requests, NEW k \in todo[r], Propose(r, k)
  PROVE  IInv'
<1> USE DEF IInv
<1>1. /\ UNCHANGED <<links, stored, relations, pc, inv, toLoad, seen, failed, earlier>>
      /\ pc[r] = "checking" /\ Stored' = Stored
  BY DEF Propose, Stored
<1>2. /\ todo' \in [Requests -> SUBSET Keys] /\ todo'[r] = todo[r] \ {k}
      /\ created' \in [Requests -> SUBSET Keys]
      /\ created'[r] = IF k \in Stored THEN created[r] ELSE created[r] \cup {k}
      /\ \A q \in Requests : q # r => todo'[q] = todo[q] /\ created'[q] = created[q]
  BY DEF Propose, RelationExists, TypeOK
<1>3. TypeOK' /\ ListsInv' /\ PlaceInv' /\ EarlierInv'
  <2>1. TypeOK' /\ EarlierInv'
    BY <1>1, <1>2 DEF TypeOK, EarlierInv, Succeeded
  <2>2. ListsInv'
    BY <1>1, <1>2 DEF ListsInv, Linked
  <2>3. PlaceInv'
    <3>1. Mine(r)' = Mine(r) /\ \A q \in Requests : Mine(q)' = Mine(q)
      BY <1>1 DEF Mine
    <3>2. todo[r] \cup created[r] \cup Stored \subseteq todo'[r] \cup created'[r] \cup Stored
      BY <1>2
    <3> QED
      BY <1>1, <1>2, <3>1, <3>2 DEF PlaceInv
  <2> QED
    BY <2>1, <2>2, <2>3
<1>4. AllOrNothing'
  BY <1>1, <1>2 DEF AllOrNothing, Succeeded, PlaceInv, Mine
<1>5. RepeatsCreateNothing'
  <2>1. \A q \in earlier[r] : run_all_rules(seen[q]) \subseteq Stored
    BY DEF EarlierInv, AllOrNothing, TypeOK
  <2> QED
    BY <1>1, <1>2, <2>1 DEF RepeatsCreateNothing
<1> QED
  BY <1>3, <1>4, <1>5

\* The commit makes the request's own rows, and everything proposed is there.
LEMMA CommitStep ==
  ASSUME IInv, NEW r \in Requests, Commit(r)
  PROVE  IInv'
<1> USE DEF IInv
<1> DEFINE new == [key : created[r], by : {r}]
<1>1. /\ UNCHANGED <<links, stored, inv, toLoad, seen, todo, created, failed, earlier>>
      /\ pc[r] = "checking" /\ todo[r] = {} /\ relations' = relations \cup new
  BY DEF Commit, local
<1>2. /\ pc' \in [Requests -> PCs]
      /\ \/ pc'[r] = "answered" /\ created[r] = {}
         \/ pc'[r] = "refreshing"
      /\ \A q \in Requests : q # r => pc'[q] = pc[q]
  BY <1>1 DEF Commit, Goto, TypeOK, PCs
<1>3. Stored' = Stored \cup created[r]
  <2>1. \A k \in created[r] : \E row \in new : row.key = k
    <3> TAKE k \in created[r]
    <3> WITNESS [key |-> k, by |-> r] \in new
    <3> QED
      OBVIOUS
  <2>2. \A row \in new : row.key \in created[r]
    OBVIOUS
  <2> HIDE DEF new
  <2>3. Stored' \subseteq Stored \cup created[r]
    BY <1>1, <2>2 DEF Stored
  <2>4. Stored \cup created[r] \subseteq Stored'
    BY <1>1, <2>1 DEF Stored
  <2> QED
    BY <2>3, <2>4
<1>4. /\ Mine(r) = {} /\ ~failed[r]
      /\ run_all_rules(seen[r]) \subseteq created[r] \cup Stored
  BY <1>1 DEF PlaceInv
<1>5. Mine(r)' = new /\ \A q \in Requests : q # r => Mine(q)' = Mine(q)
  BY <1>1, <1>4 DEF Mine
<1>6. TypeOK'
  BY <1>1, <1>2 DEF TypeOK, Rows
<1>7. ListsInv'
  BY <1>1 DEF ListsInv, Linked
<1>8. PlaceInv'
  BY <1>1, <1>2, <1>3, <1>4, <1>5 DEF PlaceInv
<1>9. EarlierInv'
  BY <1>1, <1>2 DEF EarlierInv, Succeeded, TypeOK
<1>10. AllOrNothing'
  <2>1. \A q \in Requests :
          /\ Succeeded(q)' => run_all_rules(seen'[q]) \subseteq Stored'
          /\ Mine(q)' = {} \/ Mine(q)' = [key : created'[q], by : {q}]
          /\ pc'[q] = "answered" /\ failed'[q] => Mine(q)' = {}
    BY <1>1, <1>2, <1>3, <1>4, <1>5 DEF AllOrNothing, Succeeded, Mine
  <2> QED
    BY <2>1 DEF AllOrNothing, Mine
<1> QED
  BY <1>1, <1>6, <1>7, <1>8, <1>9, <1>10 DEF RepeatsCreateNothing

\* After the commit nothing is stored any more.
LEMMA RefreshStep ==
  ASSUME IInv, NEW r \in Requests, Refreshed(r) \/ RefreshFails(r)
  PROVE  IInv'
<1> USE DEF IInv
<1>1. /\ UNCHANGED <<links, stored, relations, inv, toLoad, seen, todo, created, earlier>>
      /\ pc[r] = "refreshing"
  BY DEF Refreshed, RefreshFails, local
<1>2. /\ pc' \in [Requests -> PCs] /\ failed' \in [Requests -> BOOLEAN]
      /\ \/ pc'[r] = "aborted"
         \/ pc'[r] = "answered" /\ ~failed'[r]
      /\ \A q \in Requests : q # r => pc'[q] = pc[q] /\ failed'[q] = failed[q]
  <2>1. ~failed[r]
    BY <1>1 DEF PlaceInv
  <2> QED
    BY <2>1 DEF Refreshed, RefreshFails, Goto, Fails, local, TypeOK, PCs
<1>3. TypeOK' /\ ListsInv'
  BY <1>1, <1>2 DEF TypeOK, ListsInv, Linked
<1>4. Stored' = Stored /\ \A q \in Requests : Mine(q)' = Mine(q)
  BY <1>1 DEF Stored, Mine
<1>5. PlaceInv'
  BY <1>1, <1>2, <1>4 DEF PlaceInv
<1>6. EarlierInv'
  BY <1>1, <1>2 DEF EarlierInv, Succeeded, TypeOK
<1>7. AllOrNothing'
  <2>1. /\ run_all_rules(seen[r]) \subseteq Stored
        /\ Mine(r) = [key : created[r], by : {r}]
    BY <1>1, r \in Requests DEF PlaceInv
  <2>2. \A q \in Requests :
          /\ Succeeded(q)' => run_all_rules(seen'[q]) \subseteq Stored'
          /\ Mine(q)' = {} \/ Mine(q)' = [key : created'[q], by : {q}]
          /\ pc'[q] = "answered" /\ failed'[q] => Mine(q)' = {}
    BY <1>1, <1>2, <1>4, <2>1 DEF AllOrNothing, Succeeded, Mine
  <2> QED
    BY <2>2 DEF AllOrNothing, Mine
<1> QED
  BY <1>1, <1>3, <1>5, <1>6, <1>7 DEF RepeatsCreateNothing

\* Findings and links that others add.
LEMMA OthersStep ==
  ASSUME IInv,
         \/ \E t \in Targets, batch \in Batches : StoreFindings(t, batch)
         \/ \E i \in Investigations, row \in LinkRows : LinkTarget(i, row)
  PROVE  IInv'
<1> USE DEF IInv
<1>1. UNCHANGED <<relations, pc, inv, toLoad, seen, todo, created, failed, earlier>>
  BY DEF StoreFindings, LinkTarget, local
<1>2. /\ stored' \in [Targets -> SUBSET FindingIds]
      /\ \A t \in Targets : \A f \in stored'[t] : Info[f].target = t
  <2>1. CASE \E t \in Targets, batch \in Batches : StoreFindings(t, batch)
    <3>1. PICK t \in Targets, batch \in Batches : StoreFindings(t, batch)
      BY <2>1
    <3>2. batch \subseteq FindingIds /\ \A f \in batch : Info[f].target = t
      BY <3>1, FindingsAssumption DEF StoreFindings
    <3>3. stored' = [stored EXCEPT ![t] = stored[t] \cup batch]
      BY <3>1 DEF StoreFindings
    <3> QED
      BY <3>2, <3>3 DEF TypeOK, ListsInv
  <2>2. CASE \E i \in Investigations, row \in LinkRows : LinkTarget(i, row)
    BY <2>2 DEF LinkTarget, TypeOK, ListsInv
  <2> QED
    BY <2>1, <2>2
<1>3. /\ links' \in [Investigations -> SUBSET LinkRows]
      /\ \A i \in Investigations : links[i] \subseteq links'[i]
  <2>1. CASE \E t \in Targets, batch \in Batches : StoreFindings(t, batch)
    BY <2>1 DEF StoreFindings, TypeOK
  <2>2. CASE \E i \in Investigations, row \in LinkRows : LinkTarget(i, row)
    <3>1. PICK i \in Investigations, row \in LinkRows : LinkTarget(i, row)
      BY <2>2
    <3>2. links' = [links EXCEPT ![i] = links[i] \cup {row}]
      BY <3>1 DEF LinkTarget
    <3> QED
      BY <3>2 DEF TypeOK
  <2> QED
    BY <2>1, <2>2
<1>4. TypeOK'
  BY <1>1, <1>2, <1>3 DEF TypeOK
<1>5. ListsInv'
  <2>1. \A r \in Requests : inv[r] \in Investigations
    BY DEF TypeOK
  <2>2. \A i \in Investigations : Linked(i) \subseteq Linked(i)'
    BY <1>3 DEF Linked
  <2> QED
    BY <1>1, <1>2, <1>3, <2>1, <2>2 DEF ListsInv, Linked
<1> QED
  BY <1>1, <1>4, <1>5
  DEF PlaceInv, EarlierInv, AllOrNothing, RepeatsCreateNothing, Mine, Stored, Succeeded

LEMMA Invariance == Spec => []IInv
<1>1. IInv /\ [Next]_vars => IInv'
  <2> SUFFICES ASSUME IInv, [Next]_vars PROVE IInv'
    OBVIOUS
  <2>1. CASE UNCHANGED vars
    BY <2>1 DEF vars, local, IInv, TypeOK, ListsInv, Linked, PlaceInv, EarlierInv, AllOrNothing,
       RepeatsCreateNothing, Mine, Stored, Succeeded
  <2>2. CASE Next
    BY <2>2, BeginStep, FailStep, LoadStep, ProposeStep, CommitStep, RefreshStep, OthersStep
    DEF Next, RequestStep
  <2> QED
    BY <2>1, <2>2
<1> QED
  BY InitIInv, <1>1, PTL DEF Spec

\* A relation was proposed by the correlation that stored it.
LEMMA StoredWereProposed ==
  ASSUME IInv, NEW row \in relations
  PROVE  /\ row.by \in Requests /\ seen[row.by] \in Seq(FindingIds)
         /\ row.key \in run_all_rules(seen[row.by])
<1> DEFINE r == row.by
<1>1. r \in Requests /\ seen[r] \in Seq(FindingIds)
  BY DEF IInv, TypeOK, Rows
<1>2. row.key \in created[r]
  <2>1. row \in Mine(r)
    BY DEF Mine
  <2>2. Mine(r) = {} \/ Mine(r) = [key : created[r], by : {r}]
    BY <1>1 DEF IInv, AllOrNothing, Mine
  <2> HIDE DEF r
  <2> QED
    BY <2>1, <2>2
<1>3. row.key \in run_all_rules(seen[r])
  BY <1>1, <1>2 DEF IInv, ListsInv
<1> QED
  BY <1>1, <1>3

-----------------------------------------------------------------------------
THEOREM TypeCorrect == Spec => []TypeOK
<1>1. IInv => TypeOK
  BY DEF IInv
<1> QED
  BY <1>1, Invariance, PTL

\* No relation is invented: each follows from its two findings, which belong to
\* targets of the investigation it was made for.
THEOREM RelationsAreExplained == Spec => []RelationsExplained
<1>1. IInv => RelationsExplained
  <2> SUFFICES ASSUME IInv, NEW row \in relations
               PROVE  /\ Explains(row.key)
                      /\ {Info[row.key.source].target, Info[row.key.target].target}
                           \subseteq Linked(inv[row.by])
    BY DEF RelationsExplained
  <2> DEFINE r == row.by
  <2>1. /\ r \in Requests /\ seen[r] \in Seq(FindingIds)
        /\ row.key \in run_all_rules(seen[r])
    BY StoredWereProposed
  <2>4. Explains(row.key) /\ {row.key.source, row.key.target} \subseteq Listed(seen[r])
    BY <2>1, RulesExplained
  <2> QED
    BY <2>1, <2>4 DEF IInv, ListsInv
<1> QED
  BY <1>1, Invariance, PTL

\* A correlation that answers without error has stored all it proposed, one that
\* failed to persist has stored nothing.
THEOREM CorrelationIsAtomic == Spec => []AllOrNothing
<1>1. IInv => AllOrNothing
  BY DEF IInv
<1> QED
  BY <1>1, Invariance, PTL

\* Repeating a correlation adds nothing, though relations are looked up one by one
\* and no constraint makes them unique.
THEOREM RepetitionIsIdempotent == Spec => []RepeatsCreateNothing
<1>1. IInv => RepeatsCreateNothing
  BY DEF IInv
<1> QED
  BY <1>1, Invariance, PTL

-----------------------------------------------------------------------------
(* The direction of a shared address                                       *)

\* A request never stores a shared address both ways, whatever the order and the
\* repetitions of what it lists; two requests do only when they listed the two findings
\* in opposite orders (core/correlator.py:298-321).
THEOREM SharedOneWay == Spec => []OneDirection
<1>1. ASSUME IInv, NEW row \in relations, row.key.type = "SHARES_IP"
      PROVE  /\ Before(seen[row.by], row.key.source, row.key.target)
             /\ ~Before(seen[row.by], row.key.target, row.key.source)
  <2> DEFINE list == seen[row.by]
  <2>1. list \in Seq(FindingIds) /\ row.key \in run_all_rules(list)
    BY <1>1, StoredWereProposed
  <2> HIDE DEF list
  <2>2. row.key \in SharesIp(list)
    BY <1>1, <2>1, ResolvesToExplained, SubdomainOfExplained, FoundOnExplained
    DEF run_all_rules
  <2>3. PICK f \in AddressRecords(list), g \in AddressRecords(list) :
          row.key = Key(f, g, "SHARES_IP") /\ Before(list, f, g)
    BY <2>2 DEF SharesIp
  <2>4. f \in Listed(list) /\ g \in Listed(list)
    BY <2>3 DEF AddressRecords, OfType
  <2>5. FirstAt(list, f) \in Nat /\ FirstAt(list, g) \in Nat
    BY <2>1, <2>4, FirstPosition
  <2>6. Before(list, f, g) /\ ~Before(list, g, f)
    BY <2>3, <2>5 DEF Before
  <2> QED
    BY <2>3, <2>6 DEF Key, list
<1>2. IInv => OneDirection
  <2> SUFFICES ASSUME IInv, NEW x \in relations, NEW y \in relations,
                      x.key.type = "SHARES_IP", y.key.type = "SHARES_IP",
                      x.key.source = y.key.target, x.key.target = y.key.source
               PROVE  /\ x.by # y.by
                      /\ Before(seen[x.by], x.key.source, x.key.target)
                      /\ Before(seen[y.by], x.key.target, x.key.source)
    BY DEF OneDirection
  <2>1. /\ Before(seen[x.by], x.key.source, x.key.target)
        /\ ~Before(seen[x.by], x.key.target, x.key.source)
    BY <1>1
  <2>2. Before(seen[y.by], x.key.target, x.key.source)
    BY <1>1
  <2>3. x.by # y.by
    BY <2>1, <2>2
  <2> QED
    BY <2>1, <2>2, <2>3
<1> QED
  BY <1>2, Invariance, PTL

=============================================================================
