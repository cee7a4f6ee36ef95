----------------------- MODULE Investigations_proofs -----------------------
(***************************************************************************)
(* Proofs about Investigations, for any number of requests of each kind:    *)
(* what closing an investigation and linking a target still guarantee       *)
(* although neither is atomic.                                              *)
(***************************************************************************)
EXTENDS Investigations, TLAPS

\* A request moves to another place, or ends.
LEMMA Moves ==
  ASSUME TypeOK, NEW r \in Requests
  PROVE  /\ \A place \in PCs : Goto(r, place) =>
              /\ pc' \in [Requests -> PCs] /\ pc'[r] = place
              /\ outcome' = outcome
              /\ \A q \in Requests : q # r => pc'[q] = pc[q]
         /\ \A how \in Outcomes : End(r, how) =>
              /\ pc' \in [Requests -> PCs] /\ pc'[r] = "ended"
              /\ outcome' \in [Requests -> Outcomes] /\ outcome'[r] = how
              /\ \A q \in Requests : q # r => pc'[q] = pc[q] /\ outcome'[q] = outcome[q]
  BY DEF TypeOK, Goto, End, PCs

\* Linking a target adds it to the linked ones.
LEMMA LinkGrows ==
  ASSUME TypeOK, NEW r \in Requests, InsertLink(r)
  PROVE  /\ links' \in [TargetIds -> Nat]
         /\ Linked' = Linked \cup {tid[r]}
  BY DEF TypeOK, InsertLink, Linked

LEMMA InitIInv == Init => IInv
<1> SUFFICES ASSUME Init PROVE IInv
  OBVIOUS
<1>1. Linked = {}
  BY DEF Init, Linked
<1>2. TypeOK
  BY <1>1, RequestsAssumption DEF Init, TypeOK, Statuses, PCs, Outcomes
<1> QED
  BY <1>1, <1>2
  DEF Init, IInv, HistoryInv, PlaceInv, LateRequestsRefused, RepeatLinksNothing,
      AcceptedScansLink, Requests

\* A request begins.
LEMMA BeginStep ==
  ASSUME IInv, NEW r \in Requests, Begin(r)
  PROVE  IInv'
<1> USE DEF IInv, TypeOK, Statuses
<1>1. /\ UNCHANGED <<status, targets, links, tid, view, outcome>>
      /\ Linked' = Linked /\ Linked \subseteq TargetIds
  BY DEF Begin, Goto, db, Linked
<1>2. /\ pc' \in [Requests -> PCs]
      /\ pc'[r] \in {"find", "begun"} /\ outcome[r] = "none"
      /\ \A q \in Requests : q # r => pc'[q] = pc[q]
  <2>1. pc[r] = "start" /\ (Goto(r, "find") \/ Goto(r, "begun"))
    BY DEF Begin
  <2>2. "find" \in PCs /\ "begun" \in PCs
    BY DEF PCs
  <2> QED
    BY <2>1, <2>2, Moves DEF PlaceInv
<1>3. /\ born' \in [Requests -> [status : Statuses, linked : SUBSET TargetIds]]
      /\ born'[r] = [status |-> status, linked |-> Linked]
      /\ \A q \in Requests : q # r => born'[q] = born[q]
  BY <1>1 DEF Begin
<1>4. view[r] = "none"
  BY DEF Begin, PlaceInv
<1>5. TypeOK' /\ HistoryInv'
  BY <1>1, <1>2, <1>3 DEF HistoryInv
<1>6. PlaceInv'
  BY <1>1, <1>2, <1>3, <1>4 DEF PlaceInv
<1> QED
  BY <1>1, <1>2, <1>3, <1>5, <1>6
  DEF LateRequestsRefused, RepeatLinksNothing, AcceptedScansLink, Requests

\* A request ends without having changed anything.
LEMMA AbortStep ==
  ASSUME IInv, NEW r \in Requests, Abort(r)
  PROVE  IInv'
<1> USE DEF IInv, TypeOK
<1>1. UNCHANGED <<status, targets, links, tid, view, born>> /\ Linked' = Linked
  BY DEF Abort, db, Linked
<1>2. /\ pc' \in [Requests -> PCs] /\ pc'[r] = "ended"
      /\ outcome' \in [Requests -> Outcomes] /\ outcome'[r] = "aborted"
      /\ \A q \in Requests : q # r => pc'[q] = pc[q] /\ outcome'[q] = outcome[q]
  BY Moves DEF Abort, Outcomes
<1> QED
  BY <1>1, <1>2
  DEF HistoryInv, PlaceInv, LateRequestsRefused, RepeatLinksNothing, AcceptedScansLink,
      Requests

\* The investigation is loaded for the first time by the session.
LEMMA LoadFirstStep ==
  ASSUME IInv, NEW r \in Requests, LoadFirst(r)
  PROVE  IInv'
<1> USE DEF IInv, TypeOK, Statuses
<1>1. UNCHANGED <<status, targets, links, tid, born>> /\ Linked' = Linked
  BY DEF LoadFirst, db, Linked
<1>2. pc[r] = "begun" /\ view[r] = "none" /\ outcome[r] = "none"
  BY DEF LoadFirst, PlaceInv
<1>3. CASE Refuses(r)
  <2>1. view' = view /\ End(r, "refused")
    BY <1>3 DEF LoadFirst
  <2>2. /\ pc' \in [Requests -> PCs] /\ pc'[r] = "ended"
        /\ outcome' \in [Requests -> Outcomes] /\ outcome'[r] = "refused"
        /\ \A q \in Requests : q # r => pc'[q] = pc[q] /\ outcome'[q] = outcome[q]
    BY <2>1, Moves DEF Outcomes
  <2>3. TypeOK' /\ HistoryInv' /\ PlaceInv'
    BY <1>1, <1>2, <2>1, <2>2 DEF HistoryInv, PlaceInv
  <2> QED
    BY <1>1, <1>2, <2>1, <2>2, <2>3
    DEF LateRequestsRefused, RepeatLinksNothing, AcceptedScansLink, Requests
<1>4. CASE ~Refuses(r)
  <2>1. r \notin Strangers /\ status = "open"
    BY <1>2, <1>4 DEF Refuses, StatusSeen
  <2>2. /\ pc' \in [Requests -> PCs] /\ pc'[r] \in {"closing", "find"}
        /\ outcome' = outcome
        /\ \A q \in Requests : q # r => pc'[q] = pc[q]
    <3>1. Goto(r, "closing") \/ Goto(r, "find")
      BY <1>4 DEF LoadFirst
    <3>2. "closing" \in PCs /\ "find" \in PCs
      BY DEF PCs
    <3> QED
      BY <3>1, <3>2, Moves
  <2>3. view' = [view EXCEPT ![r] = "open"]
    BY <1>4, <2>1 DEF LoadFirst
  <2>4. born[r].status = "open"
    BY <2>1 DEF HistoryInv
  <2> QED
    BY <1>1, <1>2, <2>1, <2>2, <2>3, <2>4
    DEF HistoryInv, PlaceInv, LateRequestsRefused, RepeatLinksNothing,
        AcceptedScansLink, Requests
<1> QED
  BY <1>3, <1>4

\* The investigation is closed, perhaps once more.
LEMMA CloseStep ==
  ASSUME IInv, NEW r \in Requests, Close(r)
  PROVE  IInv'
<1> USE DEF IInv, TypeOK, Statuses
<1>1. UNCHANGED <<targets, links, tid, view, born>> /\ Linked' = Linked
      /\ status' = "closed"
  BY DEF Close, Linked
<1>2. /\ pc' \in [Requests -> PCs] /\ pc'[r] = "ended"
      /\ outcome' \in [Requests -> Outcomes] /\ outcome'[r] = "closed"
      /\ \A q \in Requests : q # r => pc'[q] = pc[q] /\ outcome'[q] = outcome[q]
  BY Moves DEF Close, Outcomes
<1>3. born[r].status = "open"
  BY DEF Close, PlaceInv
<1> QED
  BY <1>1, <1>2, <1>3
  DEF HistoryInv, PlaceInv, LateRequestsRefused, RepeatLinksNothing, AcceptedScansLink,
      Requests

\* get_or_create_target and the scan: nothing is refused or linked.
LEMMA TargetStep ==
  ASSUME IInv, NEW r \in Requests,
         FindTarget(r) \/ MissTarget(r) \/ CreateTarget(r) \/ ScanReturns(r)
  PROVE  IInv'
<1> USE DEF IInv, TypeOK, Statuses
<1>1. UNCHANGED <<status, links, view, born>> /\ Linked' = Linked
  BY DEF FindTarget, MissTarget, CreateTarget, ScanReturns, db, Linked
<1>2. /\ pc' \in [Requests -> PCs] /\ pc'[r] \in {"load", "scanning", "create"}
      /\ outcome' = outcome /\ outcome[r] = "none"
      /\ \A q \in Requests : q # r => pc'[q] = pc[q]
  <2>1. Goto(r, "load") \/ Goto(r, "scanning") \/ Goto(r, "create")
    BY DEF FindTarget, MissTarget, CreateTarget, ScanReturns, AfterTarget
  <2>2. {"load", "scanning", "create"} \subseteq PCs
    BY DEF PCs
  <2>3. pc[r] # "ended"
    BY DEF FindTarget, MissTarget, CreateTarget, ScanReturns
  <2> QED
    BY <2>1, <2>2, <2>3, Moves DEF PlaceInv
<1>3. /\ targets \subseteq targets' /\ targets' \subseteq TargetIds
      /\ tid' \in [Requests -> TargetIds]
      /\ \A q \in Requests : q # r => tid'[q] = tid[q]
  BY DEF FindTarget, MissTarget, CreateTarget, ScanReturns, db
<1>4. pc'[r] \in {"load", "scanning"} => tid'[r] \in targets'
  <2>1. CASE FindTarget(r) \/ CreateTarget(r)
    BY <2>1 DEF FindTarget, CreateTarget, db
  <2>2. CASE MissTarget(r)
    BY <2>2, Moves DEF MissTarget, PCs
  <2>3. CASE ScanReturns(r)
    BY <2>3 DEF ScanReturns, PlaceInv, db
  <2> QED
    BY <2>1, <2>2, <2>3
<1> QED
  BY <1>1, <1>2, <1>3, <1>4
  DEF HistoryInv, PlaceInv, LateRequestsRefused, RepeatLinksNothing, AcceptedScansLink,
      Requests

\* The investigation is loaded before linking: a scan accepted by its first load
\* sees the status of that load again.
LEMMA LoadForLinkStep ==
  ASSUME IInv, NEW r \in Requests, LoadForLink(r)
  PROVE  IInv'
<1> USE DEF IInv, TypeOK, Statuses
<1>1. UNCHANGED <<status, targets, links, tid, view, born>> /\ Linked' = Linked
  BY DEF LoadForLink, db, Linked
<1>2. outcome[r] = "none" /\ tid[r] \in targets
  BY DEF LoadForLink, PlaceInv
<1>3. CASE Refuses(r)
  <2>1. /\ pc' \in [Requests -> PCs] /\ pc'[r] = "ended"
        /\ outcome' \in [Requests -> Outcomes] /\ outcome'[r] = "refused"
        /\ \A q \in Requests : q # r => pc'[q] = pc[q] /\ outcome'[q] = outcome[q]
    BY <1>3, Moves DEF LoadForLink, Outcomes
  <2>2. view[r] = "none"
    BY <1>3 DEF Refuses, StatusSeen, PlaceInv
  <2>3. TypeOK' /\ HistoryInv' /\ PlaceInv'
    BY <1>1, <1>2, <2>1, <2>2 DEF HistoryInv, PlaceInv
  <2> QED
    BY <1>1, <1>2, <2>1, <2>2, <2>3
    DEF LateRequestsRefused, RepeatLinksNothing, AcceptedScansLink, Requests
<1>4. CASE ~Refuses(r)
  <2>1. /\ pc' \in [Requests -> PCs] /\ pc'[r] = "check" /\ outcome' = outcome
        /\ \A q \in Requests : q # r => pc'[q] = pc[q]
    BY <1>4, Moves DEF LoadForLink, PCs
  <2>2. born[r].status = "open"
    BY <1>4 DEF Refuses, StatusSeen, PlaceInv, HistoryInv
  <2>3. TypeOK' /\ HistoryInv' /\ PlaceInv'
    BY <1>1, <1>2, <2>1, <2>2 DEF HistoryInv, PlaceInv
  <2> QED
    BY <1>1, <1>2, <2>1, <2>2, <2>3
    DEF LateRequestsRefused, RepeatLinksNothing, AcceptedScansLink, Requests
<1> QED
  BY <1>3, <1>4

\* The select for an existing link.
LEMMA CheckLinkStep ==
  ASSUME IInv, NEW r \in Requests, CheckLink(r)
  PROVE  IInv'
<1> USE DEF IInv, TypeOK, Statuses
<1>1. UNCHANGED <<status, targets, links, tid, view, born>> /\ Linked' = Linked
  BY DEF CheckLink, db, Linked
<1>2. outcome[r] = "none" /\ born[r].status = "open" /\ tid[r] \in targets
  BY DEF CheckLink, PlaceInv
<1>3. CASE NotLinked(r)
  <2>1. /\ pc' \in [Requests -> PCs] /\ pc'[r] = "insert" /\ outcome' = outcome
        /\ \A q \in Requests : q # r => pc'[q] = pc[q]
    BY <1>3, Moves DEF CheckLink, PCs
  <2>2. tid[r] \notin born[r].linked
    BY <1>3 DEF NotLinked, HistoryInv, Linked
  <2>3. TypeOK' /\ HistoryInv' /\ PlaceInv'
    BY <1>1, <1>2, <2>1, <2>2 DEF HistoryInv, PlaceInv
  <2> QED
    BY <1>1, <1>2, <2>1, <2>2, <2>3
    DEF LateRequestsRefused, RepeatLinksNothing, AcceptedScansLink, Requests
<1>4. CASE ~NotLinked(r)
  <2>1. /\ pc' \in [Requests -> PCs] /\ pc'[r] = "ended"
        /\ outcome' \in [Requests -> Outcomes] /\ outcome'[r] = "already linked"
        /\ \A q \in Requests : q # r => pc'[q] = pc[q] /\ outcome'[q] = outcome[q]
    BY <1>4, Moves DEF CheckLink, Outcomes
  <2>2. links[tid[r]] > 0
    BY <1>4 DEF NotLinked
  <2>3. TypeOK' /\ HistoryInv' /\ PlaceInv'
    BY <1>1, <1>2, <2>1, <2>2 DEF HistoryInv, PlaceInv
  <2> QED
    BY <1>1, <1>2, <2>1, <2>2, <2>3
    DEF LateRequestsRefused, RepeatLinksNothing, AcceptedScansLink, Requests
<1> QED
  BY <1>3, <1>4

\* The link is committed.
LEMMA InsertLinkStep ==
  ASSUME IInv, NEW r \in Requests, InsertLink(r)
  PROVE  IInv'
<1> USE DEF IInv, TypeOK, Statuses
<1>1. UNCHANGED <<status, targets, tid, view, born>>
  BY DEF InsertLink
<1>2. /\ links' \in [TargetIds -> Nat]
      /\ Linked' = Linked \cup {tid[r]}
  BY LinkGrows
<1>3. /\ pc' \in [Requests -> PCs] /\ pc'[r] = "ended"
      /\ outcome' \in [Requests -> Outcomes] /\ outcome'[r] = "linked"
      /\ \A q \in Requests : q # r => pc'[q] = pc[q] /\ outcome'[q] = outcome[q]
  BY Moves DEF InsertLink, Outcomes
<1>4. born[r].status = "open" /\ tid[r] \notin born[r].linked /\ tid[r] \in targets
  BY DEF InsertLink, PlaceInv
<1>5. \A t \in TargetIds : links[t] > 0 \/ t = tid[r] => links'[t] > 0
  BY <1>2 DEF Linked
<1>6. TypeOK' /\ HistoryInv' /\ PlaceInv'
  BY <1>1, <1>2, <1>3, <1>4 DEF HistoryInv, PlaceInv
<1> QED
  BY <1>1, <1>3, <1>4, <1>5, <1>6
  DEF LateRequestsRefused, RepeatLinksNothing, AcceptedScansLink, Requests

LEMMA Invariance == Spec => []IInv
<1>1. IInv /\ [Next]_vars => IInv'
  <2> SUFFICES ASSUME IInv, [Next]_vars PROVE IInv'
    OBVIOUS
  <2>1. CASE UNCHANGED vars
    BY <2>1 DEF vars, db, IInv, TypeOK, Linked, HistoryInv, PlaceInv, LateRequestsRefused,
       RepeatLinksNothing, AcceptedScansLink
  <2> QED
    BY <2>1, BeginStep, AbortStep, LoadFirstStep, CloseStep, TargetStep, LoadForLinkStep,
       CheckLinkStep, InsertLinkStep DEF Next
<1> QED
  BY InitIInv, <1>1, PTL DEF Spec

THEOREM TypeCorrect == Spec => []TypeOK
<1>1. IInv => TypeOK
  BY DEF IInv
<1> QED
  BY <1>1, Invariance, PTL

\* Once a close has been committed, no request that begins can link or close
\* anything, although checking the status and acting on it are separate steps.
THEOREM ClosedToLateRequests == Spec => []LateRequestsRefused
<1>1. IInv => LateRequestsRefused
  BY DEF IInv
<1> QED
  BY <1>1, Invariance, PTL

\* A target linked when a request begins is not linked again by it, although the
\* database allows it: duplicates come from overlapping requests alone.
THEOREM SequentialRequestsIdempotent == Spec => []RepeatLinksNothing
<1>1. IInv => RepeatLinksNothing
  BY DEF IInv
<1> QED
  BY <1>1, Invariance, PTL

\* An accepted scan is not refused after the fact, because its session keeps the
\* status it was accepted with; and an answered one has its target linked.
THEOREM AcceptedScansAreLinked == Spec => []AcceptedScansLink
<1>1. IInv => AcceptedScansLink
  BY DEF IInv
<1> QED
  BY <1>1, Invariance, PTL

=============================================================================
