--------------------------- MODULE Investigations ---------------------------
(***************************************************************************)
(* One investigation and the concurrent requests that link one              *)
(* (target_type, target_value) pair to it or close it:                      *)
(*   Adders    POST /investigations/{id}/targets                            *)
(*   Scanners  POST /investigations/{id}/scan                               *)
(*   Closers   POST /investigations/{id}/close                              *)
(* (src/app/routers/investigation.py, src/app/services/investigation.py and *)
(* run_scan_for_investigation of src/app/services/scan.py).                 *)
(*                                                                         *)
(* Every request has a database session of its own, and an action is what   *)
(* it does between two awaits.  The session keeps the Investigation object  *)
(* that a handler still refers to, and a later select in the same session   *)
(* returns that object with the attributes it was first loaded with         *)
(* (expire_on_commit is off).  What run_scan does apart from creating the   *)
(* Target row is in ScanPipeline.                                           *)
(***************************************************************************)
EXTENDS Naturals

CONSTANTS
  Adders, Scanners, Closers,   \* requests, by the endpoint they call
  Strangers,                   \* requests whose owner_id is not the owner's
  TargetIds                    \* primary keys for Target rows

Requests == Adders \cup Scanners \cup Closers

ASSUME RequestsAssumption ==
  /\ Adders \cap Scanners = {} /\ Adders \cap Closers = {} /\ Scanners \cap Closers = {}
  /\ Strangers \subseteq Requests
  /\ TargetIds # {}

VARIABLES
  status,    \* status column of the investigation
  targets,   \* ids of the Target rows of the pair
  links,     \* target id -> number of InvestigationTarget rows
  pc,        \* where each request is
  tid,       \* the target each request works on
  view,      \* the status of the Investigation object in the request's session
  born,      \* history: status and linked targets when the request began
  outcome    \* how the request ended

db     == <<status, targets, links>>
vars   == <<db, pc, tid, view, born, outcome>>

Statuses == {"open", "closed"}
PCs      == {"start", "begun", "find", "create", "scanning", "load", "check", "insert",
             "closing", "ended"}
Outcomes == {"none", "linked", "already linked", "closed", "refused", "aborted"}

Linked == {t \in TargetIds : links[t] > 0}

-----------------------------------------------------------------------------
Init ==
  /\ status = "open"
  /\ targets = {}
  /\ links = [t \in TargetIds |-> 0]
  /\ pc = [r \in Requests |-> "start"]
  /\ tid = [r \in Requests |-> CHOOSE t \in TargetIds : TRUE]
  /\ view = [r \in Requests |-> "none"]
  /\ born = [r \in Requests |-> [status |-> "open", linked |-> {}]]
  /\ outcome = [r \in Requests |-> "none"]

Goto(r, place) == pc' = [pc EXCEPT ![r] = place] /\ UNCHANGED outcome
End(r, how) ==
  /\ pc' = [pc EXCEPT ![r] = "ended"]
  /\ outcome' = [outcome EXCEPT ![r] = how]

\* The request arrives.  add_target looks for the Target before anything else;
\* the other two load the investigation first.
Begin(r) ==
  /\ pc[r] = "start"
  /\ Goto(r, IF r \in Adders THEN "find" ELSE "begun")
  /\ born' = [born EXCEPT ![r] = [status |-> status, linked |-> Linked]]
  /\ UNCHANGED <<db, tid, view>>

\* Any statement may raise, and so may run_scan: none of the handlers catches
\* anything but ValueError.
Abort(r) ==
  /\ pc[r] \notin {"start", "ended"}
  /\ End(r, "aborted")
  /\ UNCHANGED <<db, tid, view, born>>

-----------------------------------------------------------------------------
(* get_investigation and the guards on what it returns                     *)

\* Faulty: every select refreshes the objects of the session.
StatusFresh(r) == status

\* The status a request reads off the investigation it selects.
StatusSeen(r) == IF view[r] = "none" THEN status ELSE view[r]

\* Faulty: only the owner is checked.
RefusesStrangers(r) == r \in Strangers

\* The investigation is not found under the request's owner_id, or is closed.
Refuses(r) == r \in Strangers \/ StatusSeen(r) = "closed"

\* run_scan_for_investigation, and close_investigation: load and check.
LoadFirst(r) ==
  /\ pc[r] = "begun"
  /\ IF Refuses(r)
     THEN End(r, "refused") /\ UNCHANGED view
     ELSE /\ Goto(r, IF r \in Closers THEN "closing" ELSE "find")
          /\ view' = [view EXCEPT ![r] = status]
  /\ UNCHANGED <<db, tid, born>>

\* close_investigation commits, whatever was committed since it looked.
Close(r) ==
  /\ pc[r] = "closing"
  /\ status' = "closed"
  /\ End(r, "closed")
  /\ UNCHANGED <<targets, links, tid, view, born>>

-----------------------------------------------------------------------------
(* get_or_create_target, in the handler of Adders and in run_scan          *)

AfterTarget(r) == IF r \in Adders THEN "load" ELSE "scanning"

FindTarget(r) ==
  /\ pc[r] = "find"
  /\ \E t \in targets : tid' = [tid EXCEPT ![r] = t]
  /\ Goto(r, AfterTarget(r))
  /\ UNCHANGED <<db, view, born>>

\* Faulty: the missing target is not created.
MissTargetGoesOn(r) ==
  /\ pc[r] = "find"
  /\ targets = {}
  /\ Goto(r, AfterTarget(r))
  /\ UNCHANGED <<db, tid, view, born>>

MissTarget(r) ==
  /\ pc[r] = "find"
  /\ targets = {}
  /\ Goto(r, "create")
  /\ UNCHANGED <<db, tid, view, born>>

CreateTarget(r) ==
  /\ pc[r] = "create"
  /\ \E t \in TargetIds \ targets :
       targets' = targets \cup {t} /\ tid' = [tid EXCEPT ![r] = t]
  /\ Goto(r, AfterTarget(r))
  /\ UNCHANGED <<status, links, view, born>>

\* run_scan returns, with findings or with errors only.
ScanReturns(r) ==
  /\ pc[r] = "scanning"
  /\ Goto(r, "load")
  /\ UNCHANGED <<db, tid, view, born>>

-----------------------------------------------------------------------------
(* add_target_to_investigation                                             *)

LoadForLink(r) ==
  /\ pc[r] = "load"
  /\ IF Refuses(r) THEN End(r, "refused") ELSE Goto(r, "check")
  /\ UNCHANGED <<db, tid, view, born>>

\* Faulty: the select for an existing link is dropped.
NoLinkYet(r) == TRUE

\* The select for an existing link of this target finds none.
NotLinked(r) == links[tid[r]] = 0

\* For Adders a link that exists is an error (400), for Scanners it is fine.
CheckLink(r) ==
  /\ pc[r] = "check"
  /\ IF NotLinked(r) THEN Goto(r, "insert") ELSE End(r, "already linked")
  /\ UNCHANGED <<db, tid, view, born>>

InsertLink(r) ==
  /\ pc[r] = "insert"
  /\ links' = [links EXCEPT ![tid[r]] = @ + 1]
  /\ End(r, "linked")
  /\ UNCHANGED <<status, targets, tid, view, born>>

Next ==
  \E r \in Requests :
    \/ Begin(r)
    \/ Abort(r)
    \/ LoadFirst(r)
    \/ Close(r)
    \/ FindTarget(r)
    \/ MissTarget(r)
    \/ CreateTarget(r)
    \/ ScanReturns(r)
    \/ LoadForLink(r)
    \/ CheckLink(r)
    \/ InsertLink(r)

Spec == Init /\ [][Next]_vars

-----------------------------------------------------------------------------
(* Properties                                                              *)

TypeOK ==
  /\ status \in Statuses
  /\ targets \subseteq TargetIds
  /\ links \in [TargetIds -> Nat]
  /\ Linked \subseteq targets        \* the foreign key
  /\ pc \in [Requests -> PCs]
  /\ tid \in [Requests -> TargetIds]
  /\ view \in [Requests -> Statuses \cup {"none"}]
  /\ born \in [Requests -> [status : Statuses, linked : SUBSET TargetIds]]
  /\ outcome \in [Requests -> Outcomes]

\* What "closed investigations reject new targets" amounts to: a request that
\* begins after the close was committed links nothing, however it interleaves
\* with those that began earlier.
LateRequestsRefused ==
  \A r \in Requests : born[r].status = "closed" => outcome[r] \notin {"linked", "closed"}

\* A Target row that was linked when a request began is not linked again by it:
\* requests that do not overlap are idempotent.
RepeatLinksNothing ==
  \A r \in Requests : outcome[r] = "linked" => tid[r] \notin born[r].linked

\* A scan that was accepted is never refused once it has run, with its findings
\* stored, although the investigation may have been closed meanwhile; and a scan
\* that is answered has its target linked.
AcceptedScansLink ==
  \A r \in Scanners :
    /\ view[r] = "open" => outcome[r] # "refused"
    /\ outcome[r] \in {"linked", "already linked"} => links[tid[r]] > 0

-----------------------------------------------------------------------------
(* The inductive invariant behind these                                    *)

\* The status and the links only grow from what a request saw when it began.
HistoryInv ==
  \A r \in Requests :
    /\ born[r].status = "closed" => status = "closed"
    /\ born[r].linked \subseteq Linked

\* What a request knows at each place of its run.
PlaceInv ==
  \A r \in Requests :
    /\ view[r] # "none" => view[r] = "open" /\ r \notin Strangers
                             /\ born[r].status = "open"
    /\ pc[r] \in {"start", "begun"} => view[r] = "none"
    /\ pc[r] \in {"scanning", "load", "check", "insert"} => tid[r] \in targets
    /\ pc[r] \in {"check", "insert", "closing"} => born[r].status = "open"
    /\ pc[r] = "insert" => tid[r] \notin born[r].linked
    /\ outcome[r] # "none" => pc[r] = "ended"

IInv ==
  /\ TypeOK /\ HistoryInv /\ PlaceInv
  /\ LateRequestsRefused /\ RepeatLinksNothing /\ AcceptedScansLink

-----------------------------------------------------------------------------
(* What the documentation promises and the code does not keep              *)

\* "Closed investigations are read-only: no new targets can be added."
ClosedIsReadOnly == [][status = "closed" => UNCHANGED links]_vars

\* A target "already linked to this investigation" is not linked again.
LinkedOnce == \A t \in TargetIds : links[t] <= 1

=============================================================================
