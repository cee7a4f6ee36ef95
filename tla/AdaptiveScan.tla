---------------------------- MODULE AdaptiveScan ----------------------------
(***************************************************************************)
(* One adaptive scan request: the router handler                           *)
(* adaptive_scan_within_investigation and the breadth-first orchestrator   *)
(* run_adaptive_scan it calls (src/app/services/adaptive.py), with the     *)
(* investigation the scanned targets are linked to and the request of      *)
(* somebody else that may close it meanwhile.                              *)
(*                                                                         *)
(* A target stands for a (target_type, target_value) pair.  What a scan    *)
(* finds is abstracted to the list of leads extract_leads derives from it; *)
(* a rate-limited or failed module yields no finding and so no lead.       *)
(***************************************************************************)
EXTENDS Naturals, Sequences

CONSTANTS
  Targets,      \* (target_type, target_value) pairs
  Supported,    \* those whose type is in SUPPORTED_TARGET_TYPES
  MayHang,      \* those whose scan awaits a subprocess without limit: usernames
  LeadLists,    \* the lead lists a scan may produce (without repetition)
  DepthLimit    \* largest max_depth the router accepts (4 in the code)

ASSUME TargetsAssumption ==
  /\ Supported \subseteq Targets
  /\ MayHang \subseteq Supported
  /\ DepthLimit \in Nat

ASSUME LeadsAssumption ==
  /\ LeadLists \subseteq Seq(Targets)
  /\ <<>> \in LeadLists

VARIABLES
  phase,          \* where the request is
  max_depth,      \* the max_depth query parameter
  queue,          \* breadth-first queue of items
  session_seen,   \* targets taken from the queue in this run
  current,        \* the item being processed
  leads_here,     \* leads extracted by the scan of current
  unfiled,        \* the suffix of leads_here not yet enqueued or skipped
  hops,           \* result.hops
  leads_skipped,  \* result.leads_skipped
  inv_status,     \* status column of the investigation
  linked          \* targets linked to the investigation

requestVars == <<phase, max_depth, queue, session_seen, current, leads_here,
                 unfiled, hops, leads_skipped>>
vars == <<requestVars, inv_status, linked>>

Phases == {"received", "loop", "scanning", "filing",
           "done", "failed", "rejected"}
Ended  == {"done", "failed", "rejected"}

SkipReasons == {"seen", "depth", "unsupported", "scope"}

Item == [depth : Nat, target : Targets]
Hop  == [depth : Nat, target : Targets, leads : LeadLists]
Skip == [depth : Nat, target : Targets, reason : SkipReasons]

-----------------------------------------------------------------------------
(* Guards of the orchestrator                                              *)

\* No caller passes a scope to run_adaptive_scan, which falls back on UNRESTRICTED:
\* its check allows every target.
InScope == Targets

Eligible(t) == t \in Supported /\ t \in InScope

\* Faulty: the session dedup guard is missing.
RefusalWithoutDedup(item) ==
  IF item.depth > max_depth           THEN "depth"
  ELSE IF item.target \notin Supported THEN "unsupported"
  ELSE IF item.target \notin InScope  THEN "scope"
  ELSE "none"

\* The first guard of the loop body that refuses the item; "none" if it is
\* to be scanned.
Refusal(item) ==
  IF item.target \in session_seen     THEN "seen"
  ELSE IF item.depth > max_depth      THEN "depth"
  ELSE IF item.target \notin Supported THEN "unsupported"
  ELSE IF item.target \notin InScope  THEN "scope"
  ELSE "none"

\* Faulty: leads are extracted at every depth.
LeadsAtAnyDepth(depth) == LeadLists

\* Faulty: extract_leads returns without _deduplicate_leads.
LeadsRepeated(depth) ==
  IF depth < max_depth THEN {l \o l : l \in LeadLists} ELSE {<<>>}

\* Leads are extracted only while another hop is allowed.
LeadsAt(depth) == IF depth < max_depth THEN LeadLists ELSE {<<>>}

\* The field targets_scanned of the result: filled together with session_seen,
\* ahead of the depth, support and scope guards.
targets_scanned == session_seen

\* Faulty: a repeated lead is dropped without a word.
RecordSkipSilently(item, reason) ==
  leads_skipped' = IF reason = "seen" THEN leads_skipped
                   ELSE Append(leads_skipped, [depth |-> item.depth,
                          target |-> item.target, reason |-> reason])

RecordSkip(item, reason) ==
  leads_skipped' = Append(leads_skipped,
    [depth |-> item.depth, target |-> item.target, reason |-> reason])

\* Faulty: the work list is a stack.
EnqueueFirst(item) == queue' = <<item>> \o queue /\ UNCHANGED session_seen

\* Faulty: the target counts as scanned from the moment it is queued.
EnqueueSeen(item) ==
  /\ queue' = Append(queue, item)
  /\ session_seen' = session_seen \cup {item.target}

Enqueue(item) == queue' = Append(queue, item) /\ UNCHANGED session_seen

\* Faulty: the link is refused once the investigation is closed.
LinkIfStillOpen ==
  linked' = IF inv_status = "open" THEN linked \cup {current.target} ELSE linked

\* add_target_to_investigation re-reads the investigation, but the session still
\* holds the object the router loaded, with its status "open", and a select does
\* not refresh a live object: the link is made whatever the status column says by
\* now, or is there already.
LinkCurrent == linked' = linked \cup {current.target}

-----------------------------------------------------------------------------
Init ==
  /\ phase = "received"
  /\ max_depth \in 0..DepthLimit
  /\ queue = <<>>
  /\ session_seen = {}
  /\ current \in [depth : {0}, target : Targets]
  /\ leads_here = <<>>
  /\ unfiled = <<>>
  /\ hops = <<>>
  /\ leads_skipped = <<>>
  /\ inv_status \in {"open", "closed", "missing"}
  /\ linked \in SUBSET Targets
  /\ inv_status = "missing" => linked = {}

\* The router accepts the request; the initial target (held in current) becomes
\* the only item of the queue.
Start ==
  /\ phase = "received"
  /\ current.target \in Supported
  /\ inv_status = "open"
  /\ phase' = "loop"
  /\ queue' = <<current>>
  /\ UNCHANGED <<max_depth, session_seen, current, leads_here, unfiled, hops,
                 leads_skipped, inv_status, linked>>

\* Unsupported type (400), unknown investigation (404) or closed one (400).
Reject ==
  /\ phase = "received"
  /\ current.target \notin Supported \/ inv_status # "open"
  /\ phase' = "rejected"
  /\ UNCHANGED <<max_depth, queue, session_seen, current, leads_here, unfiled,
                 hops, leads_skipped, inv_status, linked>>

\* Faulty: the head is inspected and left where it is.
SkipNextPeeks ==
  /\ phase = "loop"
  /\ queue # <<>>
  /\ Refusal(Head(queue)) # "none"
  /\ session_seen' = session_seen \cup {Head(queue).target}
  /\ UNCHANGED <<phase, max_depth, queue, current, leads_here, unfiled, hops,
                 leads_skipped, inv_status, linked>>

\* queue.pop(0) yields an item that one of the guards refuses.
SkipNext ==
  /\ phase = "loop"
  /\ queue # <<>>
  /\ Refusal(Head(queue)) # "none"
  /\ RecordSkip(Head(queue), Refusal(Head(queue)))
  /\ session_seen' = session_seen \cup {Head(queue).target}
  /\ queue' = Tail(queue)
  /\ UNCHANGED <<phase, max_depth, current, leads_here, unfiled, hops,
                 inv_status, linked>>

\* queue.pop(0) yields an item that passes the guards: run_scan is awaited.
ScanNext ==
  /\ phase = "loop"
  /\ queue # <<>>
  /\ Refusal(Head(queue)) = "none"
  /\ phase' = "scanning"
  /\ current' = Head(queue)
  /\ session_seen' = session_seen \cup {Head(queue).target}
  /\ queue' = Tail(queue)
  /\ UNCHANGED <<max_depth, leads_here, unfiled, hops, leads_skipped,
                 inv_status, linked>>

\* run_scan returns, the target is linked and the leads are extracted.
ScanReturns(leads) ==
  /\ phase = "scanning"
  /\ phase' = "filing"
  /\ leads_here' = leads
  /\ unfiled' = leads
  /\ LinkCurrent
  /\ UNCHANGED <<max_depth, queue, session_seen, current, hops, leads_skipped,
                 inv_status>>

\* A storage failure rolls the session back, which expires the Target object;
\* its id cannot be loaded from synchronous code, so the request ends with an
\* unhandled exception and the hops so far are not reported.
ScanRaises ==
  /\ phase = "scanning"
  /\ phase' = "failed"
  /\ UNCHANGED <<max_depth, queue, session_seen, current, leads_here, unfiled,
                 hops, leads_skipped, inv_status, linked>>

\* One turn of "for lead in leads_here": enqueued one hop deeper, or skipped.
FileLead ==
  /\ phase = "filing"
  /\ unfiled # <<>>
  /\ unfiled' = Tail(unfiled)
  /\ LET item == [depth |-> current.depth + 1, target |-> Head(unfiled)]
     IN  IF item.target \in session_seen
         THEN RecordSkip(item, "seen") /\ UNCHANGED <<queue, session_seen>>
         ELSE Enqueue(item) /\ UNCHANGED leads_skipped
  /\ UNCHANGED <<phase, max_depth, current, leads_here, hops,
                 inv_status, linked>>

\* All leads are filed: the hop is appended to the result.
AppendHop ==
  /\ phase = "filing"
  /\ unfiled = <<>>
  /\ phase' = "loop"
  /\ hops' = Append(hops, [depth |-> current.depth, target |-> current.target,
                           leads |-> leads_here])
  /\ UNCHANGED <<max_depth, queue, session_seen, current, leads_here, unfiled,
                 leads_skipped, inv_status, linked>>

\* The queue is empty: the result is returned.
ReturnResult ==
  /\ phase = "loop"
  /\ queue = <<>>
  /\ phase' = "done"
  /\ UNCHANGED <<max_depth, queue, session_seen, current, leads_here, unfiled,
                 hops, leads_skipped, inv_status, linked>>

\* Another request closes the investigation.
CloseInvestigation ==
  /\ inv_status = "open"
  /\ inv_status' = "closed"
  /\ UNCHANGED <<requestVars, linked>>

RequestStep ==
  \/ Start
  \/ Reject
  \/ SkipNext
  \/ ScanNext
  \/ \E leads \in LeadsAt(current.depth) : ScanReturns(leads)
  \/ ScanRaises
  \/ FileLead
  \/ AppendHop
  \/ ReturnResult

Next == RequestStep \/ CloseInvestigation

Spec == Init /\ [][Next]_vars

\* The scan in progress awaits a sherlock-rs subprocess: the timeout passed to it is
\* one per site, and communicate() is awaited without any.
AwaitsSubprocess == phase = "scanning" /\ current.target \in MayHang

\* The event loop keeps running a request whose awaited call has completed, and the
\* modules that ask the network have a timeout of their own. Nothing promises that a
\* subprocess ends, so no fairness is assumed of a request that awaits one.
FairSpec == Spec /\ WF_vars(RequestStep /\ ~AwaitsSubprocess)

-----------------------------------------------------------------------------
(* Properties                                                              *)

TypeOK ==
  /\ phase \in Phases
  /\ max_depth \in 0..DepthLimit
  /\ queue \in Seq(Item)
  /\ session_seen \subseteq Targets
  /\ current \in Item
  /\ leads_here \in LeadLists
  /\ unfiled \in Seq(Targets)
  /\ hops \in Seq(Hop)
  /\ leads_skipped \in Seq(Skip)
  /\ inv_status \in {"open", "closed", "missing"}
  /\ linked \subseteq Targets

InProgress == phase \in {"scanning", "filing"}

\* "A (target_type, target_value) pair is never scanned twice in the same
\* adaptive run, regardless of how many leads point to it": neither two hops nor
\* a hop and the scan in progress are of the same target.
ScannedOnce ==
  /\ \A i, j \in DOMAIN hops : hops[i].target = hops[j].target => i = j
  /\ InProgress => \A i \in DOMAIN hops : hops[i].target # current.target

\* Nothing is scanned beyond max_depth hops, nor of a type no module supports; and no
\* item deeper than max_depth is ever queued, so that a lead is only ever refused as
\* seen or as unsupported: the depth guard of the loop refuses nothing, and neither
\* does the scope guard, whatever the handler's docstring says of an investigation's
\* scope (routers/investigation.py:311).
ScansAllowed ==
  /\ \A i \in DOMAIN hops : hops[i].depth <= max_depth /\ Eligible(hops[i].target)
  /\ InProgress => current.depth <= max_depth /\ Eligible(current.target)
  /\ \A i \in DOMAIN queue : queue[i].depth <= max_depth
  /\ \A i \in DOMAIN leads_skipped : leads_skipped[i].reason \in {"seen", "unsupported"}

\* The run is breadth first: hops come in order of depth, and the depth of a hop
\* is the least one, one more than the shallowest hop that points to it.
ShortestDepth ==
  /\ \A i, j \in DOMAIN hops : i < j => hops[i].depth <= hops[j].depth
  /\ \A i, j \in DOMAIN hops : \A k \in DOMAIN hops[i].leads :
       hops[j].target = hops[i].leads[k] => hops[j].depth <= hops[i].depth + 1
  /\ \A j \in DOMAIN hops : hops[j].depth > 0 =>
       \E i \in 1..(j - 1) : /\ hops[i].depth + 1 = hops[j].depth
                             /\ \E k \in DOMAIN hops[i].leads :
                                  hops[i].leads[k] = hops[j].target

\* There is a trace of target t at this depth in the queue or in the result.
Accounted(t, depth) ==
  \/ \E i \in DOMAIN queue : queue[i] = [depth |-> depth, target |-> t]
  \/ \E i \in DOMAIN hops : hops[i].target = t /\ hops[i].depth = depth
  \/ \E i \in DOMAIN leads_skipped :
       leads_skipped[i].target = t /\ leads_skipped[i].depth = depth
  \/ phase \in {"scanning", "filing", "failed"}
       /\ current = [depth |-> depth, target |-> t]

\* No lead is lost: every lead a hop extracted waits in the queue, was scanned,
\* or is reported in leads_skipped, at the depth it was found for; and a target that
\* a finished run counts in targets_scanned without a hop of its own is reported there
\* too, with the guard that refused it (adaptive.py:155).
LeadsAccounted ==
  /\ \A i \in DOMAIN hops : \A k \in DOMAIN hops[i].leads :
       Accounted(hops[i].leads[k], hops[i].depth + 1)
  /\ phase = "done" => \A t \in targets_scanned :
       \/ \E i \in DOMAIN hops : hops[i].target = t
       \/ \E i \in DOMAIN leads_skipped :
            leads_skipped[i].target = t /\ leads_skipped[i].reason # "seen"

\* A finished run is complete: every lead of a supported type was
\* scanned, whichever hop found it first.
CompleteCoverage ==
  phase = "done" =>
    \A i \in DOMAIN hops : \A k \in DOMAIN hops[i].leads :
      Eligible(hops[i].leads[k]) =>
        \E j \in DOMAIN hops : hops[j].target = hops[i].leads[k]

\* "All discovered targets are automatically linked to the investigation": every
\* hop of a run has its target linked, closed meanwhile or not.
HopsLinked == \A i \in DOMAIN hops : hops[i].target \in linked

\* "No infinite loops": every request ends, even when findings reference each
\* other circularly, unless it waits for ever for one subprocess that hangs.
RequestEnds == <>(phase \in Ended) \/ <>[]AwaitsSubprocess

-----------------------------------------------------------------------------
(* The inductive invariant behind ScannedOnce, ScansAllowed, HopsLinked and *)
(* CompleteCoverage                                                         *)

\* session_seen holds all that was scanned.
SeenInv ==
  /\ \A i \in DOMAIN hops : hops[i].target \in session_seen
  /\ InProgress => current.target \in session_seen

\* Leads are filed only where another hop is allowed.
DepthInv ==
  /\ phase = "received" => current.depth = 0 /\ queue = <<>> /\ hops = <<>>
                             /\ session_seen = {}
  /\ phase = "filing" /\ unfiled # <<>> => current.depth < max_depth

LinkInv == phase = "filing" => current.target \in linked

\* Targets taken from the queue or waiting in it.
KnownTargets == session_seen \cup {queue[i].target : i \in DOMAIN queue}

\* Every lead of a hop is known, or about to be filed; and what was taken from
\* the queue and may be scanned is a hop or the scan in progress.
CoverInv ==
  /\ \A i \in DOMAIN hops : \A k \in DOMAIN hops[i].leads :
       hops[i].leads[k] \in KnownTargets
  /\ phase = "filing" => \A k \in DOMAIN leads_here :
       leads_here[k] \in KnownTargets \/ \E j \in DOMAIN unfiled : unfiled[j] = leads_here[k]
  /\ \A t \in session_seen : Eligible(t) =>
       \/ \E i \in DOMAIN hops : hops[i].target = t
       \/ phase \in {"scanning", "filing", "failed"} /\ current.target = t

IInv ==
  /\ SeenInv /\ DepthInv /\ LinkInv /\ CoverInv
  /\ ScannedOnce /\ ScansAllowed /\ HopsLinked

=============================================================================
