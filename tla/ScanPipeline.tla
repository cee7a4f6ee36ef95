---------------------------- MODULE ScanPipeline ----------------------------
(***************************************************************************)
(* Concurrent requests that run run_scan (src/app/services/scan.py) for     *)
(* one (target_type, target_value) pair, each with a database session of    *)
(* its own: get_or_create_target, the rate limiter, the modules of the      *)
(* registry, and store_module_result with the deduplicator                  *)
(* (src/app/services/storage.py, src/app/core/deduplicator.py).             *)
(*                                                                         *)
(* An action is what one request does between two awaits.  The database     *)
(* isolates at READ COMMITTED: a select sees every commit before it, and    *)
(* no constraint makes targets or findings unique.  Rows are counted, not   *)
(* named: findings[t][k] is the number of Finding rows of target t with     *)
(* dedup key k, a (type, normalized_value) pair.                            *)
(*                                                                         *)
(* Confidence is left out: every module gives one fixed confidence to each  *)
(* finding type, so maybe_upgrade_confidence never changes a row here.      *)
(***************************************************************************)
EXTENDS RateLimiter, Sequences, FiniteSets

CONSTANTS
  Requests,
  ScanCallers,    \* those of the scan handlers; the others are adaptive hops
  TargetIds,      \* primary keys for Target rows
  Registry,       \* _MODULE_REGISTRY[target_type], a sequence of modules
  Keys,           \* dedup keys of findings
  Batches,        \* module -> the finding lists its execute() may return
  MaxRun,         \* most ticks a module and the storing of its result take
  MaxTime,        \* bound on the clock
  MaxRestarts     \* bound on process restarts

ModuleIndex == 1..Len(Registry)

ASSUME PipelineAssumption ==
  /\ ScanCallers \subseteq Requests
  /\ TargetIds # {}
  /\ Registry \in Seq(LimiterKeys)
  /\ \A i, j \in ModuleIndex : Registry[i] = Registry[j] => i = j
  /\ \A i \in ModuleIndex : Batches[Registry[i]] \subseteq Seq(Keys)
  /\ MaxRun \in Nat /\ MaxTime \in Nat /\ MaxRestarts \in Nat

VARIABLES
  targets,    \* ids of the Target rows of this (type, value)
  findings,   \* target id -> dedup key -> number of Finding rows
  evidence,   \* target id -> dedup key -> number of Evidence rows
  pc,         \* where each request is
  tid,        \* the target each request works on
  mod,        \* index of the module each request is at
  started,    \* time the module was started
  batch,      \* findings the module returned
  known,      \* for each finding looked up so far: was there a row already
  session,    \* the database session of each request
  returned,   \* history: keys the modules returned to the request
  reported,   \* keys in the findings of the request's ScanResult
  errors,     \* kinds of errors in the request's ScanResult
  restarts    \* restarts of the process so far

limiter == <<now, last_seen>>
db      == <<targets, findings, evidence>>
run     == <<tid, mod, started>>
store   == <<batch, known, session>>
outcome == <<returned, reported, errors>>
vars    == <<limiter, db, pc, run, store, outcome, restarts>>

Ended == {"done", "aborted", "killed"}
PCs   == {"start", "create", "module", "executing", "lookup"} \cup Ended

Sessions == {"usable", "poisoned", "expired"}
Errors   == {"scope", "rate_limited", "raised", "storage"}

Module(r) == Registry[mod[r]]

\* The request runs its module or stores what the module returned.
InFlight(r) == pc[r] \in {"executing", "lookup"}

-----------------------------------------------------------------------------
Init ==
  /\ LimiterInit
  /\ targets = {}
  /\ findings = [t \in TargetIds |-> [k \in Keys |-> 0]]
  /\ evidence = [t \in TargetIds |-> [k \in Keys |-> 0]]
  /\ pc = [r \in Requests |-> "start"]
  /\ tid = [r \in Requests |-> CHOOSE t \in TargetIds : TRUE]
  /\ mod = [r \in Requests |-> 1]
  /\ started = [r \in Requests |-> 0]
  /\ batch = [r \in Requests |-> <<>>]
  /\ known = [r \in Requests |-> <<>>]
  /\ session = [r \in Requests |-> "usable"]
  /\ returned = [r \in Requests |-> {}]
  /\ reported = [r \in Requests |-> {}]
  /\ errors = [r \in Requests |-> {}]
  /\ restarts = 0

-----------------------------------------------------------------------------
(* get_or_create_target and the scope check that follows it                *)

\* The request has its target.  If its scope (or the target's type) rules the
\* target out it ends there, else it enters the loop over the modules.
WorkOn(r, t) ==
  /\ tid' = [tid EXCEPT ![r] = t]
  /\ \/ /\ pc' = [pc EXCEPT ![r] = "module"]
        /\ UNCHANGED errors
     \/ /\ pc' = [pc EXCEPT ![r] = "done"]
        /\ errors' = [errors EXCEPT ![r] = @ \cup {"scope"}]
  /\ UNCHANGED <<mod, started, returned, reported>>

\* get_target_by_value finds a row.
FindTarget(r) ==
  /\ pc[r] = "start"
  /\ \E t \in targets : WorkOn(r, t)
  /\ UNCHANGED <<limiter, db, store, restarts>>

\* get_target_by_value finds none.
MissTarget(r) ==
  /\ pc[r] = "start"
  /\ targets = {}
  /\ pc' = [pc EXCEPT ![r] = "create"]
  /\ UNCHANGED <<limiter, db, run, store, outcome, restarts>>

\* create_target inserts and commits, without looking again.
CreateTarget(r) ==
  /\ pc[r] = "create"
  /\ \E t \in TargetIds \ targets : targets' = targets \cup {t} /\ WorkOn(r, t)
  /\ UNCHANGED <<limiter, findings, evidence, store, restarts>>

\* The select or the insert raises: nothing in the pipeline catches it.
TargetFails(r) ==
  /\ pc[r] \in {"start", "create"}
  /\ pc' = [pc EXCEPT ![r] = "aborted"]
  /\ UNCHANGED <<limiter, db, run, store, outcome, restarts>>

-----------------------------------------------------------------------------
(* The loop over the modules                                               *)

\* Faulty: the pipeline tries the same module again.
SameModule(r) ==
  pc' = [pc EXCEPT ![r] = "module"] /\ UNCHANGED mod

NextModule(r) ==
  /\ pc' = [pc EXCEPT ![r] = "module"]
  /\ mod' = [mod EXCEPT ![r] = @ + 1]

Fail(r, kind) == errors' = [errors EXCEPT ![r] = @ \cup {kind}]

\* check_and_record refuses.
RateLimited(r) ==
  /\ pc[r] = "module"
  /\ mod[r] \in ModuleIndex
  /\ ~Allowed(Module(r))
  /\ NextModule(r)
  /\ Fail(r, "rate_limited")
  /\ UNCHANGED <<limiter, db, tid, started, store, returned, reported, restarts>>

\* check_and_record allows and records in one step, before the module is
\* executed.  The log line that follows reads target.id: on an expired object
\* that raises, and the request aborts with the timestamp recorded.
StartModule(r) ==
  /\ pc[r] = "module"
  /\ mod[r] \in ModuleIndex
  /\ Allowed(Module(r))
  /\ Record(Module(r))
  /\ IF session[r] = "expired"
     THEN pc' = [pc EXCEPT ![r] = "aborted"] /\ UNCHANGED started
     ELSE /\ pc' = [pc EXCEPT ![r] = "executing"]
          /\ started' = [started EXCEPT ![r] = now]
  /\ UNCHANGED <<now, db, tid, mod, store, outcome, restarts>>

\* module.execute raises: the error is kept and the next module is tried.
ModuleRaises(r) ==
  /\ pc[r] = "executing"
  /\ NextModule(r)
  /\ Fail(r, "raised")
  /\ UNCHANGED <<limiter, db, tid, started, store, returned, reported, restarts>>

\* Faulty: the answers of the lookups are not discarded with the batch.
KeepAnswers(r) == batch' = [batch EXCEPT ![r] = <<>>] /\ UNCHANGED known

\* The local variables of store_module_result go out of scope.
DiscardBatch(r) ==
  /\ batch' = [batch EXCEPT ![r] = <<>>]
  /\ known' = [known EXCEPT ![r] = <<>>]

\* The finding lists the module at work may return.
MayReturn(r) == IF mod[r] \in ModuleIndex THEN Batches[Module(r)] ELSE {}

\* module.execute returns the findings in b; without any there is nothing to do.
ModuleReturns(r, b) ==
  /\ pc[r] = "executing"
  /\ batch' = [batch EXCEPT ![r] = b]
  /\ known' = [known EXCEPT ![r] = <<>>]
  /\ returned' = [returned EXCEPT ![r] = @ \cup {b[i] : i \in DOMAIN b}]
  /\ IF b = <<>>
     THEN NextModule(r)
     ELSE pc' = [pc EXCEPT ![r] = "lookup"] /\ UNCHANGED mod
  /\ UNCHANGED <<limiter, db, tid, started, session, reported, errors, restarts>>

-----------------------------------------------------------------------------
(* store_module_result                                                     *)

\* Faulty: the stored value and the value looked up are normalized differently.
NoRow(t, k) == FALSE

\* find_existing
HasRow(t, k) == findings[t][k] > 0

\* deduplicate_findings looks the findings up one by one, each with a select of
\* its own, and inserts none of them before the last is looked up.
Lookup(r) ==
  LET n == Len(known[r]) + 1
  IN  /\ pc[r] = "lookup"
      /\ n <= Len(batch[r])
      /\ session[r] = "usable"
      /\ known' = [known EXCEPT ![r] = Append(@, HasRow(tid[r], batch[r][n]))]
      /\ UNCHANGED <<limiter, db, pc, run, batch, session, outcome, restarts>>

\* Faulty: the caller takes a failed lookup for an empty result.
SwallowLookupError(r) == UNCHANGED errors

RecordLookupError(r) == Fail(r, "storage")

\* A lookup raises.  deduplicate_findings is called outside the try block, so
\* nothing rolls back: the transaction stays failed and with it every later
\* statement of this session.
LookupFails(r) ==
  /\ pc[r] = "lookup"
  /\ Len(known[r]) < Len(batch[r])
  /\ session' = [session EXCEPT ![r] = "poisoned"]
  /\ NextModule(r)
  /\ RecordLookupError(r)
  /\ DiscardBatch(r)
  /\ UNCHANGED <<limiter, db, tid, started, returned, reported, restarts>>

LookedUp(r) == pc[r] = "lookup" /\ Len(known[r]) = Len(batch[r])

BatchKeys(r) == {batch[r][i] : i \in DOMAIN batch[r]}

\* Occurrences of key k in the batch, and those that had no row when looked up.
Seen(r, k)   == Cardinality({i \in DOMAIN batch[r] : batch[r][i] = k})
Unseen(r, k) ==
  Cardinality({i \in DOMAIN batch[r] : batch[r][i] = k /\ ~known[r][i]})

\* Faulty: evidence is stored for the deduplicated findings alone.
EvidenceForKnown(r, k) == Seen(r, k) - Unseen(r, k)

\* Each finding of the batch brings one item of evidence, for the new row or for
\* the existing one.
NewEvidence(r, k) == Seen(r, k)

\* One transaction: a row for every finding that had none, the evidence.
Commit(r) ==
  /\ findings' = [findings EXCEPT ![tid[r]] =
                    [k \in Keys |-> @[k] + Unseen(r, k)]]
  /\ evidence' = [evidence EXCEPT ![tid[r]] =
                    [k \in Keys |-> @[k] + NewEvidence(r, k)]]
  /\ UNCHANGED targets

StoreCommits(r) ==
  /\ LookedUp(r)
  /\ Commit(r)
  /\ reported' = [reported EXCEPT ![r] = @ \cup BatchKeys(r)]
  /\ DiscardBatch(r)
  /\ NextModule(r)
  /\ UNCHANGED <<limiter, tid, started, session, returned, errors, restarts>>

\* rollback() expires every object of the session, the Target included.
RollBack(r) == session' = [session EXCEPT ![r] = "expired"]

\* The commit succeeds and a refresh after it raises: the same except block
\* rolls back, with nothing left to undo, and the batch counts as failed.
StoreUnreported(r) ==
  /\ LookedUp(r)
  /\ Commit(r)
  /\ RollBack(r)
  /\ Fail(r, "storage")
  /\ DiscardBatch(r)
  /\ NextModule(r)
  /\ UNCHANGED <<limiter, tid, started, returned, reported, restarts>>

\* Faulty: the findings join the result ahead of the commit.
ReportUncommitted(r) ==
  reported' = [reported EXCEPT ![r] = @ \cup BatchKeys(r)]

ReportNothing(r) == UNCHANGED reported

\* The flush or the commit raises.
StoreFails(r) ==
  /\ LookedUp(r)
  /\ RollBack(r)
  /\ Fail(r, "storage")
  /\ ReportNothing(r)
  /\ DiscardBatch(r)
  /\ NextModule(r)
  /\ UNCHANGED <<limiter, db, tid, started, returned, restarts>>

\* Every caller reads target.id, which an expired object cannot give.  The scan
\* handlers also list the evidence of each finding, a relationship that nothing
\* loaded and that cannot be loaded from the synchronous code they read it in.
CanRespond(r) ==
  /\ session[r] # "expired"
  /\ r \in ScanCallers => reported[r] = {}

\* run_scan returns and its caller builds the response, or raises building it.
Respond(r) ==
  /\ pc[r] = "module"
  /\ mod[r] \notin ModuleIndex
  /\ pc' = [pc EXCEPT ![r] = IF CanRespond(r) THEN "done" ELSE "aborted"]
  /\ UNCHANGED <<limiter, db, run, store, outcome, restarts>>

-----------------------------------------------------------------------------
(* The process                                                             *)

\* Time passes, but not beyond what a module and its storing may take.
Tick ==
  /\ now < MaxTime
  /\ \A r \in Requests : InFlight(r) => now < started[r] + MaxRun
  /\ now' = now + 1
  /\ UNCHANGED <<last_seen, db, pc, run, store, outcome, restarts>>

\* The process dies and comes back: the limiter forgets, requests under way are
\* gone, committed rows stay.
Restart ==
  /\ restarts < MaxRestarts
  /\ restarts' = restarts + 1
  /\ last_seen' = NothingSeen
  /\ pc' = [r \in Requests |->
              IF pc[r] \in Ended \cup {"start"} THEN pc[r] ELSE "killed"]
  /\ UNCHANGED <<now, db, run, store, outcome>>

RequestStep(r) ==
  \/ FindTarget(r)
  \/ MissTarget(r)
  \/ CreateTarget(r)
  \/ TargetFails(r)
  \/ RateLimited(r)
  \/ StartModule(r)
  \/ ModuleRaises(r)
  \/ \E b \in MayReturn(r) : ModuleReturns(r, b)
  \/ Lookup(r)
  \/ LookupFails(r)
  \/ StoreCommits(r)
  \/ StoreUnreported(r)
  \/ StoreFails(r)
  \/ Respond(r)

Next ==
  \/ \E r \in Requests : RequestStep(r)
  \/ Tick
  \/ Restart

Spec == Init /\ [][Next]_vars

\* The event loop resumes every request whose awaited call has completed; the
\* calls themselves end because each carries a timeout.
FairSpec == Spec /\ \A r \in Requests : WF_vars(RequestStep(r))

-----------------------------------------------------------------------------
(* Properties                                                              *)

TypeOK ==
  /\ LimiterTypeOK
  /\ targets \subseteq TargetIds
  /\ findings \in [TargetIds -> [Keys -> Nat]]
  /\ evidence \in [TargetIds -> [Keys -> Nat]]
  /\ pc \in [Requests -> PCs]
  /\ tid \in [Requests -> TargetIds]
  /\ mod \in [Requests -> 1..(Len(Registry) + 1)]
  /\ started \in [Requests -> Nat]
  /\ batch \in [Requests -> Seq(Keys)]
  /\ known \in [Requests -> Seq(BOOLEAN)]
  /\ \A r \in Requests : Len(known[r]) <= Len(batch[r])
  /\ session \in [Requests -> Sessions]
  /\ returned \in [Requests -> SUBSET Keys]
  /\ reported \in [Requests -> SUBSET Keys]
  /\ errors \in [Requests -> SUBSET Errors]
  /\ restarts \in 0..MaxRestarts

Modules == {Registry[i] : i \in ModuleIndex}

Holders ==
  [m \in Modules |-> {r \in Requests : InFlight(r) /\ Module(r) = m}]

Flight == INSTANCE SingleFlight WITH holders <- Holders

\* Because a module and its storing take less than the limiter's interval, the
\* limiter makes the pipeline single-flight: no two requests are ever between
\* check_and_record and the commit for the same module of the target.
SingleFlightSpec == Flight!Spec

\* "Prevents duplicate Findings in the database": there is one row at most for
\* a (target_id, type, normalized_value), whatever the requests interleave.
UniqueFindings ==
  \A t \in TargetIds, k \in Keys : findings[t][k] <= 1

\* Every Finding row has evidence of its own to show for it.
FindingsHaveEvidence ==
  \A t \in TargetIds, k \in Keys : evidence[t][k] >= findings[t][k]

\* What a request reports is in the database, under the target it worked on,
\* whichever later steps of the request failed.
ReportedArePersisted ==
  \A r \in Requests : \A k \in reported[r] : findings[tid[r]][k] > 0

\* A response never hides a loss: what a module returned is among the reported
\* findings, or the errors name the storage failure.
NoSilentLoss ==
  \A r \in Requests :
    pc[r] = "done" => returned[r] \subseteq reported[r] \/ "storage" \in errors[r]

\* Every request ends, rate limited, failed or aborted as it may be.
RequestsEnd == \A r \in Requests : <>(pc[r] \in Ended)

\* A scan handler "returns a structured result": only a failed store keeps what
\* a request found and stored from being answered.
StoredIsAnswered ==
  \A r \in Requests :
    pc[r] = "aborted" => reported[r] = {} \/ session[r] = "expired"

-----------------------------------------------------------------------------
(* The inductive invariant behind SingleFlightSpec and UniqueFindings       *)

\* A request in flight is at a module of the registry.
AtModule == \A r \in Requests : InFlight(r) => mod[r] \in ModuleIndex

\* The limiter remembers the start of every module in flight.
FlightInv ==
  \A r \in Requests : InFlight(r) =>
    /\ Module(r) \in DOMAIN last_seen
    /\ last_seen[Module(r)] = started[r]
    /\ now <= started[r] + MaxRun

Exclusive ==
  \A r, s \in Requests :
    InFlight(r) /\ InFlight(s) /\ Module(r) = Module(s) => r = s

\* A finding looked up and not found still has no row.
LookupInv ==
  \A r \in Requests : pc[r] = "lookup" =>
    /\ batch[r] \in Batches[Module(r)]
    /\ \A i \in DOMAIN known[r] :
         ~known[r][i] => findings[tid[r]][batch[r][i]] = 0

\* No batch names a key twice, and no key can come from two modules.
DistinctKeys ==
  /\ \A m \in Modules : \A b \in Batches[m] :
       \A i, j \in DOMAIN b : b[i] = b[j] => i = j
  /\ \A m, n \in Modules : \A b \in Batches[m], c \in Batches[n] :
       \A i \in DOMAIN b, j \in DOMAIN c : b[i] = c[j] => m = n

=============================================================================
