------------------------- MODULE ScanPipeline_proofs -------------------------
(***************************************************************************)
(* Proofs about ScanPipeline, for any number of requests, any registry and  *)
(* any findings: types, and, where a module and the storing of its result   *)
(* take less than the limiter's interval, that the pipeline is single       *)
(* flight and stores no finding twice.                                      *)
(***************************************************************************)
EXTENDS ScanPipeline, FiniteSetTheorems, TLAPS

LEMMA RegistryEntries ==
  ASSUME NEW i \in ModuleIndex
  PROVE  Registry[i] \in LimiterKeys /\ Registry[i] \in Modules
  BY PipelineAssumption DEF ModuleIndex, Modules

\* The rows a commit adds are a number.
LEMMA RowCounts ==
  ASSUME TypeOK, NEW r \in Requests, NEW k \in Keys
  PROVE  /\ Seen(r, k) \in Nat /\ Unseen(r, k) \in Nat
         /\ NewEvidence(r, k) \in Nat
<1>1. DOMAIN batch[r] = 1..Len(batch[r]) /\ Len(batch[r]) \in Nat
  BY DEF TypeOK
<1>2. IsFiniteSet(DOMAIN batch[r])
  BY <1>1, FS_Interval
<1>3. /\ IsFiniteSet({i \in DOMAIN batch[r] : batch[r][i] = k})
      /\ IsFiniteSet({i \in DOMAIN batch[r] : batch[r][i] = k /\ ~known[r][i]})
  BY <1>2, FS_Subset
<1> QED
  BY <1>3, FS_CardinalityType DEF Seen, Unseen, NewEvidence

\* An error kept in the result is one of the known kinds.
LEMMA FailTypes ==
  ASSUME errors \in [Requests -> SUBSET Errors], NEW r \in Requests,
         NEW kind \in Errors, Fail(r, kind)
  PROVE  errors' \in [Requests -> SUBSET Errors]
<1>1. errors' = [errors EXCEPT ![r] = errors[r] \cup {kind}]
  BY DEF Fail
<1>2. errors[r] \cup {kind} \in SUBSET Errors
  OBVIOUS
<1> QED
  BY <1>1, <1>2

-----------------------------------------------------------------------------
(* Type correctness                                                        *)

TypeInv == TypeOK /\ AtModule

LEMMA InitTypeInv == Init => TypeInv
  BY PipelineAssumption
  DEF Init, TypeInv, TypeOK, AtModule, LimiterInit, LimiterTypeOK, NothingSeen, PCs,
      Sessions, InFlight, Ended

\* get_or_create_target, whichever way it goes.
LEMMA TargetTypes ==
  ASSUME TypeInv, NEW r \in Requests,
         FindTarget(r) \/ MissTarget(r) \/ CreateTarget(r) \/ TargetFails(r)
  PROVE  TypeInv'
<1> USE DEF TypeInv, TypeOK, AtModule, InFlight, PCs, Ended, Errors
<1>1. ASSUME NEW t \in TargetIds, WorkOn(r, t)
      PROVE  /\ pc' \in [Requests -> PCs]
             /\ tid' \in [Requests -> TargetIds]
             /\ errors' \in [Requests -> SUBSET Errors]
             /\ mod' = mod
             /\ \A q \in Requests : InFlight(q)' => InFlight(q)
             /\ UNCHANGED <<started, returned, reported>>
  <2>1. /\ tid' \in [Requests -> TargetIds] /\ mod' = mod
        /\ UNCHANGED <<started, returned, reported>>
    BY <1>1 DEF WorkOn
  <2>2. pc' = [pc EXCEPT ![r] = "module"] \/ pc' = [pc EXCEPT ![r] = "done"]
    BY <1>1 DEF WorkOn
  <2>3. errors' = errors \/ errors' = [errors EXCEPT ![r] = @ \cup {"scope"}]
    BY <1>1 DEF WorkOn
  <2>4. pc' \in [Requests -> PCs] /\ \A q \in Requests : InFlight(q)' => InFlight(q)
    BY <2>2
  <2>5. errors' \in [Requests -> SUBSET Errors]
    BY <2>3, FailTypes DEF Fail
  <2> QED
    BY <2>1, <2>4, <2>5
<1>2. CASE FindTarget(r)
  BY <1>1, <1>2 DEF FindTarget, limiter, db, store, LimiterTypeOK
<1>3. CASE MissTarget(r)
  BY <1>3 DEF MissTarget, limiter, db, run, store, outcome, LimiterTypeOK
<1>4. CASE CreateTarget(r)
  BY <1>1, <1>4 DEF CreateTarget, limiter, store, LimiterTypeOK
<1>5. CASE TargetFails(r)
  BY <1>5 DEF TargetFails, limiter, db, run, store, outcome, LimiterTypeOK
<1> QED
  BY <1>2, <1>3, <1>4, <1>5

\* Moving on to the next module.
LEMMA NextModuleTypes ==
  ASSUME TypeInv, NEW r \in Requests, mod[r] \in ModuleIndex, NextModule(r)
  PROVE  /\ pc' \in [Requests -> PCs]
         /\ mod' \in [Requests -> 1..(Len(Registry) + 1)]
         /\ ~InFlight(r)'
         /\ \A q \in Requests : q # r => (InFlight(q)' <=> InFlight(q)) /\ mod'[q] = mod[q]
<1>1. Len(Registry) \in Nat
  BY PipelineAssumption
<1>2. mod[r] + 1 \in 1..(Len(Registry) + 1)
  BY <1>1 DEF ModuleIndex
<1> QED
  BY <1>2 DEF NextModule, TypeInv, TypeOK, PCs, InFlight

\* The loop over the modules.
LEMMA LoopTypes ==
  ASSUME TypeInv, NEW r \in Requests, RateLimited(r) \/ StartModule(r) \/ Respond(r)
  PROVE  TypeInv'
<1>1. CASE RateLimited(r)
  <2>1. mod[r] \in ModuleIndex /\ NextModule(r) /\ Fail(r, "rate_limited")
    BY <1>1 DEF RateLimited
  <2>2. errors' \in [Requests -> SUBSET Errors]
    BY <2>1, FailTypes DEF TypeInv, TypeOK, Errors
  <2> QED
    BY <1>1, <2>1, <2>2, NextModuleTypes
    DEF RateLimited, limiter, db, store, TypeInv, TypeOK, AtModule, LimiterTypeOK
<1>2. CASE StartModule(r)
  <2>1. Module(r) \in LimiterKeys
    BY <1>2, RegistryEntries DEF StartModule, Module
  <2>2. LimiterTypeOK'
    BY <1>2, <2>1 DEF StartModule, Record, TypeInv, TypeOK, LimiterTypeOK
  <2>3. pc' \in [Requests -> PCs] /\ started' \in [Requests -> Nat]
    BY <1>2 DEF StartModule, TypeInv, TypeOK, PCs, Ended, LimiterTypeOK
  <2>4. AtModule'
    BY <1>2 DEF StartModule, TypeInv, TypeOK, AtModule, InFlight
  <2> QED
    BY <1>2, <2>2, <2>3, <2>4 DEF StartModule, db, store, outcome, TypeInv, TypeOK
<1>3. CASE Respond(r)
  BY <1>3 DEF Respond, limiter, db, run, store, outcome, TypeInv, TypeOK, AtModule,
     InFlight, PCs, Ended, LimiterTypeOK
<1> QED
  BY <1>1, <1>2, <1>3

\* The module and the lookups of what it returned.
LEMMA ModuleTypes ==
  ASSUME TypeInv, NEW r \in Requests,
         \/ ModuleRaises(r)
         \/ \E b \in MayReturn(r) : ModuleReturns(r, b)
         \/ Lookup(r)
  PROVE  TypeInv'
<1>1. CASE ModuleRaises(r)
  <2>1. mod[r] \in ModuleIndex /\ NextModule(r) /\ Fail(r, "raised")
    BY <1>1 DEF ModuleRaises, TypeInv, AtModule, InFlight
  <2>2. errors' \in [Requests -> SUBSET Errors]
    BY <2>1, FailTypes DEF TypeInv, TypeOK, Errors
  <2> QED
    BY <1>1, <2>1, <2>2, NextModuleTypes
    DEF ModuleRaises, limiter, db, store, TypeInv, TypeOK, AtModule, LimiterTypeOK
<1>2. ASSUME NEW b \in MayReturn(r), ModuleReturns(r, b)
      PROVE  TypeInv'
  <2>1. mod[r] \in ModuleIndex /\ b \in Batches[Registry[mod[r]]]
    BY <1>2 DEF MayReturn, Module, ModuleReturns, TypeInv, AtModule, InFlight
  <2>2. b \in Seq(Keys)
    BY <2>1, PipelineAssumption
  <2>3. {b[i] : i \in DOMAIN b} \subseteq Keys
    BY <2>2
  <2>4. returned' \in [Requests -> SUBSET Keys]
    BY <1>2, <2>3 DEF ModuleReturns, TypeInv, TypeOK
  <2>5. batch' \in [Requests -> Seq(Keys)] /\ known' \in [Requests -> Seq(BOOLEAN)]
    BY <1>2, <2>2 DEF ModuleReturns, TypeInv, TypeOK
  <2>6. Len(<<>>) <= Len(b)
    BY <2>2
  <2>7. \A q \in Requests : Len(known'[q]) <= Len(batch'[q])
    BY <1>2, <2>6 DEF ModuleReturns, TypeInv, TypeOK
  <2>8. /\ pc' \in [Requests -> PCs] /\ mod' \in [Requests -> 1..(Len(Registry) + 1)]
        /\ AtModule'
    <3>1. CASE b = <<>>
      BY <1>2, <2>1, <3>1, NextModuleTypes DEF ModuleReturns, TypeInv, AtModule
    <3>2. CASE b # <<>>
      BY <1>2, <2>1, <3>2 DEF ModuleReturns, TypeInv, TypeOK, AtModule, InFlight, PCs
    <3> QED
      BY <3>1, <3>2
  <2> QED
    BY <1>2, <2>4, <2>5, <2>7, <2>8
    DEF ModuleReturns, limiter, db, TypeInv, TypeOK, LimiterTypeOK
<1>3. CASE Lookup(r)
  <2> DEFINE answer == HasRow(tid[r], batch[r][Len(known[r]) + 1])
  <2>1. answer \in BOOLEAN
    BY DEF HasRow
  <2>2. known' = [known EXCEPT ![r] = Append(known[r], answer)]
    BY <1>3 DEF Lookup
  <2>3. /\ Append(known[r], answer) \in Seq(BOOLEAN)
        /\ Len(Append(known[r], answer)) = Len(known[r]) + 1
    BY <2>1 DEF TypeInv, TypeOK
  <2>4. Len(known[r]) + 1 <= Len(batch[r])
    BY <1>3 DEF Lookup
  <2>5. known' \in [Requests -> Seq(BOOLEAN)]
        /\ \A q \in Requests : Len(known'[q]) <= Len(batch[q])
    BY <2>2, <2>3, <2>4 DEF TypeInv, TypeOK
  <2> QED
    BY <1>3, <2>5
    DEF Lookup, limiter, db, run, outcome, TypeInv, TypeOK, AtModule, InFlight,
        LimiterTypeOK
<1> QED
  BY <1>1, <1>2, <1>3

\* What a commit writes.
LEMMA CommitTypes ==
  ASSUME TypeInv, NEW r \in Requests, Commit(r)
  PROVE  /\ findings' \in [TargetIds -> [Keys -> Nat]]
         /\ evidence' \in [TargetIds -> [Keys -> Nat]]
         /\ targets' = targets
<1>1. \A k \in Keys : Unseen(r, k) \in Nat /\ NewEvidence(r, k) \in Nat
  BY RowCounts DEF TypeInv
<1>2. [k \in Keys |-> findings[tid[r]][k] + Unseen(r, k)] \in [Keys -> Nat]
  BY <1>1 DEF TypeInv, TypeOK
<1>3. [k \in Keys |-> evidence[tid[r]][k] + NewEvidence(r, k)] \in [Keys -> Nat]
  BY <1>1 DEF TypeInv, TypeOK
<1> QED
  BY <1>2, <1>3 DEF Commit, TypeInv, TypeOK

\* The batch is done with, stored or not.
LEMMA DiscardTypes ==
  ASSUME TypeInv, NEW r \in Requests, DiscardBatch(r)
  PROVE  /\ batch' \in [Requests -> Seq(Keys)]
         /\ known' \in [Requests -> Seq(BOOLEAN)]
         /\ \A q \in Requests : Len(known'[q]) <= Len(batch'[q])
  BY DEF DiscardBatch, TypeInv, TypeOK

LEMMA StoreTypes ==
  ASSUME TypeInv, NEW r \in Requests,
         LookupFails(r) \/ StoreCommits(r) \/ StoreUnreported(r) \/ StoreFails(r)
  PROVE  TypeInv'
<1>1. DiscardBatch(r) /\ NextModule(r) /\ mod[r] \in ModuleIndex
  BY DEF LookupFails, StoreCommits, StoreUnreported, StoreFails, LookedUp, TypeInv,
     AtModule, InFlight
<1>2. errors' \in [Requests -> SUBSET Errors]
  <2>1. CASE Fail(r, "storage")
    BY <2>1, FailTypes DEF TypeInv, TypeOK, Errors
  <2>2. CASE errors' = errors
    BY <2>2 DEF TypeInv, TypeOK
  <2> QED
    BY <2>1, <2>2 DEF LookupFails, RecordLookupError, StoreCommits, StoreUnreported,
       StoreFails
<1>3. session' \in [Requests -> Sessions]
  BY DEF LookupFails, StoreCommits, StoreUnreported, StoreFails, RollBack, TypeInv,
     TypeOK, Sessions
<1>4. reported' \in [Requests -> SUBSET Keys]
  <2>1. BatchKeys(r) \subseteq Keys
    BY DEF BatchKeys, TypeInv, TypeOK
  <2> QED
    BY <2>1 DEF LookupFails, StoreCommits, StoreUnreported, StoreFails, ReportNothing,
       TypeInv, TypeOK
<1>5. /\ findings' \in [TargetIds -> [Keys -> Nat]]
      /\ evidence' \in [TargetIds -> [Keys -> Nat]]
      /\ targets' = targets
  <2>1. CASE Commit(r)
    BY <2>1, CommitTypes
  <2>2. CASE UNCHANGED db
    BY <2>2 DEF db, TypeInv, TypeOK
  <2> QED
    BY <2>1, <2>2 DEF LookupFails, StoreCommits, StoreUnreported, StoreFails
<1>6. UNCHANGED <<limiter, tid, started, returned, restarts>>
  BY DEF LookupFails, StoreCommits, StoreUnreported, StoreFails
<1> QED
  BY <1>1, <1>2, <1>3, <1>4, <1>5, <1>6, NextModuleTypes, DiscardTypes
  DEF TypeInv, TypeOK, AtModule, limiter, LimiterTypeOK

\* Time and the process.
LEMMA ProcessTypes ==
  ASSUME TypeInv, Tick \/ Restart
  PROVE  TypeInv'
<1>1. CASE Tick
  BY <1>1 DEF Tick, db, run, store, outcome, TypeInv, TypeOK, AtModule, InFlight,
     LimiterTypeOK
<1>2. CASE Restart
  BY <1>2, PipelineAssumption
  DEF Restart, NothingSeen, db, run, store, outcome, TypeInv, TypeOK, AtModule,
      InFlight, LimiterTypeOK, PCs, Ended
<1> QED
  BY <1>1, <1>2

\* Every reachable state is well typed, and the module index of a request in
\* flight is one of the registry's.
LEMMA TypeStep ==
  ASSUME TypeInv, [Next]_vars
  PROVE  TypeInv'
<1>1. ASSUME NEW r \in Requests, RequestStep(r) PROVE TypeInv'
  BY <1>1, TargetTypes, LoopTypes, ModuleTypes, StoreTypes DEF RequestStep
<1>2. CASE UNCHANGED vars
  BY <1>2 DEF vars, limiter, db, run, store, outcome, TypeInv, TypeOK, AtModule,
     InFlight, LimiterTypeOK
<1> QED
  BY <1>1, <1>2, ProcessTypes DEF Next

LEMMA TypeInvariance == Spec => []TypeInv
<1>1. TypeInv /\ [Next]_vars => TypeInv'
  BY TypeStep
<1> QED
  BY InitTypeInv, <1>1, PTL DEF Spec

THEOREM TypeCorrect == Spec => []TypeOK
<1>1. TypeInv => TypeOK
  BY DEF TypeInv
<1> QED
  BY <1>1, TypeInvariance, PTL

-----------------------------------------------------------------------------
(* Single flight                                                           *)

\* No step but StartModule puts a request in flight or touches the limiter.
LEMMA OtherSteps ==
  ASSUME TypeInv, NEW r \in Requests, RequestStep(r), ~StartModule(r)
  PROVE  /\ UNCHANGED <<now, last_seen, started>>
         /\ \A q \in Requests : InFlight(q)' => InFlight(q) /\ mod'[q] = mod[q]
         /\ \A q \in Requests : q # r =>
              /\ pc'[q] = pc[q] /\ mod'[q] = mod[q] /\ tid'[q] = tid[q]
              /\ batch'[q] = batch[q] /\ known'[q] = known[q]
<1> USE DEF TypeInv, TypeOK, InFlight, limiter, run, store, Ended
<1>1. CASE FindTarget(r) \/ CreateTarget(r) \/ MissTarget(r) \/ TargetFails(r)
  BY <1>1 DEF FindTarget, CreateTarget, MissTarget, TargetFails, WorkOn
<1>2. CASE RateLimited(r) \/ ModuleRaises(r) \/ Respond(r)
  BY <1>2 DEF RateLimited, ModuleRaises, Respond, NextModule
<1>3. ASSUME NEW b \in MayReturn(r), ModuleReturns(r, b)
      PROVE  /\ UNCHANGED <<now, last_seen, started>>
             /\ \A q \in Requests : InFlight(q)' => InFlight(q) /\ mod'[q] = mod[q]
             /\ \A q \in Requests : q # r =>
                  /\ pc'[q] = pc[q] /\ mod'[q] = mod[q] /\ tid'[q] = tid[q]
                  /\ batch'[q] = batch[q] /\ known'[q] = known[q]
  BY <1>3 DEF ModuleReturns, NextModule
<1>4. CASE Lookup(r)
  BY <1>4 DEF Lookup
<1>5. CASE LookupFails(r) \/ StoreCommits(r) \/ StoreUnreported(r) \/ StoreFails(r)
  BY <1>5 DEF LookupFails, StoreCommits, StoreUnreported, StoreFails, NextModule,
     DiscardBatch
<1> QED
  BY <1>1, <1>2, <1>3, <1>4, <1>5 DEF RequestStep

\* check_and_record refuses a module that is in flight: its start is less than an
\* interval ago.
LEMMA StartsAlone ==
  ASSUME TypeInv, FlightInv, MaxRun < MinInterval,
         NEW r \in Requests, StartModule(r), NEW q \in Requests, InFlight(q)
  PROVE  Module(q) # Module(r) /\ q # r
<1>1. /\ Module(q) \in DOMAIN last_seen /\ last_seen[Module(q)] = started[q]
      /\ now <= started[q] + MaxRun
  BY DEF FlightInv
<1>2. Module(r) \in DOMAIN last_seen => now - last_seen[Module(r)] >= MinInterval
  BY DEF StartModule, Allowed
<1>3. now \in Nat /\ started[q] \in Nat /\ MaxRun \in Nat /\ MinInterval \in Nat
  BY PipelineAssumption, MinIntervalAssumption DEF TypeInv, TypeOK, LimiterTypeOK
<1>4. Module(q) # Module(r)
  BY <1>1, <1>2, <1>3
<1> QED
  BY <1>4

LEMMA FlightStep ==
  ASSUME TypeInv, FlightInv, Exclusive, MaxRun < MinInterval, [Next]_vars
  PROVE  FlightInv' /\ Exclusive'
<1>1. ASSUME NEW r \in Requests, StartModule(r) PROVE FlightInv' /\ Exclusive'
  <2>1. \A q \in Requests : InFlight(q) => Module(q) # Module(r) /\ q # r
    BY <1>1, StartsAlone
  <2>2. /\ mod' = mod /\ now' = now
        /\ DOMAIN last_seen' = DOMAIN last_seen \cup {Module(r)}
        /\ last_seen'[Module(r)] = now
        /\ \A m \in DOMAIN last_seen : m # Module(r) => last_seen'[m] = last_seen[m]
    BY <1>1 DEF StartModule, Record
  <2>3. \A q \in Requests : q # r =>
          (InFlight(q)' <=> InFlight(q)) /\ started'[q] = started[q]
    BY <1>1 DEF StartModule, InFlight, TypeInv, TypeOK
  <2>4. InFlight(r)' => started'[r] = now
    BY <1>1 DEF StartModule, InFlight, TypeInv, TypeOK
  <2>5. now <= now + MaxRun
    BY PipelineAssumption DEF TypeInv, TypeOK, LimiterTypeOK
  <2>6. FlightInv'
    BY <2>1, <2>2, <2>3, <2>4, <2>5 DEF FlightInv, Module
  <2>7. Exclusive'
    BY <2>1, <2>2, <2>3 DEF Exclusive, Module
  <2> QED
    BY <2>6, <2>7
<1>2. ASSUME NEW r \in Requests, RequestStep(r), ~StartModule(r)
      PROVE  FlightInv' /\ Exclusive'
  <2>1. /\ UNCHANGED <<now, last_seen, started>>
        /\ \A q \in Requests : InFlight(q)' => InFlight(q) /\ mod'[q] = mod[q]
    BY <1>2, OtherSteps
  <2> QED
    BY <2>1 DEF FlightInv, Exclusive, Module
<1>3. CASE Tick
  <2>1. \A q \in Requests : (InFlight(q)' <=> InFlight(q))
    BY <1>3 DEF Tick, InFlight
  <2>2. /\ \A q \in Requests : InFlight(q) => now' <= started[q] + MaxRun
        /\ UNCHANGED <<mod, started, last_seen>>
    BY <1>3, PipelineAssumption DEF Tick, run, TypeInv, TypeOK, LimiterTypeOK
  <2> QED
    BY <2>1, <2>2 DEF FlightInv, Exclusive, Module
<1>4. CASE Restart
  <2>1. \A q \in Requests : ~InFlight(q)'
    BY <1>4 DEF Restart, InFlight, Ended
  <2> QED
    BY <2>1 DEF FlightInv, Exclusive
<1>5. CASE UNCHANGED vars
  BY <1>5 DEF vars, limiter, run, FlightInv, Exclusive, InFlight, Module
<1> QED
  BY <1>1, <1>2, <1>3, <1>4, <1>5 DEF Next

LEMMA FlightInvariance ==
  ASSUME MaxRun < MinInterval
  PROVE  Spec => [](TypeInv /\ FlightInv /\ Exclusive)
<1>1. Init => FlightInv /\ Exclusive
  BY DEF Init, FlightInv, Exclusive, InFlight
<1>2. TypeInv /\ FlightInv /\ Exclusive /\ [Next]_vars => FlightInv' /\ Exclusive'
  BY FlightStep
<1> QED
  BY <1>1, <1>2, TypeInvariance, PTL DEF Spec

\* A step of the pipeline is a step of the abstract specification, or none.
LEMMA FlightRefinement ==
  ASSUME TypeInv, FlightInv, MaxRun < MinInterval, [Next]_vars
  PROVE  [Flight!Next]_Holders
<1>1. ASSUME NEW r \in Requests, StartModule(r) PROVE [Flight!Next]_Holders
  <2>1. Module(r) \in Modules
    BY <1>1, RegistryEntries DEF StartModule, Module
  <2>2. \A q \in Requests : InFlight(q) => Module(q) # Module(r) /\ q # r
    BY <1>1, StartsAlone
  <2>3. /\ mod' = mod
        /\ \A q \in Requests : q # r => (InFlight(q)' <=> InFlight(q))
    BY <1>1 DEF StartModule, InFlight, TypeInv, TypeOK
  <2>4. ~InFlight(r)
    BY <2>2
  <2>5. CASE InFlight(r)'
    <3>1. Holders[Module(r)] = {}
      BY <2>1, <2>2 DEF Holders
    <3>2. Holders' = [Holders EXCEPT ![Module(r)] = {r}]
      BY <2>1, <2>2, <2>3, <2>5 DEF Holders, Module
    <3> QED
      BY <2>1, <3>1, <3>2 DEF Flight!Next, Flight!TakeOff
  <2>6. CASE ~InFlight(r)'
    <3>1. Holders' = Holders
      BY <2>3, <2>4, <2>6 DEF Holders, Module
    <3> QED
      BY <3>1
  <2> QED
    BY <2>5, <2>6
<1>2. ASSUME NEW r \in Requests, RequestStep(r), ~StartModule(r)
      PROVE  [Flight!Next]_Holders
  <2>1. /\ \A q \in Requests : InFlight(q)' => InFlight(q) /\ mod'[q] = mod[q]
        /\ \A q \in Requests : q # r => (InFlight(q)' <=> InFlight(q)) /\ mod'[q] = mod[q]
    BY <1>2, OtherSteps DEF InFlight
  <2>2. CASE InFlight(r) /\ ~InFlight(r)'
    <3>1. Module(r) \in Modules
      BY <2>2, RegistryEntries DEF TypeInv, AtModule, Module
    <3>2. r \in Holders[Module(r)]
      BY <2>2, <3>1 DEF Holders
    <3>3. Holders' = [Holders EXCEPT ![Module(r)] = Holders[Module(r)] \ {r}]
      BY <2>1, <2>2, <3>1 DEF Holders, Module
    <3> QED
      BY <3>1, <3>2, <3>3 DEF Flight!Next, Flight!Land
  <2>3. CASE InFlight(r)' <=> InFlight(r)
    <3>1. Holders' = Holders
      BY <2>1, <2>3 DEF Holders, Module
    <3> QED
      BY <3>1
  <2> QED
    BY <2>1, <2>2, <2>3
<1>3. CASE Tick \/ UNCHANGED vars
  <2>1. Holders' = Holders
    BY <1>3 DEF Tick, vars, run, Holders, InFlight, Module
  <2> QED
    BY <2>1
<1>4. CASE Restart
  <2>1. Holders' = [m \in Modules |-> {}]
    BY <1>4 DEF Restart, Holders, InFlight, Ended
  <2> QED
    BY <2>1 DEF Flight!Next, Flight!Crash
<1> QED
  BY <1>1, <1>2, <1>3, <1>4 DEF Next

\* The pipeline implements the single-flight specification: for any number of
\* requests, the rate limiter alone keeps two of them from running, or storing the
\* result of, the same module of a target at once, as long as that takes less than
\* the interval, and restarts do no harm.
THEOREM SingleFlightImplemented ==
  ASSUME MaxRun < MinInterval
  PROVE  Spec => SingleFlightSpec
<1>1. Init => Flight!Init
  BY DEF Init, Flight!Init, Holders, InFlight
<1>2. TypeInv /\ FlightInv /\ [Next]_vars => [Flight!Next]_Holders
  BY FlightRefinement
<1> QED
  BY <1>1, <1>2, FlightInvariance, PTL DEF Spec, SingleFlightSpec, Flight!Spec

-----------------------------------------------------------------------------
(* No finding is stored twice                                              *)

\* What has been looked up is part of the batch.
LEMMA LookupDomain ==
  ASSUME TypeInv, NEW r \in Requests
  PROVE  DOMAIN known[r] \subseteq DOMAIN batch[r]
<1>1. known[r] \in Seq(BOOLEAN) /\ batch[r] \in Seq(Keys) /\ Len(known[r]) <= Len(batch[r])
  BY DEF TypeInv, TypeOK
<1>2. /\ DOMAIN known[r] = 1..Len(known[r]) /\ Len(known[r]) \in Nat
      /\ DOMAIN batch[r] = 1..Len(batch[r]) /\ Len(batch[r]) \in Nat
  BY <1>1
<1> QED
  BY <1>1, <1>2

\* A commit adds a row only for a key that the batch names once and that had no
\* row when it was looked up; every other key keeps its rows.
LEMMA RowsAdded ==
  ASSUME TypeInv, DistinctKeys, NEW r \in Requests, LookedUp(r),
         batch[r] \in Batches[Module(r)], NEW k \in Keys
  PROVE  \/ Unseen(r, k) = 0
         \/ /\ Unseen(r, k) = 1
            /\ \E i \in DOMAIN known[r] : batch[r][i] = k /\ ~known[r][i]
<1> DEFINE S == {i \in DOMAIN batch[r] : batch[r][i] = k /\ ~known[r][i]}
<1>1. Unseen(r, k) = Cardinality(S)
  BY DEF Unseen
<1>2. CASE S = {}
  BY <1>1, <1>2, FS_EmptySet
<1>3. CASE S # {}
  <2>1. PICK i \in S : TRUE
    BY <1>3
  <2>2. Module(r) \in Modules
    BY RegistryEntries DEF LookedUp, TypeInv, AtModule, InFlight, Module
  <2>3. \A j \in S : j = i
    BY <2>1, <2>2 DEF DistinctKeys
  <2>4. S = {i}
    BY <2>1, <2>3
  <2>5. Unseen(r, k) = 1
    BY <1>1, <2>4, FS_Singleton
  <2>6. i \in DOMAIN known[r]
    BY <2>1 DEF LookedUp, TypeInv, TypeOK
  <2> QED
    BY <2>1, <2>5, <2>6
<1> QED
  BY <1>2, <1>3

\* The commit of one request leaves alone the keys another one has looked up:
\* they come from different modules.
LEMMA CommitKeepsUnique ==
  ASSUME TypeInv, Exclusive, DistinctKeys, LookupInv, UniqueFindings,
         NEW r \in Requests, LookedUp(r), Commit(r), ~InFlight(r)',
         \A q \in Requests : q # r =>
           /\ pc'[q] = pc[q] /\ mod'[q] = mod[q] /\ tid'[q] = tid[q]
           /\ batch'[q] = batch[q] /\ known'[q] = known[q]
  PROVE  LookupInv' /\ UniqueFindings'
<1>1. batch[r] \in Batches[Module(r)] /\ InFlight(r) /\ Module(r) \in Modules
  BY RegistryEntries DEF LookedUp, LookupInv, TypeInv, AtModule, InFlight, Module
<1>2. \A t \in TargetIds, k \in Keys :
        findings'[t][k] = IF t = tid[r] THEN findings[t][k] + Unseen(r, k)
                          ELSE findings[t][k]
  BY DEF Commit, TypeInv, TypeOK
<1>3. \A t \in TargetIds, k \in Keys : findings[t][k] \in Nat
  BY DEF TypeInv, TypeOK
<1>4. \A k \in Keys : \/ Unseen(r, k) = 0
                      \/ Unseen(r, k) = 1 /\ findings[tid[r]][k] = 0
  BY <1>1, RowsAdded DEF LookedUp, LookupInv
<1>5. UniqueFindings'
  BY <1>2, <1>3, <1>4 DEF UniqueFindings
<1>6. ASSUME NEW q \in Requests, pc'[q] = "lookup"
      PROVE  /\ batch'[q] \in Batches[Module(q)']
             /\ \A i \in DOMAIN known'[q] :
                  ~known'[q][i] => findings'[tid'[q]][batch'[q][i]] = 0
  <2>1. q # r /\ pc[q] = "lookup" /\ InFlight(q)
    BY <1>6 DEF InFlight
  <2>2. Module(q) # Module(r) /\ Module(q) \in Modules /\ Module(q)' = Module(q)
    BY <1>1, <2>1, RegistryEntries DEF Exclusive, TypeInv, AtModule, Module
  <2>3. batch[q] \in Batches[Module(q)] /\ batch'[q] \in Batches[Module(q)']
    BY <2>1, <2>2 DEF LookupInv
  <2>4. ASSUME NEW i \in DOMAIN known'[q], ~known'[q][i]
        PROVE  findings'[tid'[q]][batch'[q][i]] = 0
    <3> DEFINE k == batch[q][i]
    <3>1. i \in DOMAIN batch[q] /\ k \in Keys /\ tid[q] \in TargetIds
      <4>1. i \in DOMAIN batch[q]
        BY <2>1, <2>4, LookupDomain
      <4> QED
        BY <4>1 DEF TypeInv, TypeOK
    <3>2. findings[tid[q]][k] = 0
      BY <2>1, <2>4 DEF LookupInv
    <3>3. \A j \in DOMAIN batch[r] : batch[r][j] # k
      BY <1>1, <2>2, <2>3, <3>1 DEF DistinctKeys
    <3>4. DOMAIN known[r] \subseteq DOMAIN batch[r]
      BY LookupDomain
    <3>5. Unseen(r, k) = 0
      BY <1>1, <3>1, <3>3, <3>4, RowsAdded
    <3> QED
      BY <1>2, <2>1, <3>1, <3>2, <3>5
  <2> QED
    BY <2>3, <2>4
<1> QED
  BY <1>5, <1>6 DEF LookupInv

\* A step that commits nothing and looks nothing up.
LEMMA QuietKeepsUnique ==
  ASSUME LookupInv, UniqueFindings, UNCHANGED findings,
         \A q \in Requests : pc'[q] = "lookup" =>
           /\ pc[q] = "lookup" /\ mod'[q] = mod[q] /\ tid'[q] = tid[q]
           /\ batch'[q] = batch[q] /\ known'[q] = known[q]
  PROVE  LookupInv' /\ UniqueFindings'
<1>1. UniqueFindings'
  BY DEF UniqueFindings
<1>2. LookupInv'
  BY DEF LookupInv, Module
<1> QED
  BY <1>1, <1>2

\* A module returns its findings, or one of them is looked up.
LEMMA LookupKeepsUnique ==
  ASSUME TypeInv, LookupInv, UniqueFindings, NEW r \in Requests,
         Lookup(r) \/ \E b \in MayReturn(r) : ModuleReturns(r, b)
  PROVE  LookupInv' /\ UniqueFindings'
<1>1. UNCHANGED findings /\ UniqueFindings'
  BY DEF Lookup, ModuleReturns, db, UniqueFindings
<1>2. RequestStep(r) /\ ~StartModule(r)
  BY DEF RequestStep, Lookup, ModuleReturns, StartModule
<1>3. \A q \in Requests : q # r =>
        /\ pc'[q] = pc[q] /\ mod'[q] = mod[q] /\ tid'[q] = tid[q]
        /\ batch'[q] = batch[q] /\ known'[q] = known[q]
  BY <1>2, OtherSteps
<1>4. ASSUME pc'[r] = "lookup"
      PROVE  /\ batch'[r] \in Batches[Module(r)']
             /\ \A i \in DOMAIN known'[r] :
                  ~known'[r][i] => findings'[tid'[r]][batch'[r][i]] = 0
  <2>1. CASE Lookup(r)
    <3> DEFINE n == Len(known[r]) + 1
    <3>1. /\ known'[r] = Append(known[r], findings[tid[r]][batch[r][n]] > 0)
          /\ pc[r] = "lookup" /\ n <= Len(batch[r])
          /\ UNCHANGED <<mod, tid, batch>>
      BY <2>1 DEF Lookup, HasRow, run, TypeInv, TypeOK
    <3>2. /\ DOMAIN known'[r] = 1..n
          /\ known'[r][n] = (findings[tid[r]][batch[r][n]] > 0)
          /\ \A i \in DOMAIN known[r] : known'[r][i] = known[r][i]
          /\ \A i \in 1..n : i = n \/ i \in DOMAIN known[r]
      <4>1. known[r] \in Seq(BOOLEAN) /\ Len(known[r]) \in Nat
        BY DEF TypeInv, TypeOK
      <4>2. DOMAIN known[r] = 1..Len(known[r])
        BY <4>1
      <4>3. (findings[tid[r]][batch[r][n]] > 0) \in BOOLEAN
        OBVIOUS
      <4>4. /\ DOMAIN known'[r] = 1..n
            /\ known'[r][n] = (findings[tid[r]][batch[r][n]] > 0)
            /\ \A i \in 1..Len(known[r]) : known'[r][i] = known[r][i]
        BY <3>1, <4>1, <4>3
      <4> QED
        BY <4>1, <4>2, <4>4
    <3>3. findings[tid[r]][batch[r][n]] \in Nat
      <4>1. n \in DOMAIN batch[r]
        BY <3>1 DEF TypeInv, TypeOK
      <4> QED
        BY <4>1 DEF TypeInv, TypeOK
    <3>4. ~known'[r][n] => findings[tid[r]][batch[r][n]] = 0
      <4>1. ~(findings[tid[r]][batch[r][n]] > 0) => findings[tid[r]][batch[r][n]] = 0
        BY <3>3
      <4> QED
        BY <3>2, <4>1
    <3>5. batch'[r] \in Batches[Module(r)']
      BY <3>1 DEF LookupInv, Module
    <3> QED
      BY <1>1, <3>1, <3>2, <3>4, <3>5 DEF LookupInv
  <2>2. ASSUME NEW b \in MayReturn(r), ModuleReturns(r, b)
        PROVE  batch'[r] \in Batches[Module(r)'] /\ DOMAIN known'[r] = {}
    <3>1. mod'[r] = mod[r]
      BY <1>4, <2>2 DEF ModuleReturns, NextModule, TypeInv, TypeOK
    <3>2. mod[r] \in ModuleIndex /\ b \in Batches[Module(r)]
      BY <2>2 DEF MayReturn, ModuleReturns, TypeInv, AtModule, InFlight
    <3> QED
      BY <2>2, <3>1, <3>2 DEF ModuleReturns, Module, TypeInv, TypeOK
  <2> QED
    BY <2>1, <2>2
<1> QED
  BY <1>1, <1>3, <1>4 DEF LookupInv, Module

LEMMA UniqueStep ==
  ASSUME TypeInv, Exclusive, DistinctKeys, LookupInv, UniqueFindings, [Next]_vars
  PROVE  LookupInv' /\ UniqueFindings'
<1>1. ASSUME NEW r \in Requests, StartModule(r) PROVE LookupInv' /\ UniqueFindings'
  <2>1. \A q \in Requests : pc'[q] = "lookup" =>
          /\ pc[q] = "lookup" /\ mod'[q] = mod[q] /\ tid'[q] = tid[q]
          /\ batch'[q] = batch[q] /\ known'[q] = known[q]
    BY <1>1 DEF StartModule, store, TypeInv, TypeOK
  <2> QED
    BY <1>1, <2>1, QuietKeepsUnique DEF StartModule, db
<1>2. ASSUME NEW r \in Requests, RequestStep(r), ~StartModule(r)
      PROVE  LookupInv' /\ UniqueFindings'
  <2>1. \A q \in Requests : q # r =>
          /\ pc'[q] = pc[q] /\ mod'[q] = mod[q] /\ tid'[q] = tid[q]
          /\ batch'[q] = batch[q] /\ known'[q] = known[q]
    BY <1>2, OtherSteps
  <2>2. CASE StoreCommits(r) \/ StoreUnreported(r)
    <3>1. LookedUp(r) /\ Commit(r) /\ NextModule(r)
      BY <2>2 DEF StoreCommits, StoreUnreported
    <3>2. ~InFlight(r)'
      BY <3>1 DEF NextModule, InFlight, TypeInv, TypeOK
    <3> QED
      BY <2>1, <3>1, <3>2, CommitKeepsUnique
  <2>3. CASE Lookup(r) \/ \E b \in MayReturn(r) : ModuleReturns(r, b)
    BY <2>3, LookupKeepsUnique
  <2>4. CASE \/ FindTarget(r) \/ MissTarget(r) \/ CreateTarget(r) \/ TargetFails(r)
             \/ RateLimited(r) \/ ModuleRaises(r) \/ Respond(r)
             \/ LookupFails(r) \/ StoreFails(r)
    <3>1. pc'[r] # "lookup" /\ UNCHANGED findings
      BY <2>4 DEF FindTarget, MissTarget, CreateTarget, TargetFails, WorkOn, RateLimited,
         ModuleRaises, Respond, LookupFails, StoreFails, NextModule, db, TypeInv, TypeOK
    <3> QED
      BY <2>1, <3>1, QuietKeepsUnique
  <2> QED
    BY <1>2, <2>2, <2>3, <2>4 DEF RequestStep
<1>3. CASE Tick \/ UNCHANGED vars
  BY <1>3, QuietKeepsUnique DEF Tick, vars, db, run, store
<1>4. CASE Restart
  <2>1. \A q \in Requests : pc'[q] # "lookup"
    BY <1>4 DEF Restart, Ended
  <2> QED
    BY <1>4, <2>1, QuietKeepsUnique DEF Restart, db
<1> QED
  BY <1>1, <1>2, <1>3, <1>4 DEF Next

\* No finding has two rows, whatever the requests interleave and wherever they
\* fail: looking up before inserting is enough while the limiter keeps modules
\* single flight, no batch names a key twice and no two modules share a key.
THEOREM NoDuplicateFindings ==
  ASSUME MaxRun < MinInterval, DistinctKeys
  PROVE  Spec => []UniqueFindings
<1>1. Init => LookupInv /\ UniqueFindings
  BY DEF Init, LookupInv, UniqueFindings
<1>2. TypeInv /\ Exclusive /\ LookupInv /\ UniqueFindings /\ [Next]_vars
        => LookupInv' /\ UniqueFindings'
  BY UniqueStep
<1> QED
  BY <1>1, <1>2, FlightInvariance, PTL DEF Spec

-----------------------------------------------------------------------------
(* What is stored, reported and lost                                       *)

\* A reported key has a row; so has a key whose lookup found one; and what a module
\* returned to a request that is still alive is reported, or about to be stored, or
\* the errors name the failure.
RequestInv(r) ==
  /\ \A k \in reported[r] : findings[tid[r]][k] > 0
  /\ pc[r] = "lookup" => \A i \in DOMAIN known[r] :
       known[r][i] => findings[tid[r]][batch[r][i]] > 0
  /\ pc[r] \in {"start", "create"} => reported[r] = {}
  /\ pc[r] \notin {"aborted", "killed"} =>
       \/ returned[r] \subseteq reported[r] \cup (IF pc[r] = "lookup" THEN BatchKeys(r) ELSE {})
       \/ "storage" \in errors[r]

StoreInv == FindingsHaveEvidence /\ \A r \in Requests : RequestInv(r)

LEMMA StoreInit == Init => StoreInv
BY DEF Init, StoreInv, FindingsHaveEvidence, RequestInv

\* A commit brings evidence for each row it adds, and leaves a row for each key of the
\* batch: one that was found, or the one it inserts.
LEMMA CommitStores ==
  ASSUME TypeInv, NEW r \in Requests, LookedUp(r), RequestInv(r), Commit(r)
  PROVE  /\ \A t \in TargetIds, k \in Keys :
              /\ findings'[t][k] >= findings[t][k]
              /\ evidence[t][k] >= findings[t][k] => evidence'[t][k] >= findings'[t][k]
         /\ \A k \in BatchKeys(r) : findings'[tid[r]][k] > 0
<1> DEFINE All(k) == {i \in DOMAIN batch[r] : batch[r][i] = k}
           New(k) == {i \in DOMAIN batch[r] : batch[r][i] = k /\ ~known[r][i]}
<1>1. /\ \A t \in TargetIds, k \in Keys :
           /\ findings'[t][k] = IF t = tid[r] THEN findings[t][k] + Unseen(r, k)
                                ELSE findings[t][k]
           /\ evidence'[t][k] = IF t = tid[r] THEN evidence[t][k] + Seen(r, k)
                                ELSE evidence[t][k]
           /\ findings[t][k] \in Nat /\ evidence[t][k] \in Nat
      /\ tid[r] \in TargetIds
  BY DEF Commit, NewEvidence, TypeInv, TypeOK
<1>2. ASSUME NEW k \in Keys
      PROVE  /\ IsFiniteSet(All(k)) /\ IsFiniteSet(New(k))
             /\ Seen(r, k) = Cardinality(All(k)) /\ Unseen(r, k) = Cardinality(New(k))
             /\ Seen(r, k) \in Nat /\ Unseen(r, k) \in Nat /\ Unseen(r, k) <= Seen(r, k)
  <2>1. DOMAIN batch[r] = 1..Len(batch[r]) /\ Len(batch[r]) \in Nat
    BY DEF TypeInv, TypeOK
  <2>2. IsFiniteSet(DOMAIN batch[r])
    BY <2>1, FS_Interval
  <2>3. IsFiniteSet(All(k)) /\ IsFiniteSet(New(k))
    BY <2>2, FS_Subset
  <2>4. New(k) \subseteq All(k)
    OBVIOUS
  <2>5. Cardinality(New(k)) <= Cardinality(All(k))
    BY <2>3, <2>4, FS_Subset
  <2> QED  BY <2>3, <2>5, RowCounts DEF Seen, Unseen, TypeInv
<1>a. \A k \in Keys : Seen(r, k) \in Nat /\ Unseen(r, k) \in Nat /\ Unseen(r, k) <= Seen(r, k)
  BY <1>2
<1>3. ASSUME NEW k \in BatchKeys(r)
      PROVE  findings'[tid[r]][k] > 0
  <2>1. PICK i \in DOMAIN batch[r] : batch[r][i] = k
    BY DEF BatchKeys
  <2>2. k \in Keys /\ i \in DOMAIN known[r] /\ pc[r] = "lookup"
    BY <2>1 DEF LookedUp, TypeInv, TypeOK
  <2>3. CASE known[r][i]
    <3>1. findings[tid[r]][k] > 0
      BY <2>1, <2>2, <2>3 DEF RequestInv
    <3> QED  BY <1>1, <1>a, <2>2, <3>1
  <2>4. CASE ~known[r][i]
    <3>1. New(k) # {}
      BY <2>1, <2>4
    <3>2. Unseen(r, k) # 0
      BY <1>2, <2>2, <3>1, FS_EmptySet
    <3> QED  BY <1>1, <1>a, <2>2, <3>2
  <2> QED  BY <2>3, <2>4
<1>4. \A t \in TargetIds, k \in Keys :
        /\ findings'[t][k] >= findings[t][k]
        /\ evidence[t][k] >= findings[t][k] => evidence'[t][k] >= findings'[t][k]
  BY <1>1, <1>a
<1> QED  BY <1>3, <1>4

\* Rows are only ever added, each with its evidence.
LEMMA RowsGrow ==
  ASSUME TypeInv, StoreInv, [Next]_vars
  PROVE  /\ \A t \in TargetIds, k \in Keys : findings'[t][k] >= findings[t][k]
         /\ FindingsHaveEvidence'
<1>1. CASE UNCHANGED <<findings, evidence>>
  BY <1>1 DEF StoreInv, FindingsHaveEvidence, TypeInv, TypeOK
<1>2. ASSUME NEW r \in Requests, LookedUp(r), Commit(r)
      PROVE  /\ \A t \in TargetIds, k \in Keys : findings'[t][k] >= findings[t][k]
             /\ FindingsHaveEvidence'
  BY <1>2, CommitStores DEF StoreInv, FindingsHaveEvidence
<1>3. ASSUME NEW r \in Requests, RequestStep(r)
      PROVE  UNCHANGED <<findings, evidence>> \/ (LookedUp(r) /\ Commit(r))
  BY <1>3 DEF RequestStep, FindTarget, MissTarget, CreateTarget, TargetFails, RateLimited,
     StartModule, ModuleRaises, ModuleReturns, Lookup, LookupFails, StoreCommits,
     StoreUnreported, StoreFails, Respond, db
<1>4. Tick \/ Restart \/ UNCHANGED vars => UNCHANGED <<findings, evidence>>
  BY DEF Tick, Restart, vars, db
<1> QED  BY <1>1, <1>2, <1>3, <1>4 DEF Next

\* A request that does not move keeps what it has.
LEMMA OthersKeep ==
  ASSUME TypeInv, StoreInv, [Next]_vars, NEW q \in Requests,
         \/ pc'[q] = pc[q] /\ tid'[q] = tid[q] /\ batch'[q] = batch[q] /\ known'[q] = known[q]
         \/ pc'[q] \in {"aborted", "killed"} /\ tid'[q] = tid[q],
         reported'[q] = reported[q], returned'[q] = returned[q], errors'[q] = errors[q]
  PROVE  RequestInv(q)'
<1>1. \A t \in TargetIds, k \in Keys :
        findings'[t][k] >= findings[t][k] /\ findings[t][k] \in Nat /\ findings'[t][k] \in Nat
  <2>1. TypeInv'
    BY TypeStep
  <2> QED  BY <2>1, RowsGrow DEF TypeInv, TypeOK
<1>2. /\ tid[q] \in TargetIds /\ reported[q] \subseteq Keys
      /\ \A i \in DOMAIN known[q] : batch[q][i] \in Keys
  BY LookupDomain DEF TypeInv, TypeOK
<1>3. RequestInv(q)
  BY DEF StoreInv
<1>4. \A k \in reported'[q] : findings'[tid'[q]][k] > 0
  BY <1>1, <1>2, <1>3 DEF RequestInv
<1>5. pc'[q] = "lookup" => \A i \in DOMAIN known'[q] :
        known'[q][i] => findings'[tid'[q]][batch'[q][i]] > 0
  BY <1>1, <1>2, <1>3 DEF RequestInv
<1> QED  BY <1>3, <1>4, <1>5 DEF RequestInv, BatchKeys

\* The request that moves keeps its account.
LEMMA MoverKeeps ==
  ASSUME TypeInv, StoreInv, NEW r \in Requests, RequestStep(r)
  PROVE  RequestInv(r)'
<1> USE DEF TypeInv, TypeOK
<1>1. RequestInv(r)
  BY DEF StoreInv
<1>2. CASE FindTarget(r) \/ CreateTarget(r)
  BY <1>1, <1>2 DEF FindTarget, CreateTarget, WorkOn, RequestInv
<1>3. CASE MissTarget(r) \/ TargetFails(r) \/ RateLimited(r) \/ StartModule(r)
           \/ ModuleRaises(r) \/ Respond(r)
  <2>1. /\ UNCHANGED <<findings, tid, returned, reported>>
        /\ errors[r] \subseteq errors'[r]
        /\ pc'[r] # "lookup" /\ pc[r] # "lookup"
        /\ pc'[r] = "create" => pc[r] = "start"
        /\ pc'[r] # "start"
        /\ pc[r] \notin {"aborted", "killed"}
    BY <1>3 DEF MissTarget, TargetFails, RateLimited, StartModule, ModuleRaises, Respond,
       NextModule, Fail, db, run, outcome, store
  <2> QED  BY <1>1, <2>1 DEF RequestInv
<1>4. ASSUME NEW b \in MayReturn(r), ModuleReturns(r, b)
      PROVE  RequestInv(r)'
  <2>1. /\ UNCHANGED <<findings, tid, reported, errors>>
        /\ pc[r] = "executing" /\ pc'[r] \in {"module", "lookup"}
        /\ pc'[r] = "module" => b = <<>>
        /\ batch'[r] = b /\ known'[r] = <<>>
        /\ returned'[r] = returned[r] \cup {b[i] : i \in DOMAIN b}
    BY <1>4 DEF ModuleReturns, NextModule, db, run
  <2> QED  BY <1>1, <2>1 DEF RequestInv, BatchKeys
<1>5. CASE Lookup(r)
  <2> DEFINE n == Len(known[r]) + 1
             hit == findings[tid[r]][batch[r][n]] > 0
  <2>1. /\ UNCHANGED <<findings, tid, pc, batch, reported, returned, errors>>
        /\ pc[r] = "lookup"
        /\ known'[r] = Append(known[r], hit)
    BY <1>5 DEF Lookup, HasRow, db, run, outcome
  <2>2. /\ DOMAIN known'[r] = DOMAIN known[r] \cup {n}
        /\ known'[r][n] = hit
        /\ \A i \in DOMAIN known[r] : known'[r][i] = known[r][i]
    <3>1. known[r] \in Seq(BOOLEAN) /\ hit \in BOOLEAN
      OBVIOUS
    <3>2. DOMAIN known[r] = 1..Len(known[r]) /\ Len(known[r]) \in Nat
      BY <3>1
    <3>3. /\ DOMAIN known'[r] = 1..n
          /\ known'[r][n] = hit
          /\ \A i \in 1..Len(known[r]) : known'[r][i] = known[r][i]
      BY <2>1, <3>1, <3>2
    <3> QED  BY <3>2, <3>3
  <2>3. \A i \in DOMAIN known'[r] : known'[r][i] => findings[tid[r]][batch[r][i]] > 0
    BY <1>1, <2>1, <2>2 DEF RequestInv
  <2> QED  BY <1>1, <2>1, <2>3 DEF RequestInv, BatchKeys
<1>6. CASE LookupFails(r) \/ StoreFails(r)
  <2>1. /\ UNCHANGED <<findings, tid, returned, reported>>
        /\ "storage" \in errors'[r] /\ pc'[r] = "module"
    BY <1>6 DEF LookupFails, RecordLookupError, StoreFails, ReportNothing, NextModule, Fail,
       LookedUp, db
  <2> QED  BY <1>1, <2>1 DEF RequestInv
<1>7. CASE StoreCommits(r) \/ StoreUnreported(r)
  <2>1. /\ LookedUp(r) /\ Commit(r) /\ UNCHANGED <<tid, returned>>
        /\ pc[r] = "lookup" /\ pc'[r] = "module"
        /\ \/ reported'[r] = reported[r] \cup BatchKeys(r) /\ errors' = errors
           \/ reported'[r] = reported[r] /\ "storage" \in errors'[r]
    BY <1>7 DEF StoreCommits, StoreUnreported, LookedUp, NextModule, Fail
  <2>2. \A k \in Keys : findings[tid[r]][k] > 0 => findings'[tid[r]][k] > 0
    <3>1. /\ findings' \in [TargetIds -> [Keys -> Nat]]
          /\ \A k \in Keys : findings'[tid[r]][k] >= findings[tid[r]][k]
      BY <1>1, <2>1, CommitStores, CommitTypes
    <3> QED  BY <3>1
  <2>3. \A k \in BatchKeys(r) : findings'[tid[r]][k] > 0
    BY <1>1, <2>1, CommitStores
  <2>4. \A k \in reported'[r] : findings'[tid'[r]][k] > 0
    BY <1>1, <2>1, <2>2, <2>3 DEF RequestInv
  <2> QED  BY <1>1, <2>1, <2>4 DEF RequestInv
<1> QED  BY <1>2, <1>3, <1>4, <1>5, <1>6, <1>7 DEF RequestStep

LEMMA StoreStep ==
  ASSUME TypeInv, StoreInv, [Next]_vars
  PROVE  StoreInv'
<1>1. ASSUME NEW r \in Requests, RequestStep(r), NEW q \in Requests, q # r
      PROVE  RequestInv(q)'
  <2>1. pc'[q] = pc[q] /\ tid'[q] = tid[q] /\ batch'[q] = batch[q] /\ known'[q] = known[q]
    <3>1. CASE StartModule(r)
      BY <1>1, <3>1 DEF StartModule, store, TypeInv, TypeOK
    <3>2. CASE ~StartModule(r)
      BY <1>1, <3>2, OtherSteps
    <3> QED  BY <3>1, <3>2
  <2>2. reported'[q] = reported[q] /\ returned'[q] = returned[q] /\ errors'[q] = errors[q]
    BY <1>1 DEF RequestStep, FindTarget, MissTarget, CreateTarget, TargetFails, WorkOn,
       RateLimited, StartModule, ModuleRaises, ModuleReturns, Lookup, LookupFails,
       RecordLookupError, StoreCommits, StoreUnreported, StoreFails, ReportNothing, Respond,
       Fail, outcome, TypeInv, TypeOK
  <2> QED  BY <1>1, <2>1, <2>2, OthersKeep DEF Next
<1>2. ASSUME NEW q \in Requests, Tick \/ Restart \/ UNCHANGED vars
      PROVE  RequestInv(q)'
  <2>1. /\ UNCHANGED <<reported, returned, errors, tid, batch, known>>
        /\ pc'[q] = pc[q] \/ pc'[q] = "killed"
    BY <1>2 DEF Tick, Restart, vars, run, store, outcome, TypeInv, TypeOK
  <2> QED  BY <2>1, OthersKeep
<1> QED  BY <1>1, <1>2, RowsGrow, MoverKeeps DEF Next, StoreInv

LEMMA StoreInvariance == Spec => []StoreInv
<1>1. TypeInv /\ StoreInv /\ [Next]_vars => StoreInv'
  BY StoreStep
<1> QED  BY <1>1, StoreInit, TypeInvariance, PTL DEF Spec

\* Every Finding row has an Evidence row at least, whichever requests added them
\* (FindingsHaveEvidence).
THEOREM EveryFindingHasEvidence == Spec => []FindingsHaveEvidence
<1>1. StoreInv => FindingsHaveEvidence
  BY DEF StoreInv
<1> QED  BY <1>1, StoreInvariance, PTL

\* What a request reports has a row, whatever failed later (ReportedArePersisted).
THEOREM ReportsArePersisted == Spec => []ReportedArePersisted
<1>1. StoreInv => ReportedArePersisted
  BY DEF StoreInv, RequestInv, ReportedArePersisted
<1> QED  BY <1>1, StoreInvariance, PTL

\* A response that drops a finding says that storing failed (NoSilentLoss).
THEOREM LossIsReported == Spec => []NoSilentLoss
<1>1. StoreInv => NoSilentLoss
  BY DEF StoreInv, RequestInv, NoSilentLoss
<1> QED  BY <1>1, StoreInvariance, PTL

=============================================================================
