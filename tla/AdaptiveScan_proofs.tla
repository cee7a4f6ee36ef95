------------------------- MODULE AdaptiveScan_proofs -------------------------
(***************************************************************************)
(* Proofs about AdaptiveScan, for any set of targets, any lead lists and    *)
(* any depth limit.                                                         *)
(***************************************************************************)
EXTENDS AdaptiveScan, TLAPS

-----------------------------------------------------------------------------
(* Sequences                                                               *)

\* Append keeps the old entries in place and adds one at the end.
LEMMA AppendEntries ==
  ASSUME NEW S, NEW s \in Seq(S), NEW x \in S
  PROVE  /\ Append(s, x) \in Seq(S)
         /\ DOMAIN Append(s, x) = DOMAIN s \cup {Len(s) + 1}
         /\ Len(s) + 1 \notin DOMAIN s
         /\ \A i \in DOMAIN s : Append(s, x)[i] = s[i]
         /\ Append(s, x)[Len(s) + 1] = x
  OBVIOUS

\* Tail drops the head, and every other entry moves down by one.
LEMMA TailEntries ==
  ASSUME NEW S, NEW s \in Seq(S), s # <<>>
  PROVE  /\ Tail(s) \in Seq(S)
         /\ Head(s) \in S
         /\ 1 \in DOMAIN s /\ Head(s) = s[1]
         /\ \A i \in DOMAIN Tail(s) : i + 1 \in DOMAIN s /\ Tail(s)[i] = s[i + 1]
         /\ \A i \in DOMAIN s : i = 1 \/ i - 1 \in DOMAIN Tail(s)
         /\ \A i \in DOMAIN s : i = 1 \/ Tail(s)[i - 1] = s[i]
  OBVIOUS

-----------------------------------------------------------------------------
(* Type correctness                                                        *)

\* Every reachable state is well typed.
THEOREM TypeCorrect == Spec => []TypeOK
<1>1. Init => TypeOK
  BY TargetsAssumption, LeadsAssumption DEF Init, TypeOK, Phases, Item, Hop, Skip
<1>2. TypeOK /\ [Next]_vars => TypeOK'
  <2> SUFFICES ASSUME TypeOK, [Next]_vars PROVE TypeOK'
    OBVIOUS
  <2> USE DEF TypeOK
  <2>1. CASE Start
    BY <2>1 DEF Start, Phases
  <2>2. CASE Reject
    BY <2>2 DEF Reject, Phases
  <2>3. CASE SkipNext
    <3>1. Head(queue) \in Item /\ Tail(queue) \in Seq(Item)
      BY <2>3, TailEntries DEF SkipNext
    <3>2. Refusal(Head(queue)) \in SkipReasons
      BY <2>3 DEF SkipNext, Refusal, SkipReasons
    <3>3. leads_skipped' \in Seq(Skip)
      BY <2>3, <3>1, <3>2, AppendEntries DEF SkipNext, RecordSkip, Item, Skip
    <3>4. session_seen' \subseteq Targets
      BY <2>3, <3>1 DEF SkipNext, Item
    <3> QED
      BY <2>3, <3>1, <3>3, <3>4 DEF SkipNext
  <2>4. CASE ScanNext
    <3>1. Head(queue) \in Item /\ Tail(queue) \in Seq(Item)
      BY <2>4, TailEntries DEF ScanNext
    <3> QED
      BY <2>4, <3>1 DEF ScanNext, Phases, Item
  <2>5. ASSUME NEW leads \in LeadsAt(current.depth), ScanReturns(leads)
        PROVE  TypeOK'
    <3>1. leads \in LeadLists /\ leads \in Seq(Targets)
      BY LeadsAssumption DEF LeadsAt
    <3>2. linked' \subseteq Targets
      BY <2>5 DEF ScanReturns, LinkCurrent, Item
    <3> QED
      BY <2>5, <3>1, <3>2 DEF ScanReturns, Phases
  <2>6. CASE ScanRaises
    BY <2>6 DEF ScanRaises, Phases
  <2>7. CASE FileLead
    <3> DEFINE item == [depth |-> current.depth + 1, target |-> Head(unfiled)]
    <3>1. Head(unfiled) \in Targets /\ Tail(unfiled) \in Seq(Targets)
      BY <2>7, TailEntries DEF FileLead
    <3>2. item \in Item
      BY <3>1 DEF Item
    <3>3. CASE item.target \in session_seen
      <4>1. leads_skipped' = Append(leads_skipped,
              [depth |-> item.depth, target |-> item.target, reason |-> "seen"])
        BY <2>7, <3>3 DEF FileLead, RecordSkip
      <4>2. leads_skipped' \in Seq(Skip)
        BY <4>1, <3>2, AppendEntries DEF Item, Skip, SkipReasons
      <4> QED
        BY <2>7, <3>1, <3>3, <4>2 DEF FileLead
    <3>4. CASE item.target \notin session_seen
      <4>1. queue' = Append(queue, item)
        BY <2>7, <3>4 DEF FileLead, Enqueue
      <4>2. queue' \in Seq(Item)
        BY <4>1, <3>2, AppendEntries
      <4> QED
        BY <2>7, <3>1, <3>4, <4>2 DEF FileLead, Enqueue
    <3> QED
      BY <3>3, <3>4
  <2>8. CASE AppendHop
    <3>1. [depth |-> current.depth, target |-> current.target,
           leads |-> leads_here] \in Hop
      BY DEF Item, Hop
    <3> QED
      BY <2>8, <3>1, AppendEntries DEF AppendHop, Phases
  <2>9. CASE ReturnResult
    BY <2>9 DEF ReturnResult, Phases
  <2>10. CASE CloseInvestigation
    BY <2>10 DEF CloseInvestigation, requestVars
  <2>11. CASE UNCHANGED vars
    BY <2>11 DEF vars, requestVars
  <2> QED
    BY <2>1, <2>2, <2>3, <2>4, <2>5, <2>6, <2>7, <2>8, <2>9, <2>10, <2>11
    DEF Next, RequestStep
<1> QED
  BY <1>1, <1>2, PTL DEF Spec

-----------------------------------------------------------------------------
(* The inductive invariant                                                 *)

LEMMA InitIInv == Init => IInv
  BY DEF Init, IInv, SeenInv, DepthInv, LinkInv, ScannedOnce, ScansAllowed,
         HopsLinked, CoverInv, InProgress

\* A refused item leaves the queue: if it may be scanned at all, it was seen
\* before.
LEMMA SkipNextIInv ==
  ASSUME TypeOK, IInv, SkipNext
  PROVE  IInv'
<1> USE DEF TypeOK, IInv, SkipNext
<1> DEFINE head == Head(queue)
<1>1. /\ head \in Item /\ head = queue[1] /\ 1 \in DOMAIN queue
      /\ \A i \in DOMAIN queue' : i + 1 \in DOMAIN queue /\ queue'[i] = queue[i + 1]
      /\ \A i \in DOMAIN queue : i = 1 \/ i - 1 \in DOMAIN queue'
      /\ \A i \in DOMAIN queue : i = 1 \/ queue'[i - 1] = queue[i]
  BY TailEntries
<1>2. head.depth <= max_depth
  BY <1>1 DEF ScansAllowed
<1>3. /\ Refusal(head) \in {"seen", "unsupported"}
      /\ Eligible(head.target) => head.target \in session_seen
  BY <1>1, <1>2 DEF Refusal, Eligible, InScope, Item
<1>4. SeenInv' /\ DepthInv' /\ LinkInv' /\ ScannedOnce' /\ HopsLinked'
  BY DEF SeenInv, DepthInv, LinkInv, ScannedOnce, HopsLinked, InProgress
<1>5. ScansAllowed'
  <2> DEFINE entry == [depth |-> head.depth, target |-> head.target,
                       reason |-> Refusal(head)]
  <2>1. entry \in Skip
    BY <1>1 DEF Refusal, SkipReasons, Item, Skip
  <2>2. leads_skipped' = Append(leads_skipped, entry)
    BY DEF RecordSkip
  <2>3. \A i \in DOMAIN leads_skipped' : leads_skipped'[i].reason \in {"seen", "unsupported"}
    BY <2>1, <2>2, <1>3, AppendEntries DEF ScansAllowed
  <2>4. \A i \in DOMAIN queue' : queue'[i].depth <= max_depth
    BY <1>1 DEF ScansAllowed
  <2> QED
    BY <2>3, <2>4 DEF ScansAllowed, InProgress, Eligible
<1>6. KnownTargets \subseteq KnownTargets'
  <2>1. ASSUME NEW i \in DOMAIN queue PROVE queue[i].target \in KnownTargets'
    <3>1. CASE i = 1
      BY <1>1, <3>1 DEF KnownTargets
    <3>2. CASE i # 1
      <4>1. i - 1 \in DOMAIN queue' /\ queue'[i - 1] = queue[i]
        BY <1>1, <3>2
      <4> QED
        BY <4>1 DEF KnownTargets
    <3> QED
      BY <3>1, <3>2
  <2> QED
    BY <2>1 DEF KnownTargets
<1>7. CoverInv'
  <2>1. \A i \in DOMAIN hops' : \A k \in DOMAIN hops'[i].leads :
          hops'[i].leads[k] \in KnownTargets'
    BY <1>6 DEF CoverInv
  <2>2. phase' # "filing"
    OBVIOUS
  <2>3. \A t \in session_seen' : Eligible(t) => \E i \in DOMAIN hops' : hops'[i].target = t
    BY <1>3 DEF CoverInv
  <2> QED
    BY <2>1, <2>2, <2>3 DEF CoverInv, Eligible
<1> QED
  BY <1>4, <1>5, <1>7

\* The item whose scan begins is new, within the limits, and seen from now on.
LEMMA ScanNextIInv ==
  ASSUME TypeOK, IInv, ScanNext
  PROVE  IInv'
<1> USE DEF TypeOK, IInv, ScanNext
<1> DEFINE head == Head(queue)
<1>1. /\ head \in Item /\ head = queue[1] /\ 1 \in DOMAIN queue
      /\ \A i \in DOMAIN queue' : i + 1 \in DOMAIN queue /\ queue'[i] = queue[i + 1]
      /\ \A i \in DOMAIN queue : i = 1 \/ i - 1 \in DOMAIN queue'
      /\ \A i \in DOMAIN queue : i = 1 \/ queue'[i - 1] = queue[i]
  BY TailEntries
<1>2. head.target \notin session_seen /\ head.depth <= max_depth /\ Eligible(head.target)
  BY <1>1 DEF Refusal, Eligible, InScope, Item
<1>3. SeenInv' /\ DepthInv' /\ LinkInv' /\ HopsLinked'
  BY DEF SeenInv, DepthInv, LinkInv, HopsLinked, InProgress
<1>4. ScannedOnce'
  BY <1>2 DEF ScannedOnce, SeenInv, InProgress
<1>5. ScansAllowed'
  BY <1>1, <1>2 DEF ScansAllowed, InProgress, Eligible
<1>6. KnownTargets \subseteq KnownTargets'
  <2>1. ASSUME NEW i \in DOMAIN queue PROVE queue[i].target \in KnownTargets'
    <3>1. CASE i = 1
      BY <1>1, <3>1 DEF KnownTargets
    <3>2. CASE i # 1
      <4>1. i - 1 \in DOMAIN queue' /\ queue'[i - 1] = queue[i]
        BY <1>1, <3>2
      <4> QED
        BY <4>1 DEF KnownTargets
    <3> QED
      BY <3>1, <3>2
  <2> QED
    BY <2>1 DEF KnownTargets
<1>7. CoverInv'
  <2>1. \A i \in DOMAIN hops' : \A k \in DOMAIN hops'[i].leads :
          hops'[i].leads[k] \in KnownTargets'
    BY <1>6 DEF CoverInv
  <2>2. \A t \in session_seen' : Eligible(t) =>
          (\E i \in DOMAIN hops' : hops'[i].target = t) \/ current'.target = t
    BY DEF CoverInv
  <2> QED
    BY <2>1, <2>2 DEF CoverInv, Eligible
<1> QED
  BY <1>3, <1>4, <1>5, <1>7

\* The scan ends: all its leads are still to be filed, and there is none at the
\* last depth.
LEMMA ScanReturnsIInv ==
  ASSUME TypeOK, IInv, NEW leads \in LeadsAt(current.depth), ScanReturns(leads)
  PROVE  IInv'
<1> USE DEF TypeOK, IInv, ScanReturns
<1>1. leads \in Seq(Targets) /\ (leads # <<>> => current.depth < max_depth)
  BY LeadsAssumption DEF LeadsAt
<1>2. SeenInv' /\ DepthInv' /\ ScannedOnce' /\ ScansAllowed'
  BY <1>1 DEF SeenInv, DepthInv, ScannedOnce, ScansAllowed, InProgress, Eligible
<1>3. LinkInv' /\ HopsLinked'
  BY DEF LinkInv, HopsLinked, LinkCurrent
<1>4. CoverInv'
  BY DEF CoverInv, KnownTargets, Eligible
<1> QED
  BY <1>2, <1>3, <1>4

\* A lead leaves the unfiled ones for the queue, unless it was seen.
LEMMA FileLeadIInv ==
  ASSUME TypeOK, IInv, FileLead
  PROVE  IInv'
<1> USE DEF TypeOK, IInv
<1> DEFINE head == Head(unfiled)
           item == [depth |-> current.depth + 1, target |-> head]
<1>1. /\ head \in Targets /\ head = unfiled[1] /\ 1 \in DOMAIN unfiled
      /\ \A i \in DOMAIN unfiled : i = 1 \/ i - 1 \in DOMAIN unfiled'
      /\ \A i \in DOMAIN unfiled : i = 1 \/ unfiled'[i - 1] = unfiled[i]
  BY TailEntries DEF FileLead
<1>2. item \in Item /\ item.depth <= max_depth
  BY <1>1 DEF FileLead, DepthInv, Item
<1>3. /\ phase = "filing" /\ unfiled # <<>> /\ phase' = phase /\ hops' = hops
      /\ session_seen' = session_seen /\ current' = current /\ linked' = linked
      /\ leads_here' = leads_here /\ max_depth' = max_depth
  BY DEF FileLead, Enqueue
<1>4. \/ /\ head \in session_seen
         /\ queue' = queue
         /\ leads_skipped' = Append(leads_skipped,
              [depth |-> current.depth + 1, target |-> head, reason |-> "seen"])
      \/ /\ queue' = Append(queue, item)
         /\ leads_skipped' = leads_skipped
  BY DEF FileLead, Enqueue, RecordSkip
<1>5. /\ \A i \in DOMAIN queue : i \in DOMAIN queue' /\ queue'[i] = queue[i]
      /\ \A i \in DOMAIN queue' : i \in DOMAIN queue \/ queue'[i] = item
      /\ head \in session_seen \/ \E i \in DOMAIN queue' : queue'[i] = item
  <2>1. CASE queue' = queue /\ head \in session_seen
    BY <2>1
  <2>2. CASE queue' = Append(queue, item)
    BY <1>2, <2>2, AppendEntries
  <2> QED
    BY <1>4, <2>1, <2>2
<1>6. \A i \in DOMAIN leads_skipped' : leads_skipped'[i].reason \in {"seen", "unsupported"}
  <2>1. CASE leads_skipped' = leads_skipped
    BY <2>1 DEF ScansAllowed
  <2>2. CASE leads_skipped' = Append(leads_skipped,
               [depth |-> current.depth + 1, target |-> head, reason |-> "seen"])
    <3>1. [depth |-> current.depth + 1, target |-> head, reason |-> "seen"] \in Skip
      BY <1>1 DEF Skip, SkipReasons, Item
    <3> QED
      BY <2>2, <3>1, AppendEntries DEF ScansAllowed
  <2> QED
    BY <1>4, <2>1, <2>2
<1>7. SeenInv' /\ LinkInv' /\ ScannedOnce' /\ HopsLinked'
  BY <1>3 DEF SeenInv, LinkInv, ScannedOnce, HopsLinked, InProgress
<1>8. DepthInv'
  BY <1>3 DEF DepthInv
<1>9. ScansAllowed'
  BY <1>2, <1>3, <1>5, <1>6 DEF ScansAllowed, InProgress, Eligible
<1>10. head \in KnownTargets' /\ KnownTargets \subseteq KnownTargets'
  BY <1>3, <1>5 DEF KnownTargets
<1>11. CoverInv'
  <2>1. \A i \in DOMAIN hops' : \A k \in DOMAIN hops'[i].leads :
          hops'[i].leads[k] \in KnownTargets'
    BY <1>3, <1>10 DEF CoverInv
  <2>2. ASSUME NEW k \in DOMAIN leads_here'
        PROVE  \/ leads_here'[k] \in KnownTargets'
               \/ \E j \in DOMAIN unfiled' : unfiled'[j] = leads_here'[k]
    <3>1. CASE leads_here[k] \in KnownTargets
      BY <1>3, <1>10, <3>1
    <3>2. ASSUME NEW j \in DOMAIN unfiled, unfiled[j] = leads_here[k]
          PROVE  \/ leads_here'[k] \in KnownTargets'
                 \/ \E i \in DOMAIN unfiled' : unfiled'[i] = leads_here'[k]
      <4>1. CASE j = 1
        BY <1>1, <1>3, <1>10, <3>2, <4>1
      <4>2. CASE j # 1
        BY <1>1, <1>3, <3>2, <4>2
      <4> QED
        BY <4>1, <4>2
    <3> QED
      BY <1>3, <3>1, <3>2 DEF CoverInv
  <2>3. \A t \in session_seen' : Eligible(t) =>
          \/ \E i \in DOMAIN hops' : hops'[i].target = t
          \/ phase' = "filing" /\ current'.target = t
    BY <1>3 DEF CoverInv
  <2> QED
    BY <2>1, <2>2, <2>3 DEF CoverInv, Eligible
<1> QED
  BY <1>7, <1>8, <1>9, <1>11

\* The scan in progress becomes the last hop.
LEMMA AppendHopIInv ==
  ASSUME TypeOK, IInv, AppendHop
  PROVE  IInv'
<1> USE DEF TypeOK, IInv
<1> DEFINE hop == [depth |-> current.depth, target |-> current.target,
                   leads |-> leads_here]
<1>1. hop \in Hop
  BY DEF Item, Hop
<1>2. /\ phase = "filing" /\ unfiled = <<>> /\ phase' = "loop"
      /\ hops' = Append(hops, hop) /\ session_seen' = session_seen
      /\ queue' = queue /\ linked' = linked /\ max_depth' = max_depth
      /\ leads_skipped' = leads_skipped
  BY DEF AppendHop
<1>3. /\ DOMAIN hops' = DOMAIN hops \cup {Len(hops) + 1}
      /\ Len(hops) + 1 \notin DOMAIN hops
      /\ \A i \in DOMAIN hops : hops'[i] = hops[i]
      /\ hops'[Len(hops) + 1] = hop
  BY <1>1, <1>2, AppendEntries
<1>4. SeenInv' /\ DepthInv' /\ LinkInv' /\ HopsLinked'
  BY <1>2, <1>3 DEF SeenInv, DepthInv, LinkInv, HopsLinked, InProgress
<1>5. ScannedOnce'
  BY <1>2, <1>3 DEF ScannedOnce, InProgress
<1>6. ScansAllowed'
  BY <1>2, <1>3 DEF ScansAllowed, InProgress, Eligible
<1>7. CoverInv'
  <2>1. KnownTargets' = KnownTargets
    BY <1>2 DEF KnownTargets
  <2>2. \A k \in DOMAIN leads_here : leads_here[k] \in KnownTargets
    BY <1>2 DEF CoverInv
  <2>3. \A i \in DOMAIN hops' : \A k \in DOMAIN hops'[i].leads :
          hops'[i].leads[k] \in KnownTargets'
    BY <1>3, <2>1, <2>2 DEF CoverInv
  <2>4. \A t \in session_seen' : Eligible(t) => \E i \in DOMAIN hops' : hops'[i].target = t
    BY <1>2, <1>3 DEF CoverInv
  <2> QED
    BY <1>2, <2>3, <2>4 DEF CoverInv, Eligible
<1> QED
  BY <1>4, <1>5, <1>6, <1>7

\* The invariant is inductive.
LEMMA NextIInv ==
  ASSUME TypeOK, IInv, [Next]_vars
  PROVE  IInv'
<1> DEFINE Parts == SeenInv' /\ DepthInv' /\ LinkInv' /\ ScannedOnce' /\ ScansAllowed'
                    /\ HopsLinked' /\ CoverInv'
<1>1. CASE Start
  <2>1. queue' \in Seq(Item) /\ \A i \in DOMAIN queue' : queue'[i] = current
    BY <1>1 DEF Start, TypeOK
  <2> QED
    BY <1>1, <2>1 DEF Start, TypeOK, IInv, SeenInv, DepthInv, LinkInv, ScannedOnce,
       ScansAllowed, HopsLinked, CoverInv, KnownTargets, InProgress, Eligible
<1>2. CASE Reject
  BY <1>2 DEF Reject, TypeOK, IInv, SeenInv, DepthInv, LinkInv, ScannedOnce,
     ScansAllowed, HopsLinked, CoverInv, KnownTargets, InProgress, Eligible
<1>3. CASE ScanRaises
  BY <1>3 DEF ScanRaises, TypeOK, IInv, SeenInv, DepthInv, LinkInv, ScannedOnce,
     ScansAllowed, HopsLinked, CoverInv, KnownTargets, InProgress, Eligible
<1>4. CASE ReturnResult
  BY <1>4 DEF ReturnResult, TypeOK, IInv, SeenInv, DepthInv, LinkInv, ScannedOnce,
     ScansAllowed, HopsLinked, CoverInv, KnownTargets, InProgress, Eligible
<1>5. CASE CloseInvestigation \/ UNCHANGED vars
  BY <1>5 DEF CloseInvestigation, vars, requestVars, IInv, SeenInv, DepthInv, LinkInv,
     ScannedOnce, ScansAllowed, HopsLinked, CoverInv, KnownTargets, InProgress, Eligible
<1> QED
  BY <1>1, <1>2, <1>3, <1>4, <1>5, SkipNextIInv, ScanNextIInv, ScanReturnsIInv,
     FileLeadIInv, AppendHopIInv
  DEF Next, RequestStep

LEMMA Invariance == Spec => []IInv
<1>1. TypeOK /\ IInv /\ [Next]_vars => IInv'
  BY NextIInv
<1> QED
  BY InitIInv, TypeCorrect, <1>1, PTL DEF Spec

-----------------------------------------------------------------------------
(* The theorems                                                            *)

\* Session dedup: no target is scanned twice in a run, whatever the leads.
THEOREM SessionDedup == Spec => []ScannedOnce
<1>1. IInv => ScannedOnce
  BY DEF IInv
<1> QED
  BY <1>1, Invariance, PTL

\* Depth limit and support hold of every scan, and neither the depth guard of the loop
\* nor the scope guard ever refuses an item: the request has no scope.
THEOREM DepthAndSupport == Spec => []ScansAllowed
<1>1. IInv => ScansAllowed
  BY DEF IInv
<1> QED
  BY <1>1, Invariance, PTL

\* Every target scanned in the run is linked to the investigation.
THEOREM ScannedAreLinked == Spec => []HopsLinked
<1>1. IInv => HopsLinked
  BY DEF IInv
<1> QED
  BY <1>1, Invariance, PTL

\* When the run is over, every lead that may be scanned has been.
THEOREM Completeness == Spec => []CompleteCoverage
<1>1. IInv /\ TypeOK /\ (phase = "done" => queue = <<>>) => CompleteCoverage
  BY DEF IInv, TypeOK, CoverInv, KnownTargets, CompleteCoverage
<1>2. Init => (phase = "done" => queue = <<>>)
  BY DEF Init
<1>3. (phase = "done" => queue = <<>>) /\ [Next]_vars => (phase = "done" => queue = <<>>)'
  BY DEF Next, RequestStep, Start, Reject, SkipNext, ScanNext, ScanReturns, ScanRaises,
     FileLead, AppendHop, ReturnResult, CloseInvestigation, vars, requestVars
<1> QED
  BY <1>1, <1>2, <1>3, Invariance, TypeCorrect, PTL DEF Spec

-----------------------------------------------------------------------------
(* No lead is lost                                                         *)

\* Every target taken from the queue is a hop, the scan in progress, or skipped for
\* another reason than that it was seen before; every lead of the scan in progress
\* is accounted for or still unfiled.
AccountInv ==
  /\ LeadsAccounted
  /\ phase = "filing" => \A k \in DOMAIN leads_here :
       \/ Accounted(leads_here[k], current.depth + 1)
       \/ \E j \in DOMAIN unfiled : unfiled[j] = leads_here[k]
  /\ \A t \in session_seen :
       \/ \E i \in DOMAIN hops : hops[i].target = t
       \/ \E i \in DOMAIN leads_skipped :
            leads_skipped[i].target = t /\ leads_skipped[i].reason # "seen"
       \/ phase \in {"scanning", "filing", "failed"} /\ current.target = t

-----------------------------------------------------------------------------
(* Breadth first                                                           *)

SourceOf(i, depth, t) ==
  hops[i].depth + 1 = depth /\ \E k \in DOMAIN hops[i].leads : hops[i].leads[k] = t

Queued(depth, t) == \E q \in DOMAIN queue : queue[q] = [depth |-> depth, target |-> t]

\* The queue is sorted, spans two depths at most, and starts where the hops end.
OrderInv ==
  /\ \A i, j \in DOMAIN hops : i < j => hops[i].depth <= hops[j].depth
  /\ \A i, j \in DOMAIN queue : i <= j =>
       queue[i].depth <= queue[j].depth /\ queue[j].depth <= queue[i].depth + 1
  /\ \A i \in DOMAIN hops : \A q \in DOMAIN queue : hops[i].depth <= queue[q].depth
  /\ InProgress =>
       /\ \A i \in DOMAIN hops : hops[i].depth <= current.depth
       /\ \A q \in DOMAIN queue : current.depth <= queue[q].depth
                                  /\ queue[q].depth <= current.depth + 1

\* A lead waits one hop deeper than its hop until it is seen, and is scanned no deeper.
NearInv ==
  /\ \A i \in DOMAIN hops : \A k \in DOMAIN hops[i].leads :
       hops[i].leads[k] \in session_seen \/ Queued(hops[i].depth + 1, hops[i].leads[k])
  /\ phase = "filing" => \A k \in DOMAIN leads_here :
       \/ leads_here[k] \in session_seen
       \/ Queued(current.depth + 1, leads_here[k])
       \/ \E j \in DOMAIN unfiled : unfiled[j] = leads_here[k]
  /\ InProgress => \A i \in DOMAIN hops : \A k \in DOMAIN hops[i].leads :
       hops[i].leads[k] = current.target => current.depth <= hops[i].depth + 1
  /\ \A i, j \in DOMAIN hops : \A k \in DOMAIN hops[i].leads :
       hops[j].target = hops[i].leads[k] => hops[j].depth <= hops[i].depth + 1

\* Whatever is deeper than the start was found by a hop one step before.
SourceInv ==
  /\ \A q \in DOMAIN queue : queue[q].depth > 0 =>
       \/ \E i \in DOMAIN hops : SourceOf(i, queue[q].depth, queue[q].target)
       \/ /\ phase = "filing" /\ current.depth + 1 = queue[q].depth
          /\ \E k \in DOMAIN leads_here : leads_here[k] = queue[q].target
  /\ InProgress /\ current.depth > 0 =>
       \E i \in DOMAIN hops : SourceOf(i, current.depth, current.target)
  /\ phase = "filing" => \A j \in DOMAIN unfiled :
       \E k \in DOMAIN leads_here : leads_here[k] = unfiled[j]
  /\ \A j \in DOMAIN hops : hops[j].depth > 0 =>
       \E i \in 1..(j - 1) : SourceOf(i, hops[j].depth, hops[j].target)

BreadthInv == OrderInv /\ NearInv /\ SourceInv

\* What the queue held before an item was taken from its front.
LEMMA Dequeued ==
  ASSUME TypeOK, queue # <<>>, queue' = Tail(queue)
  PROVE  /\ Head(queue) = queue[1] /\ 1 \in DOMAIN queue /\ queue[1] \in Item
         /\ \A q \in DOMAIN queue' : q + 1 \in DOMAIN queue /\ queue'[q] = queue[q + 1]
         /\ \A q \in DOMAIN queue : q = 1 \/ (q - 1 \in DOMAIN queue' /\ queue'[q - 1] = queue[q])
BY TailEntries DEF TypeOK

\* What filing a lead does, in terms of entries.
LEMMA Filed ==
  ASSUME TypeOK, FileLead
  PROVE  LET item == [depth |-> current.depth + 1, target |-> unfiled[1]] IN
         /\ item \in Item
         /\ 1 \in DOMAIN unfiled
         /\ \A j \in DOMAIN unfiled : j = 1 \/ (j - 1 \in DOMAIN unfiled' /\ unfiled'[j - 1] = unfiled[j])
         /\ \A j \in DOMAIN unfiled' : j + 1 \in DOMAIN unfiled /\ unfiled'[j] = unfiled[j + 1]
         /\ UNCHANGED <<phase, max_depth, current, leads_here, hops, session_seen>>
         /\ \/ /\ item.target \in session_seen
               /\ queue' = queue
               /\ DOMAIN leads_skipped' = DOMAIN leads_skipped \cup {Len(leads_skipped) + 1}
               /\ \A i \in DOMAIN leads_skipped : leads_skipped'[i] = leads_skipped[i]
               /\ leads_skipped'[Len(leads_skipped) + 1] =
                    [depth |-> item.depth, target |-> item.target, reason |-> "seen"]
            \/ /\ item.target \notin session_seen
               /\ leads_skipped' = leads_skipped
               /\ DOMAIN queue' = DOMAIN queue \cup {Len(queue) + 1}
               /\ \A q \in DOMAIN queue : queue'[q] = queue[q] /\ q < Len(queue) + 1
               /\ queue'[Len(queue) + 1] = item
<1> DEFINE item == [depth |-> current.depth + 1, target |-> unfiled[1]]
           entry == [depth |-> item.depth, target |-> item.target, reason |-> "seen"]
<1>1. /\ 1 \in DOMAIN unfiled /\ unfiled[1] = Head(unfiled) /\ unfiled[1] \in Targets
      /\ \A j \in DOMAIN unfiled : j = 1 \/ (j - 1 \in DOMAIN unfiled' /\ unfiled'[j - 1] = unfiled[j])
      /\ \A j \in DOMAIN unfiled' : j + 1 \in DOMAIN unfiled /\ unfiled'[j] = unfiled[j + 1]
  BY TailEntries DEF FileLead, TypeOK
<1>2. item \in Item /\ entry \in Skip
  BY <1>1 DEF TypeOK, Item, Skip, SkipReasons
<1>3. UNCHANGED <<phase, max_depth, current, leads_here, hops, session_seen>>
  BY DEF FileLead, Enqueue
<1>4. CASE item.target \in session_seen
  <2>1. queue' = queue /\ leads_skipped' = Append(leads_skipped, entry)
    BY <1>1, <1>4 DEF FileLead, RecordSkip
  <2> QED  BY <1>1, <1>2, <1>3, <1>4, <2>1, AppendEntries DEF TypeOK
<1>5. CASE item.target \notin session_seen
  <2>1. leads_skipped' = leads_skipped /\ queue' = Append(queue, item)
    BY <1>1, <1>5 DEF FileLead, Enqueue
  <2> QED  BY <1>1, <1>2, <1>3, <1>5, <2>1, AppendEntries DEF TypeOK
<1> QED  BY <1>4, <1>5

\* What appending the hop does, in terms of entries.
LEMMA Appended ==
  ASSUME TypeOK, AppendHop
  PROVE  /\ DOMAIN hops' = DOMAIN hops \cup {Len(hops) + 1} /\ Len(hops) \in Nat
         /\ \A i \in DOMAIN hops : hops'[i] = hops[i] /\ i < Len(hops) + 1 /\ i \in Nat
         /\ hops'[Len(hops) + 1] = [depth |-> current.depth, target |-> current.target,
                                    leads |-> leads_here]
         /\ 1 .. Len(hops) = DOMAIN hops
<1> DEFINE hop == [depth |-> current.depth, target |-> current.target, leads |-> leads_here]
<1>1. hop \in Hop
  BY DEF TypeOK, Item, Hop
<1>2. hops' = Append(hops, hop)
  BY DEF AppendHop
<1> QED  BY <1>1, <1>2, AppendEntries DEF TypeOK

\* What a skipped item leaves behind.
LEMMA Skipped ==
  ASSUME TypeOK, SkipNext
  PROVE  /\ UNCHANGED <<phase, max_depth, current, leads_here, unfiled, hops>> /\ phase = "loop"
         /\ queue # <<>> /\ queue' = Tail(queue)
         /\ session_seen' = session_seen \cup {queue[1].target}
         /\ DOMAIN leads_skipped' = DOMAIN leads_skipped \cup {Len(leads_skipped) + 1}
         /\ \A i \in DOMAIN leads_skipped : leads_skipped'[i] = leads_skipped[i]
         /\ leads_skipped'[Len(leads_skipped) + 1] =
              [depth |-> queue[1].depth, target |-> queue[1].target, reason |-> Refusal(queue[1])]
         /\ Refusal(queue[1]) = "seen" => queue[1].target \in session_seen
<1> DEFINE entry == [depth |-> queue[1].depth, target |-> queue[1].target,
                     reason |-> Refusal(queue[1])]
<1>1. queue # <<>> /\ queue' = Tail(queue)
  BY DEF SkipNext
<1>2. queue[1] = Head(queue) /\ queue[1] \in Item
  BY <1>1, Dequeued
<1>3. entry \in Skip
  BY <1>2 DEF SkipNext, Refusal, SkipReasons, Skip, Item
<1>4. leads_skipped' = Append(leads_skipped, entry)
  BY <1>2 DEF SkipNext, RecordSkip
<1>5. Refusal(queue[1]) = "seen" => queue[1].target \in session_seen
  BY DEF Refusal
<1> QED  BY <1>1, <1>2, <1>3, <1>4, <1>5, AppendEntries DEF SkipNext, TypeOK

-----------------------------------------------------------------------------
(* The accounts of leads are kept                                          *)

\* A trace once left stays.
LEMMA TraceStays ==
  ASSUME TypeOK, DepthInv, [Next]_vars, NEW t, NEW depth, Accounted(t, depth)
  PROVE  Accounted(t, depth)'
<1>1. CASE SkipNext
  <2>1. CASE \E q \in DOMAIN queue : queue[q] = [depth |-> depth, target |-> t]
    <3>1. PICK q \in DOMAIN queue : queue[q] = [depth |-> depth, target |-> t]
      BY <2>1
    <3>2. CASE q = 1
      BY <1>1, <3>1, <3>2, Skipped DEF Accounted
    <3>3. CASE q # 1
      BY <1>1, <3>1, <3>3, Skipped, Dequeued DEF Accounted
    <3> QED  BY <3>2, <3>3
  <2>2. CASE ~\E q \in DOMAIN queue : queue[q] = [depth |-> depth, target |-> t]
    BY <1>1, <2>2, Skipped DEF Accounted
  <2> QED  BY <2>1, <2>2
<1>2. CASE ScanNext
  <2>1. CASE \E q \in DOMAIN queue : queue[q] = [depth |-> depth, target |-> t]
    <3>1. PICK q \in DOMAIN queue : queue[q] = [depth |-> depth, target |-> t]
      BY <2>1
    <3>2. CASE q = 1
      BY <1>2, <3>1, <3>2, Dequeued DEF Accounted, ScanNext
    <3>3. CASE q # 1
      BY <1>2, <3>1, <3>3, Dequeued DEF Accounted, ScanNext
    <3> QED  BY <3>2, <3>3
  <2>2. CASE ~\E q \in DOMAIN queue : queue[q] = [depth |-> depth, target |-> t]
    BY <1>2, <2>2 DEF Accounted, ScanNext
  <2> QED  BY <2>1, <2>2
<1>3. CASE FileLead
  BY <1>3, Filed DEF Accounted
<1>4. CASE AppendHop
  <2>1. UNCHANGED <<queue, leads_skipped>>
    BY <1>4 DEF AppendHop
  <2> QED  BY <1>4, <2>1, Appended DEF Accounted
<1>5. CASE Start
  BY <1>5 DEF Start, Accounted, TypeOK, DepthInv
<1>6. CASE Reject \/ ScanRaises \/ ReturnResult \/ CloseInvestigation \/ UNCHANGED vars
  BY <1>6 DEF Reject, ScanRaises, ReturnResult, CloseInvestigation, vars, requestVars, Accounted
<1>7. ASSUME NEW leads \in LeadsAt(current.depth), ScanReturns(leads)
      PROVE  Accounted(t, depth)'
  BY <1>7 DEF ScanReturns, Accounted
<1> QED  BY <1>1, <1>2, <1>3, <1>4, <1>5, <1>6, <1>7 DEF Next, RequestStep

LEMMA AccountInit == Init => AccountInv
BY DEF Init, AccountInv, LeadsAccounted, targets_scanned

\* Each step accounts for the leads it handles.
LEMMA AccountStep ==
  ASSUME TypeOK, IInv, AccountInv, [Next]_vars
  PROVE  AccountInv'
<1> DepthInv
  BY DEF IInv
<1> DEFINE Filing == phase = "filing" => \A k \in DOMAIN leads_here :
                       \/ Accounted(leads_here[k], current.depth + 1)
                       \/ \E j \in DOMAIN unfiled : unfiled[j] = leads_here[k]
           Taken == \A t \in session_seen :
                      \/ \E i \in DOMAIN hops : hops[i].target = t
                      \/ \E i \in DOMAIN leads_skipped :
                           leads_skipped[i].target = t /\ leads_skipped[i].reason # "seen"
                      \/ phase \in {"scanning", "filing", "failed"} /\ current.target = t
           Leads == \A i \in DOMAIN hops : \A k \in DOMAIN hops[i].leads :
                      Accounted(hops[i].leads[k], hops[i].depth + 1)
<1>a. Filing /\ Taken /\ Leads
  BY DEF AccountInv, LeadsAccounted
<1>b. SUFFICES Filing' /\ Taken' /\ Leads'
  BY DEF AccountInv, LeadsAccounted, targets_scanned
<1>1. CASE SkipNext
  <2>1. Filing'
    BY <1>1, Skipped
  <2>2. Taken'
    BY <1>1, <1>a, Skipped
  <2>3. Leads'
    BY <1>1, <1>a, Skipped, TraceStays
  <2> QED  BY <2>1, <2>2, <2>3
<1>2. CASE ScanNext
  <2>1. UNCHANGED <<hops, leads_skipped>> /\ phase = "loop" /\ phase' = "scanning"
        /\ session_seen' = session_seen \cup {current'.target}
    BY <1>2 DEF ScanNext
  <2>2. Leads'
    BY <1>a, <2>1, TraceStays
  <2> QED  BY <1>a, <2>1, <2>2
<1>3. ASSUME NEW leads \in LeadsAt(current.depth), ScanReturns(leads)
      PROVE  Filing' /\ Taken' /\ Leads'
  <2>1. Filing' /\ Taken'
    BY <1>a, <1>3 DEF ScanReturns
  <2>2. Leads'
    BY <1>a, <1>3, TraceStays DEF ScanReturns
  <2> QED  BY <2>1, <2>2
<1>4. CASE FileLead
  <2>1. Taken'
    BY <1>a, <1>4, Filed
  <2>2. Leads'
    BY <1>a, <1>4, Filed, TraceStays
  <2>3. ASSUME NEW t, t = unfiled[1]
        PROVE  Accounted(t, current.depth + 1)'
    <3> DEFINE item == [depth |-> current.depth + 1, target |-> unfiled[1]]
    <3>1. CASE item.target \in session_seen
      <4>1. /\ Len(leads_skipped) + 1 \in DOMAIN leads_skipped'
            /\ leads_skipped'[Len(leads_skipped) + 1].target = t
            /\ leads_skipped'[Len(leads_skipped) + 1].depth = current.depth + 1
            /\ current' = current
        BY <1>4, <2>3, <3>1, Filed
      <4> QED  BY <4>1 DEF Accounted
    <3>2. CASE item.target \notin session_seen
      <4>1. Len(queue) + 1 \in DOMAIN queue' /\ queue'[Len(queue) + 1] = item
            /\ current' = current
        BY <1>4, <3>2, Filed
      <4> QED  BY <2>3, <4>1 DEF Accounted
    <3> QED  BY <3>1, <3>2
  <2>4. ASSUME NEW k \in DOMAIN leads_here
        PROVE  \/ Accounted(leads_here[k], current.depth + 1)'
               \/ \E j \in DOMAIN unfiled' : unfiled'[j] = leads_here[k]
    <3> leads_here' = leads_here /\ current' = current
      BY <1>4, Filed
    <3>1. CASE Accounted(leads_here[k], current.depth + 1)
      BY <1>4, <3>1, Filed, TraceStays
    <3>2. ASSUME NEW j \in DOMAIN unfiled, unfiled[j] = leads_here[k]
          PROVE  \/ Accounted(leads_here[k], current.depth + 1)'
                 \/ \E i \in DOMAIN unfiled' : unfiled'[i] = leads_here[k]
      <4>1. CASE j = 1
        BY <2>3, <3>2, <4>1
      <4>2. CASE j # 1
        BY <1>4, <3>2, <4>2, Filed
      <4> QED  BY <4>1, <4>2
    <3> QED  BY <1>4, <1>a, <3>1, <3>2 DEF FileLead
  <2>5. Filing'
    BY <1>4, <2>4, Filed
  <2> QED  BY <2>1, <2>2, <2>5
<1>5. CASE AppendHop
  <2>1. /\ phase = "filing" /\ phase' = "loop" /\ unfiled = <<>>
        /\ UNCHANGED <<session_seen, leads_skipped>>
    BY <1>5 DEF AppendHop
  <2>2. Filing' /\ Taken'
    BY <1>5, <1>a, <2>1, Appended
  <2>3. \A k \in DOMAIN leads_here : Accounted(leads_here[k], current.depth + 1)
    BY <1>a, <2>1
  <2>4. Leads'
    BY <1>5, <1>a, <2>3, Appended, TraceStays
  <2> QED  BY <2>2, <2>4
<1>6. CASE Start
  BY <1>6 DEF Start, DepthInv
<1>7. CASE Reject \/ ScanRaises \/ ReturnResult \/ CloseInvestigation \/ UNCHANGED vars
  <2>1. /\ UNCHANGED <<hops, leads_skipped, session_seen, current, leads_here, unfiled, queue>>
        /\ phase' = phase \/ phase' \in {"rejected", "done"}
             \/ (phase = "scanning" /\ phase' = "failed")
    BY <1>7 DEF Reject, ScanRaises, ReturnResult, CloseInvestigation, vars, requestVars
  <2>2. Leads'
    BY <1>a, <2>1, TraceStays
  <2>3. Filing'
    BY <1>a, <2>1, TraceStays
  <2>4. Taken'
    <3>1. CASE Reject
      BY <3>1 DEF Reject, DepthInv
    <3>2. CASE ReturnResult
      BY <1>a, <3>2 DEF ReturnResult
    <3>3. CASE ScanRaises \/ CloseInvestigation \/ UNCHANGED vars
      BY <1>a, <3>3 DEF ScanRaises, CloseInvestigation, vars, requestVars
    <3> QED  BY <1>7, <3>1, <3>2, <3>3
  <2> QED  BY <2>2, <2>3, <2>4
<1> QED  BY <1>1, <1>2, <1>3, <1>4, <1>5, <1>6, <1>7 DEF Next, RequestStep

\* Every lead of a finished scan is traced, and every target counted as scanned is a
\* hop or skipped with the guard that refused it (LeadsAccounted).
THEOREM NoLeadIsLost == Spec => []LeadsAccounted
<1>1. TypeOK /\ IInv /\ AccountInv /\ [Next]_vars => AccountInv'
  BY AccountStep
<1>2. AccountInv => LeadsAccounted
  BY DEF AccountInv
<1> QED  BY <1>1, <1>2, AccountInit, TypeCorrect, Invariance, PTL DEF Spec

-----------------------------------------------------------------------------
(* The order of the queue is kept                                          *)

LEMMA BreadthInit == Init => BreadthInv
BY DEF Init, BreadthInv, OrderInv, NearInv, SourceInv, InProgress

\* The front of the queue is the shallowest item, and whatever is unseen behind a lead
\* is still in the queue.
LEMMA BreadthTake ==
  ASSUME TypeOK, BreadthInv, SkipNext \/ ScanNext
  PROVE  BreadthInv'
<1> DEFINE head == queue[1]
<1>1. /\ queue # <<>> /\ queue' = Tail(queue) /\ phase = "loop" /\ hops' = hops
      /\ session_seen' = session_seen \cup {Head(queue).target}
      /\ unfiled' = unfiled /\ leads_here' = leads_here
      /\ \/ phase' = "loop" /\ current' = current
         \/ /\ phase' = "scanning" /\ current' = Head(queue)
            /\ Head(queue).target \notin session_seen
  BY DEF SkipNext, ScanNext, Refusal
<1>2. /\ Head(queue) = head /\ 1 \in DOMAIN queue /\ head \in Item
      /\ \A q \in DOMAIN queue' : q + 1 \in DOMAIN queue /\ queue'[q] = queue[q + 1]
      /\ \A q \in DOMAIN queue : q = 1 \/ (q - 1 \in DOMAIN queue' /\ queue'[q - 1] = queue[q])
  BY <1>1, Dequeued
<1>3. \A q \in DOMAIN queue : q \in Nat /\ 1 <= q /\ queue[q].depth \in Nat
  <2>1. \A q \in DOMAIN queue : q \in Nat /\ 1 <= q /\ queue[q] \in Item
    BY DEF TypeOK
  <2> QED  BY <2>1 DEF Item
<1>4. \A q \in DOMAIN queue' : q \in Nat
  BY <1>1, TailEntries DEF TypeOK
<1>5. OrderInv'
  <2>1. \A i, j \in DOMAIN queue' : i <= j =>
          queue'[i].depth <= queue'[j].depth /\ queue'[j].depth <= queue'[i].depth + 1
    BY <1>2, <1>4 DEF BreadthInv, OrderInv
  <2>2. \A i \in DOMAIN hops : \A q \in DOMAIN queue' : hops[i].depth <= queue'[q].depth
    BY <1>2 DEF BreadthInv, OrderInv
  <2>3. \A q \in DOMAIN queue' : head.depth <= queue'[q].depth
                                 /\ queue'[q].depth <= head.depth + 1
    <3> SUFFICES ASSUME NEW q \in DOMAIN queue'
                 PROVE  head.depth <= queue'[q].depth /\ queue'[q].depth <= head.depth + 1
      OBVIOUS
    <3>1. q + 1 \in DOMAIN queue /\ queue'[q] = queue[q + 1] /\ 1 <= q + 1
      BY <1>2, <1>3
    <3> QED  BY <3>1, <1>2 DEF BreadthInv, OrderInv
  <2>4. \A i \in DOMAIN hops : hops[i].depth <= head.depth
    BY <1>2 DEF BreadthInv, OrderInv
  <2>5. \A i, j \in DOMAIN hops : i < j => hops[i].depth <= hops[j].depth
    BY DEF BreadthInv, OrderInv
  <2> QED  BY <1>1, <1>2, <2>1, <2>2, <2>3, <2>4, <2>5 DEF OrderInv, InProgress
<1>6. \A depth, t : Queued(depth, t) =>
        Queued(depth, t)' \/ (t \in session_seen' /\ t = head.target)
  <2> SUFFICES ASSUME NEW depth, NEW t, NEW q \in DOMAIN queue,
                      queue[q] = [depth |-> depth, target |-> t]
               PROVE  Queued(depth, t)' \/ (t \in session_seen' /\ t = head.target)
    BY DEF Queued
  <2>1. CASE q = 1
    BY <1>1, <1>2, <2>1
  <2>2. CASE q # 1
    BY <1>2, <2>2 DEF Queued
  <2> QED  BY <2>1, <2>2
<1>7. NearInv'
  <2>1. \A i \in DOMAIN hops : \A k \in DOMAIN hops[i].leads :
          \/ hops[i].leads[k] \in session_seen'
          \/ Queued(hops[i].depth + 1, hops[i].leads[k])'
    BY <1>1, <1>6 DEF BreadthInv, NearInv
  <2>2. ASSUME NEW i \in DOMAIN hops, NEW k \in DOMAIN hops[i].leads,
               hops[i].leads[k] = head.target, head.target \notin session_seen
        PROVE  head.depth <= hops[i].depth + 1
    <3>1. PICK q \in DOMAIN queue :
            queue[q] = [depth |-> hops[i].depth + 1, target |-> head.target]
      BY <2>2 DEF BreadthInv, NearInv, Queued
    <3>2. head.depth <= queue[q].depth
      BY <1>2, <1>3 DEF BreadthInv, OrderInv
    <3> QED  BY <3>1, <3>2
  <2>3. \A i, j \in DOMAIN hops : \A k \in DOMAIN hops[i].leads :
          hops[j].target = hops[i].leads[k] => hops[j].depth <= hops[i].depth + 1
    BY DEF BreadthInv, NearInv
  <2> QED  BY <1>1, <1>2, <2>1, <2>2, <2>3 DEF NearInv, InProgress
<1>8. SourceInv'
  <2>1. \A q \in DOMAIN queue : queue[q].depth > 0 =>
          \E i \in DOMAIN hops : SourceOf(i, queue[q].depth, queue[q].target)
    BY <1>1 DEF BreadthInv, SourceInv
  <2>2. \A i, depth, t : SourceOf(i, depth, t)' <=> SourceOf(i, depth, t)
    BY <1>1 DEF SourceOf
  <2>3. \A q \in DOMAIN queue' : queue'[q].depth > 0 =>
          \E i \in DOMAIN hops : SourceOf(i, queue'[q].depth, queue'[q].target)
    BY <1>2, <2>1
  <2>4. \A j \in DOMAIN hops : hops[j].depth > 0 =>
          \E i \in 1..(j - 1) : SourceOf(i, hops[j].depth, hops[j].target)
    BY DEF BreadthInv, SourceInv
  <2> QED  BY <1>1, <1>2, <2>1, <2>2, <2>3, <2>4 DEF SourceInv, InProgress, SourceOf
<1> QED  BY <1>5, <1>7, <1>8 DEF BreadthInv

\* A filed lead goes behind everything in the queue, and nothing there is deeper.
LEMMA BreadthFile ==
  ASSUME TypeOK, BreadthInv, FileLead
  PROVE  BreadthInv'
<1> DEFINE item == [depth |-> current.depth + 1, target |-> unfiled[1]]
           Waits(depth, t) == \E q \in DOMAIN queue' : queue'[q] = [depth |-> depth, target |-> t]
<1>1. /\ item \in Item /\ 1 \in DOMAIN unfiled
      /\ \A j \in DOMAIN unfiled : j = 1 \/ (j - 1 \in DOMAIN unfiled' /\ unfiled'[j - 1] = unfiled[j])
      /\ \A j \in DOMAIN unfiled' : j + 1 \in DOMAIN unfiled /\ unfiled'[j] = unfiled[j + 1]
      /\ UNCHANGED <<phase, current, leads_here, hops, session_seen>>
      /\ \/ item.target \in session_seen /\ queue' = queue
         \/ /\ DOMAIN queue' = DOMAIN queue \cup {Len(queue) + 1}
            /\ \A q \in DOMAIN queue : queue'[q] = queue[q] /\ q < Len(queue) + 1
            /\ queue'[Len(queue) + 1] = item
  BY Filed
<1>2. /\ phase = "filing" /\ current.depth \in Nat /\ Len(queue) \in Nat
      /\ \A q \in DOMAIN queue : q \in Nat /\ queue[q].depth \in Nat
  <2>1. \A q \in DOMAIN queue : q \in Nat /\ queue[q] \in Item
    BY DEF TypeOK
  <2> QED  BY <2>1 DEF FileLead, TypeOK, Item
<1>3. \A q \in DOMAIN queue' : \/ q \in DOMAIN queue /\ queue'[q] = queue[q]
                               \/ q = Len(queue) + 1 /\ queue'[q] = item
  BY <1>1
<1>4. \A q \in DOMAIN queue : current.depth <= queue[q].depth
                              /\ queue[q].depth <= current.depth + 1 /\ q < Len(queue) + 1
  BY <1>2 DEF BreadthInv, OrderInv, InProgress, TypeOK
<1>5. OrderInv'
  <2>1. ASSUME NEW i \in DOMAIN queue', NEW j \in DOMAIN queue', i <= j
        PROVE  queue'[i].depth <= queue'[j].depth /\ queue'[j].depth <= queue'[i].depth + 1
    <3>1. CASE i \in DOMAIN queue /\ j \in DOMAIN queue
      BY <1>2, <1>3, <1>4, <2>1, <3>1 DEF BreadthInv, OrderInv
    <3>2. CASE i \in DOMAIN queue /\ j = Len(queue) + 1 /\ queue'[j] = item
      BY <1>2, <1>3, <1>4, <3>2
    <3>3. CASE i = Len(queue) + 1 /\ queue'[i] = item
      <4>1. j = Len(queue) + 1
        BY <1>2, <1>3, <1>4, <2>1, <3>3
      <4> QED  BY <1>2, <3>3, <4>1
    <3> QED  BY <1>3, <3>1, <3>2, <3>3
  <2>2. \A q \in DOMAIN queue' : current.depth <= queue'[q].depth
                                 /\ queue'[q].depth <= current.depth + 1
    BY <1>2, <1>3, <1>4
  <2>3. \A i \in DOMAIN hops : hops[i].depth <= current.depth /\ hops[i].depth \in Nat
    <3>1. \A i \in DOMAIN hops : hops[i] \in Hop
      BY DEF TypeOK
    <3> QED  BY <1>2, <3>1 DEF BreadthInv, OrderInv, InProgress, Hop
  <2>4. \A i \in DOMAIN hops : \A q \in DOMAIN queue' : hops[i].depth <= queue'[q].depth
    BY <1>2, <1>3, <2>3 DEF BreadthInv, OrderInv
  <2>5. \A i, j \in DOMAIN hops : i < j => hops[i].depth <= hops[j].depth
    BY DEF BreadthInv, OrderInv
  <2> QED  BY <1>1, <2>1, <2>2, <2>3, <2>4, <2>5 DEF OrderInv, InProgress
<1>6. /\ \A depth, t : Queued(depth, t) => Waits(depth, t)
      /\ unfiled[1] \in session_seen \/ Waits(current.depth + 1, unfiled[1])
  BY <1>1 DEF Queued
<1>7. NearInv'
  <2>1. ASSUME NEW k \in DOMAIN leads_here
        PROVE  \/ leads_here[k] \in session_seen
               \/ Waits(current.depth + 1, leads_here[k])
               \/ \E j \in DOMAIN unfiled' : unfiled'[j] = leads_here[k]
    <3>1. CASE \E j \in DOMAIN unfiled : unfiled[j] = leads_here[k]
      <4>1. PICK j \in DOMAIN unfiled : unfiled[j] = leads_here[k]
        BY <3>1
      <4>2. CASE j = 1
        BY <1>6, <4>1, <4>2
      <4>3. CASE j # 1
        BY <1>1, <4>1, <4>3
      <4> QED  BY <4>2, <4>3
    <3>2. CASE ~\E j \in DOMAIN unfiled : unfiled[j] = leads_here[k]
      BY <1>2, <1>6, <3>2 DEF BreadthInv, NearInv
    <3> QED  BY <3>1, <3>2
  <2>2. \A i \in DOMAIN hops : \A k \in DOMAIN hops[i].leads :
          hops[i].leads[k] \in session_seen \/ Waits(hops[i].depth + 1, hops[i].leads[k])
    BY <1>6 DEF BreadthInv, NearInv
  <2> QED  BY <1>1, <2>1, <2>2 DEF BreadthInv, NearInv, InProgress, Queued
<1>8. SourceInv'
  <2>1. \E k \in DOMAIN leads_here : leads_here[k] = unfiled[1]
    BY <1>1, <1>2 DEF BreadthInv, SourceInv
  <2>2. \A i, depth, t : SourceOf(i, depth, t)' <=> SourceOf(i, depth, t)
    BY <1>1 DEF SourceOf
  <2>3. \A q \in DOMAIN queue' : queue'[q].depth > 0 =>
          \/ \E i \in DOMAIN hops : SourceOf(i, queue'[q].depth, queue'[q].target)
          \/ /\ current.depth + 1 = queue'[q].depth
             /\ \E k \in DOMAIN leads_here : leads_here[k] = queue'[q].target
    BY <1>3, <2>1 DEF BreadthInv, SourceInv
  <2>4. \A j \in DOMAIN unfiled' : \E k \in DOMAIN leads_here : leads_here[k] = unfiled'[j]
    BY <1>1, <1>2 DEF BreadthInv, SourceInv
  <2> QED  BY <1>1, <1>2, <2>2, <2>3, <2>4 DEF BreadthInv, SourceInv, InProgress
<1> QED  BY <1>5, <1>7, <1>8 DEF BreadthInv

\* The scan in progress is as deep as the last hop or deeper, and its source is a hop.
LEMMA BreadthAppend ==
  ASSUME TypeOK, BreadthInv, AppendHop
  PROVE  BreadthInv'
<1> DEFINE n == Len(hops) + 1
           Source(i, depth, t) == /\ hops'[i].depth + 1 = depth
                                  /\ \E k \in DOMAIN hops'[i].leads : hops'[i].leads[k] = t
<1>1. /\ DOMAIN hops' = DOMAIN hops \cup {n} /\ n \in Nat /\ 1 .. (n - 1) = DOMAIN hops
      /\ \A i \in DOMAIN hops : hops'[i] = hops[i] /\ i < n /\ i \in Nat
      /\ hops'[n] = [depth |-> current.depth, target |-> current.target,
                     leads |-> leads_here]
  BY Appended
<1>2. /\ phase = "filing" /\ unfiled = <<>> /\ phase' = "loop"
      /\ UNCHANGED <<queue, session_seen, current, leads_here, unfiled>>
  BY DEF AppendHop
<1>3. current.depth \in Nat /\ \A i \in DOMAIN hops : hops[i].depth \in Nat
  <2>1. \A i \in DOMAIN hops : hops[i] \in Hop
    BY DEF TypeOK
  <2> QED  BY <2>1 DEF TypeOK, Item, Hop
<1>4. OrderInv'
  <2>1. \A i \in DOMAIN hops : hops[i].depth <= current.depth
    BY <1>2 DEF BreadthInv, OrderInv, InProgress
  <2>2. ASSUME NEW i \in DOMAIN hops', NEW j \in DOMAIN hops', i < j
        PROVE  hops'[i].depth <= hops'[j].depth
    <3>1. i \in DOMAIN hops
      BY <1>1, <2>2
    <3>2. CASE j = n
      BY <1>1, <2>1, <3>1, <3>2
    <3>3. CASE j \in DOMAIN hops
      BY <1>1, <2>2, <3>1, <3>3 DEF BreadthInv, OrderInv
    <3> QED  BY <1>1, <3>2, <3>3
  <2>3. \A i \in DOMAIN hops' : \A q \in DOMAIN queue : hops'[i].depth <= queue[q].depth
    BY <1>1, <1>2 DEF BreadthInv, OrderInv, InProgress
  <2> QED  BY <1>2, <2>2, <2>3 DEF BreadthInv, OrderInv, InProgress
<1>5. NearInv'
  <2>1. \A k \in DOMAIN leads_here :
          leads_here[k] \in session_seen \/ Queued(current.depth + 1, leads_here[k])
    BY <1>2 DEF BreadthInv, NearInv
  <2>2. \A depth, t : Queued(depth, t)' <=> Queued(depth, t)
    BY <1>2 DEF Queued
  <2>3. ASSUME NEW i \in DOMAIN hops', NEW k \in DOMAIN hops'[i].leads
        PROVE  \/ hops'[i].leads[k] \in session_seen
               \/ Queued(hops'[i].depth + 1, hops'[i].leads[k])
    <3>1. CASE i \in DOMAIN hops
      BY <1>1, <3>1 DEF BreadthInv, NearInv
    <3>2. CASE i = n
      BY <1>1, <2>1, <3>2
    <3> QED  BY <1>1, <3>1, <3>2
  <2>4. ASSUME NEW i \in DOMAIN hops', NEW j \in DOMAIN hops',
               NEW k \in DOMAIN hops'[i].leads, hops'[j].target = hops'[i].leads[k]
        PROVE  hops'[j].depth <= hops'[i].depth + 1
    <3>1. CASE i \in DOMAIN hops /\ j \in DOMAIN hops
      BY <1>1, <2>4, <3>1 DEF BreadthInv, NearInv
    <3>2. CASE i \in DOMAIN hops /\ j = n
      BY <1>1, <1>2, <2>4, <3>2 DEF BreadthInv, NearInv, InProgress
    <3>3. CASE i = n
      <4>1. hops'[j].depth <= current.depth /\ hops'[j].depth \in Nat
        BY <1>1, <1>2, <1>3 DEF BreadthInv, OrderInv, InProgress
      <4> QED  BY <1>1, <1>3, <3>3, <4>1
    <3> QED  BY <1>1, <3>1, <3>2, <3>3
  <2> QED  BY <1>2, <2>2, <2>3, <2>4 DEF NearInv, InProgress
<1>6. SourceInv'
  <2>1. \A i \in DOMAIN hops : \A depth, t : SourceOf(i, depth, t) => Source(i, depth, t)
    BY <1>1 DEF SourceOf
  <2>2. \A q \in DOMAIN queue : queue[q].depth > 0 =>
          \E i \in DOMAIN hops' : Source(i, queue[q].depth, queue[q].target)
    <3> SUFFICES ASSUME NEW q \in DOMAIN queue, queue[q].depth > 0
                 PROVE  \E i \in DOMAIN hops' : Source(i, queue[q].depth, queue[q].target)
      OBVIOUS
    <3>1. CASE \E i \in DOMAIN hops : SourceOf(i, queue[q].depth, queue[q].target)
      BY <1>1, <2>1, <3>1
    <3>2. CASE /\ current.depth + 1 = queue[q].depth
               /\ \E k \in DOMAIN leads_here : leads_here[k] = queue[q].target
      <4>1. Source(n, queue[q].depth, queue[q].target)
        BY <1>1, <3>2
      <4> QED  BY <1>1, <4>1
    <3> QED  BY <3>1, <3>2 DEF BreadthInv, SourceInv
  <2>3. ASSUME NEW j \in DOMAIN hops', hops'[j].depth > 0
        PROVE  \E i \in 1..(j - 1) : Source(i, hops'[j].depth, hops'[j].target)
    <3>1. CASE j = n
      <4>1. \E i \in DOMAIN hops : SourceOf(i, current.depth, current.target)
        BY <1>1, <1>2, <2>3, <3>1 DEF BreadthInv, SourceInv, InProgress
      <4> QED  BY <1>1, <2>1, <3>1, <4>1
    <3>2. CASE j \in DOMAIN hops
      <4>1. PICK i \in 1..(j - 1) : SourceOf(i, hops[j].depth, hops[j].target)
        BY <1>1, <2>3, <3>2 DEF BreadthInv, SourceInv
      <4>2. i \in DOMAIN hops
        <5>1. i \in Nat /\ 1 <= i /\ i <= n - 1
          BY <1>1, <3>2
        <5> QED  BY <1>1, <5>1
      <4> QED  BY <1>1, <2>1, <3>2, <4>1, <4>2
    <3> QED  BY <1>1, <3>1, <3>2
  <2> QED  BY <1>2, <2>2, <2>3 DEF SourceInv, InProgress, SourceOf
<1> QED  BY <1>4, <1>5, <1>6 DEF BreadthInv

LEMMA BreadthStep ==
  ASSUME TypeOK, DepthInv, BreadthInv, [Next]_vars
  PROVE  BreadthInv'
<1>1. CASE Start
  BY <1>1 DEF Start, DepthInv, TypeOK, Item, BreadthInv, OrderInv, NearInv, SourceInv, InProgress
<1>2. CASE Reject \/ ScanRaises \/ ReturnResult \/ CloseInvestigation \/ UNCHANGED vars
  <2>1. /\ UNCHANGED <<queue, hops, session_seen, current, leads_here, unfiled>>
        /\ phase' = phase \/ phase' \in {"rejected", "done", "failed"}
        /\ phase' = phase \/ phase # "filing"
    BY <1>2 DEF Reject, ScanRaises, ReturnResult, CloseInvestigation, vars, requestVars
  <2> QED
    BY <2>1 DEF BreadthInv, OrderInv, NearInv, SourceInv, InProgress, SourceOf, Queued
<1>3. ASSUME NEW leads \in LeadsAt(current.depth), ScanReturns(leads)
      PROVE  BreadthInv'
  BY <1>3 DEF ScanReturns, BreadthInv, OrderInv, NearInv, SourceInv, InProgress, SourceOf, Queued
<1> QED  BY <1>1, <1>2, <1>3, BreadthTake, BreadthFile, BreadthAppend DEF Next, RequestStep

\* The run is breadth first: hops come in order of depth, and no target is scanned
\* deeper than its shortest chain of leads makes it (ShortestDepth).
THEOREM BreadthFirst == Spec => []ShortestDepth
<1>1. TypeOK /\ IInv /\ BreadthInv /\ [Next]_vars => BreadthInv'
  BY BreadthStep DEF IInv
<1>2. BreadthInv => ShortestDepth
  BY DEF BreadthInv, OrderInv, NearInv, SourceInv, SourceOf, ShortestDepth
<1> QED  BY <1>1, <1>2, BreadthInit, TypeCorrect, Invariance, PTL DEF Spec

=============================================================================
