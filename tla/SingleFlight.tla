---------------------------- MODULE SingleFlight ----------------------------
(***************************************************************************)
(* What the scan pipeline has to guarantee for "select, then insert"        *)
(* deduplication to be sound: at most one request at a time is between the  *)
(* start of a module on a target and the end of storing what it found.      *)
(* Only a restart of the process takes the flight away from its holder      *)
(* before it has landed.                                                    *)
(***************************************************************************)
CONSTANTS Requests, Modules

VARIABLE holders    \* module -> the requests running it and storing its result

Init == holders = [m \in Modules |-> {}]

TakeOff(r, m) ==
  /\ holders[m] = {}
  /\ holders' = [holders EXCEPT ![m] = {r}]

Land(r, m) ==
  /\ r \in holders[m]
  /\ holders' = [holders EXCEPT ![m] = @ \ {r}]

Crash == holders' = [m \in Modules |-> {}]

Next ==
  \/ \E r \in Requests, m \in Modules : TakeOff(r, m) \/ Land(r, m)
  \/ Crash

Spec == Init /\ [][Next]_holders

=============================================================================
