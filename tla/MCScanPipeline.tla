--------------------------- MODULE MCScanPipeline ---------------------------
(***************************************************************************)
(* Instances of ScanPipeline for TLC: a domain, scanned by a dns module     *)
(* with two possible findings and an rdap module with one.                  *)
(***************************************************************************)
EXTENDS ScanPipeline, TLC

CONSTANTS r1, r2, t1, t2, dns, rdap, record, subdomain, expiry

MCModules  == {dns, rdap}
MCRegistry == <<dns, rdap>>
MCKeys     == {record, subdomain, expiry}

\* Every finding of a batch has a key of its own.
DistinctBatches ==
  [m \in MCModules |->
     IF m = dns THEN {<<>>, <<record, subdomain>>} ELSE {<<expiry>>}]

\* A batch with the same key twice: TXT records that differ in case only.
RepeatedBatches ==
  [m \in MCModules |->
     IF m = dns THEN {<<>>, <<record, record>>} ELSE {<<expiry>>}]

=============================================================================
