--------------------------- MODULE MCAdaptiveScan ---------------------------
(***************************************************************************)
(* Instance of AdaptiveScan for TLC: two domains, a username whose scan    *)
(* may hang, and an ip lead no module supports.                            *)
(***************************************************************************)
EXTENDS AdaptiveScan, FiniteSets

CONSTANTS
  start, www,   \* domains
  john,         \* a username
  ip,           \* of a type without modules
  MaxLeads      \* longest lead list of a scan

MCTargets   == {start, www, john, ip}
MCSupported == {start, www, john}
MCMayHang   == {john}

\* extract_leads drops repeated (type, value) pairs.
MCLeadLists ==
  {s \in UNION {[1..n -> MCTargets] : n \in 0..MaxLeads} :
     Cardinality({s[i] : i \in DOMAIN s}) = Len(s)}

=============================================================================
