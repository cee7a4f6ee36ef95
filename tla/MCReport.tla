------------------------------ MODULE MCReport ------------------------------
(***************************************************************************)
(* Instances of Report for TLC: two findings of one target and one of       *)
(* another, related within the first target and across the two.             *)
(***************************************************************************)
EXTENDS Report, TLC

CONSTANTS r1, domain, host, a, b, c

MCTargetOf == a :> domain @@ b :> domain @@ c :> host
MCPairs    == {<<a, b>>, <<a, c>>}

=============================================================================
