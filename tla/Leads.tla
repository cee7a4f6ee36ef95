------------------------------- MODULE Leads --------------------------------
(***************************************************************************)
(* From findings to further targets: extract_leads                          *)
(* (src/app/core/adaptive.py) and the scope a target is checked against     *)
(* before it is scanned (src/app/core/scope.py), as functions of findings   *)
(* as the modules make them (Sources).                                      *)
(***************************************************************************)
EXTENDS Sources

CONSTANTS IPv4,           \* words that are dotted addresses
          Addresses,      \* words that are addresses of either kind
          SkipPrefixes,   \* path segments that are no usernames
          LongSegments    \* path segments of more than 64 characters

-----------------------------------------------------------------------------
(* The target each kind of finding leads to, as a sequence of at most one. *)

Target(type, value) == <<[type |-> type, value |-> value]>>
NoTarget            == <<>>

\* A name of a single label is no host.
HostTarget(name) == IF Len(name) > 1 THEN Target("domain", name) ELSE NoTarget

UsernameTarget(path) ==
  IF path = <<>> \/ path[Len(path)] \in SkipPrefixes \cup LongSegments THEN NoTarget
  ELSE Target("username", path[Len(path)])

\* Only the data of an A record has to look like an address.
AddressTarget(record, data) ==
  IF record = "AAAA" \/ (record = "A" /\ data.text \in IPv4)
  THEN Target("ip", data.text) ELSE NoTarget

TargetOf(f) ==
  CASE f.type = "social_account" -> UsernameTarget(f.value.path)
    [] f.type = "subdomain"      -> HostTarget(StripWildcards(f.value))
    [] f.type = "dns_record"     -> AddressTarget(f.value.record, f.value.data)
    [] f.type = "nameserver"     -> HostTarget(f.value)
    [] OTHER                     -> NoTarget

-----------------------------------------------------------------------------
\* A lead is a target and the position of the finding it comes from.
LeadsOf(fs) ==
  FlattenSeq([i \in DOMAIN fs |->
    [k \in DOMAIN TargetOf(fs[i]) |-> [target |-> TargetOf(fs[i])[k], source |-> i]]])

\* Faulty variant: a lead is compared with the one before it only.
KnownJustNow(kept, lead) == kept # <<>> /\ kept[Len(kept)].target = lead.target
Known(kept, lead) == \E k \in DOMAIN kept : kept[k].target = lead.target

\* _deduplicate_leads keeps the first lead to a target.
Deduplicated(leads) ==
  LET kept[i \in 0 .. Len(leads)] ==
        IF i = 0 THEN <<>>
        ELSE IF Known(kept[i - 1], leads[i]) THEN kept[i - 1]
        ELSE Append(kept[i - 1], leads[i])
  IN  kept[Len(leads)]

extract_leads(fs) == Deduplicated(LeadsOf(fs))

-----------------------------------------------------------------------------
(* Scope.check: an empty list restricts nothing.                           *)

DomainAllowed(scope, name) ==
  \E a \in scope.allowed_domains :
    name = a \/ (scope.include_subdomains /\ Under(name, a))

\* A range is the set of its addresses; one that does not parse contains none.
IpAllowed(scope, value) ==
  value \in Addresses /\ \E range \in scope.allowed_ip_ranges : value \in range

ScopedAsHost == {"domain", "subdomain", "url", "hostname"}

Allowed(scope, target) ==
  /\ scope.allowed_target_types = {} \/ target.type \in scope.allowed_target_types
  /\ target.type \in ScopedAsHost /\ scope.allowed_domains # {}
       => DomainAllowed(scope, target.value)
  /\ target.type = "ip" /\ scope.allowed_ip_ranges # {}
       => IpAllowed(scope, target.value)

=============================================================================
