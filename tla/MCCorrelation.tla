--------------------------- MODULE MCCorrelation ----------------------------
(***************************************************************************)
(* Instances of Correlation for TLC: a domain, and a subdomain of it that   *)
(* was scanned as a target of its own; both resolve to one address.         *)
(***************************************************************************)
EXTENDS Correlation, TLC

CONSTANTS r1, r2, i1, i2, site, sub, siteA, siteMx, subA, api, ip, mx, none

Finding(type, name, record, address, target) ==
  [type |-> type, name |-> name, record |-> record, ip |-> address, target |-> target]

\* Two records of the domain, so that the index entry for its name may change
\* between two correlations; the subdomain as the domain's scan reported it, and
\* its own address record.
MCInfo ==
  siteA     :> Finding("dns_record", <<"site", "org">>, "A", ip, site)
  @@ siteMx :> Finding("dns_record", <<"site", "org">>, "MX", mx, site)
  @@ api    :> Finding("subdomain", <<"api", "site", "org">>, "none", none, site)
  @@ subA   :> Finding("dns_record", <<"api", "site", "org">>, "A", ip, sub)

\* A scan of the domain whose MX query fails, one whose queries all succeed, and a
\* scan of the subdomain.
MCBatches == {{siteA, api}, {siteA, siteMx, api}, {subA}}

\* The requests are alike: nothing chooses among them.
RequestSymmetry == Permutations(Requests)
=============================================================================
