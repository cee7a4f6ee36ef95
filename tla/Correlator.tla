----------------------------- MODULE Correlator -----------------------------
(***************************************************************************)
(* The correlation rules of src/app/core/correlator.py: pure functions from *)
(* the list of findings of a run to the relations they propose.             *)
(*                                                                         *)
(* A list of findings is a sequence of ids, possibly with repetitions, and  *)
(* Info[id] is what the rules read of a finding:                            *)
(*   type    Finding.type                                                   *)
(*   name    the host it is about, as its dot-separated labels (the first   *)
(*           word of a dns_record's value, the host of a social account's   *)
(*           URL), or the address of an ip_address                          *)
(*   record  the record type of a dns_record (second word of its value)     *)
(*   ip      the data of that record (third word)                           *)
(*   target  Finding.target_id                                              *)
(*                                                                         *)
(* A proposal is identified by the key _deduplicate uses, and what a rule   *)
(* proposes is the set of its keys: the lists of the code differ from these *)
(* sets by order and by the repetitions _deduplicate removes.  Confidence,  *)
(* reason and metadata are functions of the key's type and findings.        *)
(***************************************************************************)
EXTENDS Naturals, Sequences

CONSTANT Info

FindingIds    == DOMAIN Info
RelationTypes == {"RESOLVES_TO", "SUBDOMAIN_OF", "FOUND_ON", "SHARES_IP"}
Keys          == [source : FindingIds, target : FindingIds, type : RelationTypes]

Listed(fs)   == {fs[i] : i \in DOMAIN fs}
Key(f, g, t) == [source |-> f, target |-> g, type |-> t]

\* The name of a subdomain is a sequence of labels.
ASSUME NamesAssumption ==
  \A f \in FindingIds : Info[f].type = "subdomain" => Info[f].name \in Seq(Listed(Info[f].name))

-----------------------------------------------------------------------------
\* The rules look findings up in dictionaries filled in list order, so that a
\* later finding of the same name replaces an earlier one.  Positions are where
\* findings of the given types with that name stand, Entry is what remains.
Positions(fs, types, name) ==
  {i \in DOMAIN fs : Info[fs[i]].type \in types /\ Info[fs[i]].name = name}
Has(fs, types, name) == Positions(fs, types, name) # {}
\* Faulty variant: an earlier finding is kept.
EntryKeepsFirst(fs, types, name) ==
  fs[CHOOSE i \in Positions(fs, types, name) :
       \A j \in Positions(fs, types, name) : i <= j]
Entry(fs, types, name) ==
  fs[CHOOSE i \in Positions(fs, types, name) :
       \A j \in Positions(fs, types, name) : j <= i]

OfType(fs, type) == {f \in Listed(fs) : Info[f].type = type}
AddressRecords(fs) == {f \in OfType(fs, "dns_record") : Info[f].record \in {"A", "AAAA"}}

-----------------------------------------------------------------------------
\* Rule 1: an address record resolves to the ip_address finding of its address.
ResolvesTo(fs) ==
  {Key(f, Entry(fs, {"ip_address"}, Info[f].ip), "RESOLVES_TO") :
     f \in {g \in AddressRecords(fs) : Has(fs, {"ip_address"}, Info[g].ip)}}

\* Rule 2: a subdomain belongs to the longest proper suffix of its name, of two
\* labels at least, that a domain finding or else a dns_record is about.
Suffix(name, i) == SubSeq(name, i + 1, Len(name))
\* Faulty variant: the name itself counts as one of its suffixes.
ParentDepthsFrom0(fs, f) ==
  {i \in 0 .. Len(Info[f].name) - 2 :
     Has(fs, {"domain", "dns_record"}, Suffix(Info[f].name, i))}
ParentDepths(fs, f) ==
  {i \in 1 .. Len(Info[f].name) - 2 :
     Has(fs, {"domain", "dns_record"}, Suffix(Info[f].name, i))}
ParentName(fs, f) ==
  Suffix(Info[f].name, CHOOSE i \in ParentDepths(fs, f) : \A j \in ParentDepths(fs, f) : i <= j)
Parent(fs, f) ==
  Entry(fs, IF Has(fs, {"domain"}, ParentName(fs, f)) THEN {"domain"} ELSE {"dns_record"},
        ParentName(fs, f))
SubdomainOf(fs) ==
  {Key(f, Parent(fs, f), "SUBDOMAIN_OF") :
     f \in {g \in OfType(fs, "subdomain") : ParentDepths(fs, g) # {}}}

\* Rule 3: a social account is found on the host of its URL, if any finding of
\* the list is about that host (an http_service is listed under a URL, which is
\* no host).
HostTypes == {"domain", "subdomain", "dns_record"}
FoundOn(fs) ==
  {Key(f, Entry(fs, HostTypes, Info[f].name), "FOUND_ON") :
     f \in {g \in OfType(fs, "social_account") : Has(fs, HostTypes, Info[g].name)}}

\* Rule 4: two address records with one address share it.  A bucket holds each
\* finding where the list first names it, and pairs are taken in bucket order.
FirstAt(fs, f) == CHOOSE i \in DOMAIN fs : fs[i] = f /\ \A j \in 1 .. i - 1 : fs[j] # f
\* Faulty variant: a bucket holds a finding as often as the list names it.
BeforeSomewhere(fs, f, g) == \E i, j \in DOMAIN fs : fs[i] = f /\ fs[j] = g /\ i < j
\* Faulty variant: every pair of a bucket is taken in both orders.
EitherOrder(fs, f, g) == FirstAt(fs, f) # FirstAt(fs, g)
Before(fs, f, g) == FirstAt(fs, f) < FirstAt(fs, g)
SharesIp(fs) ==
  {Key(p[1], p[2], "SHARES_IP") :
     p \in {q \in AddressRecords(fs) \X AddressRecords(fs) :
              Info[q[1]].ip = Info[q[2]].ip /\ q[1] # q[2] /\ Before(fs, q[1], q[2])}}

run_all_rules(fs) == ResolvesTo(fs) \cup SubdomainOf(fs) \cup FoundOn(fs) \cup SharesIp(fs)

-----------------------------------------------------------------------------
\* What a relation claims, stated without lists or indexes.
Extends(name, suffix) ==
  \E i \in 1 .. Len(name) - 2 : suffix = SubSeq(name, i + 1, Len(name))
Parents == {"domain", "dns_record"}
IsAddressRecord(f) == f.type = "dns_record" /\ f.record \in {"A", "AAAA"}
Explains(k) ==
  LET f == Info[k.source]  g == Info[k.target] IN
  CASE k.type = "RESOLVES_TO"  -> IsAddressRecord(f) /\ g.type = "ip_address"
                                  /\ f.ip = g.name
    [] k.type = "SUBDOMAIN_OF" -> f.type = "subdomain" /\ g.type \in Parents
                                  /\ Extends(f.name, g.name)
    [] k.type = "FOUND_ON"     -> f.type = "social_account" /\ g.type \in HostTypes
                                  /\ f.name = g.name
    [] k.type = "SHARES_IP"    -> IsAddressRecord(f) /\ IsAddressRecord(g)
                                  /\ k.source # k.target /\ f.ip = g.ip

\* Which of the explained relations of a list are proposed: those of the last
\* finding of a name, of the longest parent, a domain if there is one, and of the
\* finding listed first when both ends claim the same.
Latest(fs, f, types) ==
  \E i \in DOMAIN fs : fs[i] = f /\ \A j \in i + 1 .. Len(fs) :
     Info[fs[j]].type \in types => Info[fs[j]].name # Info[f].name
Chosen(fs, k) ==
  LET f == k.source  g == k.target IN
  CASE k.type = "RESOLVES_TO"  -> Latest(fs, g, {"ip_address"})
    [] k.type = "SUBDOMAIN_OF" ->
         /\ Latest(fs, g, {Info[g].type})
         /\ \A h \in Listed(fs) : Info[h].type \in Parents /\ Extends(Info[f].name, Info[h].name)
              => \/ Len(Info[h].name) < Len(Info[g].name)
                 \/ Info[h].name = Info[g].name /\ (Info[h].type = "domain" => Info[g].type = "domain")
    [] k.type = "FOUND_ON"     -> Latest(fs, g, HostTypes)
    [] k.type = "SHARES_IP"    ->
         \E i \in DOMAIN fs : fs[i] = f /\ g \notin Listed(SubSeq(fs, 1, i))

Expected(fs) ==
  {k \in [source : Listed(fs), target : Listed(fs), type : RelationTypes] :
     Explains(k) /\ Chosen(fs, k)}
=============================================================================
