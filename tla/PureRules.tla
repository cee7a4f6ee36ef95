----------------------------- MODULE PureRules ------------------------------
(***************************************************************************)
(* The parts of the program that are functions, put to inputs:              *)
(*   rules      the correlation rules, on every list of at most MaxFindings *)
(*              findings; the list grows by a finding a step                *)
(*   identity   an issued assertion, against other headers and any clock    *)
(*   domain     the answers of all sources of a domain scan                 *)
(*   username   what the tool finds in a username scan                      *)
(***************************************************************************)
EXTENDS Correlator, Identity, Leads

CONSTANTS
  MaxFindings,      \* bound on the length of a list of findings
  Characters,       \* what users and texts are written with
  Users,            \* user ids
  Texts,            \* what may stand in the header of the expiry
  Times,            \* when an assertion is issued
  Clock,            \* when it is presented
  Secret,           \* IDENTITY_SECRET
  ApiKeys,          \* keys that are configured or sent
  Domain,           \* the domain that is scanned
  RecordOutcomes,   \* what its record queries come to
  Logs,             \* what the certificate log answers
  RdapAnswers,      \* what RDAP answers
  Outputs,          \* what the tool of a username scan prints
  Scope             \* a scope that allows the domain, with its subdomains, and some addresses

ASSUME PureAssumption ==
  /\ Users \subseteq Seq(Characters) \ {None}
  /\ Texts \subseteq Seq(Characters)
  /\ colon \in Characters
  /\ Times \subseteq Int /\ Clock \subseteq Int
  /\ Secret # None
  /\ NotAscii # None
  /\ \A user \in Users, exp \in Texts : NotAscii # Mac(Secret, Message(user, exp))

\* The sources answer with lists and finite sets.  No query answers with a record twice,
\* outer white space aside, which the module would report twice (modules/dns.py:144-148);
\* the names of the certificate log and of the scope are sequences of labels.
ASSUME AnswersAssumption ==
  /\ RecordTypes \in Seq(Listed(RecordTypes)) /\ IsInjective(RecordTypes)
  /\ \A o \in RecordOutcomes, type \in Listed(RecordTypes) :
       Answers(o[type]) \in Seq(Listed(Answers(o[type]))) /\ IsInjective(Answers(o[type]))
  /\ \A l \in Logs \ {Failed, Malformed} :
       IsFiniteSet(l) /\ \A name \in l : name \in Seq(Listed(name))
  /\ \A r \in RdapAnswers \ {Failed, Malformed} :
       r.nameservers \in Seq(Listed(r.nameservers)) /\ IsFiniteSet(r.statuses)
  /\ \A o \in Outputs \ {Failed} : o \in Seq(Listed(o))

ASSUME ScopeAssumption ==
  /\ Domain \in Seq(Listed(Domain))
  /\ "domain" \in Scope.allowed_target_types
  /\ Domain \in Scope.allowed_domains /\ Scope.include_subdomains
  /\ Scope.allowed_ip_ranges # {}

\* The texts the proxy may put in as the expiry of an assertion it issues at a time.
Expiries(at) == {exp \in Texts : IsNumber(exp) /\ NumberOf(exp) = at + TTL}

-----------------------------------------------------------------------------
VARIABLES input, list
vars == <<input, list>>

Init == /\ list = <<>>
        /\ \/ input = [about |-> "rules"]
           \/ \E at \in Times : \E user \in Users, exp \in Expiries(at), now \in Clock :
                input = [about |-> "identity", at |-> at, user |-> user, exp |-> exp, now |-> now]
           \/ \E o \in RecordOutcomes, l \in Logs, r \in RdapAnswers :
                input = [about |-> "domain", records |-> o, log |-> l, rdap |-> r]
           \/ \E o \in Outputs : input = [about |-> "username", output |-> o]

\* The list a correlation is run on is put together finding by finding.
ListAnother(f) == /\ input.about = "rules"
                  /\ Len(list) < MaxFindings
                  /\ list' = Append(list, f)
                  /\ UNCHANGED input

Next == \E f \in FindingIds : ListAnother(f)

Spec == Init /\ [][Next]_vars

-----------------------------------------------------------------------------
\* The index lookups, the search for the longest parent and the buckets propose
\* exactly the relations the findings explain and the choices of the rules leave.
RulesMatchReference == run_all_rules(list) = Expected(list)

\* A target linked twice has its findings listed twice: listing everything again
\* proposes nothing else, in particular no SHARES_IP in the other direction.
RepetitionHarmless == run_all_rules(list \o list) = run_all_rules(list)

\* "a captured header set cannot be replayed beyond its short lifetime and a caller
\* holding only the API key cannot assert an arbitrary user id" (auth.py:20-22):
\* whatever is put beside a signature, it is accepted for what it was made for or
\* not at all, and exactly within the window around its lifetime.  Only a request
\* without any of the headers passes unnamed, and only where that is allowed.
AssertionsHonoured ==
  input.about = "identity" =>
    LET issued == Issued(input.user, input.exp, Secret) IN
    /\ LivesItsTime(issued, input.at, Secret, input.now)
    /\ \A user \in Users \cup {None}, exp \in Texts, sig \in {issued.sig, None, NotAscii} :
         LET a == [user |-> user, exp |-> exp, sig |-> sig] IN
         /\ Binding(issued, a, Secret, input.now)
         /\ sig # issued.sig => ~Accepts(a, Secret, input.now)
         /\ \A degraded \in BOOLEAN, key \in ApiKeys \cup {None},
               provided \in ApiKeys \cup {None, NotAscii} :
              LET c == Gate(key, provided, a, Secret, input.now, degraded) IN
              /\ c.outcome = "accepted" => key # None /\ provided = key
              /\ (c.outcome = "accepted" /\ c.user = None) =>
                   (degraded /\ {user, exp, sig} = {None})

Scanned ==
  CASE input.about = "domain"   -> DnsExecute(Domain, input.records, input.log).findings
                                   \o RdapExecute(input.rdap).findings
    [] input.about = "username" -> SherlockExecute(input.output).findings
    [] OTHER -> <<>>

\* Two findings say the same, of one record type, and are spelled differently.
Respelled(f, g) ==
  /\ f # g
  /\ \/ /\ f.type = "dns_record"
        /\ f.value.record = g.value.record /\ f.value.data.text = g.value.data.text
     \/ f.type = "domain_status" /\ f.value.text = g.value.text

\* What deduplication relies on, as it looks a batch up before it inserts any of it
\* (deduplicator.py:146): two findings of a domain scan, be they of one module or of
\* two, have one key only when both are records of one type, or both are statuses, and
\* their texts differ in nothing but case and white space.
RepeatsOnlyBySpelling ==
  input.about = "domain" =>
    \A i, j \in DOMAIN Scanned : (i # j /\ DedupKey(Scanned[i]) = DedupKey(Scanned[j])) =>
      Respelled(Scanned[i], Scanned[j])

\* The findings of a list that name a target.
Naming(fs, target) == {i \in DOMAIN fs : target \in Listed(TargetOf(fs[i]))}

\* Every target the findings of a scan name becomes one lead, credited to the first
\* finding that names it, in the order of these; and every subdomain found is in the
\* scope that allows the scanned domain, so that the next hop is not refused, while an
\* alias in an AAAA answer, which leads to a target of type ip, is in no range.
LeadsComplete ==
  LET leads == extract_leads(Scanned) IN
  /\ \A k \in DOMAIN leads :
       /\ leads[k].source \in Naming(Scanned, leads[k].target)
       /\ \A i \in Naming(Scanned, leads[k].target) : leads[k].source <= i
       /\ \A m \in 1 .. k - 1 : leads[m].source < leads[k].source
  /\ \A i \in DOMAIN Scanned : \A t \in Listed(TargetOf(Scanned[i])) :
       \E m \in DOMAIN leads : leads[m].target = t
  /\ \A k \in DOMAIN leads : Scanned[leads[k].source].type = "subdomain" =>
       Allowed(Scope, leads[k].target)
  /\ \A k \in DOMAIN leads : leads[k].target.type = "ip" /\ Allowed(Scope, leads[k].target) =>
       leads[k].target.value \in Addresses
=============================================================================
