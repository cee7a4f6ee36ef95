------------------------------ MODULE Sources -------------------------------
(***************************************************************************)
(* The modules of the registry (src/app/modules): what each makes of the    *)
(* answers of its source, as a function.  A finding is its type and value,  *)
(* its evidence is one row that repeats the value.  A host name is the      *)
(* sequence of its labels; any other text is a Word: what it says, and how  *)
(* it is spelled.                                                           *)
(***************************************************************************)
EXTENDS Naturals, SequencesExt

CONSTANTS RecordTypes,     \* _RECORD_TYPES, a sequence
          MaxSubdomains,   \* the cap on names from certificates
          star,            \* the label of a wildcard name
          Failed,          \* a query that timed out, failed, or was refused
          Malformed,       \* an answer that is not of the expected form
          Noise            \* a line of output that is no hit

ASSUME SourcesAssumption == MaxSubdomains \in Nat

Finding(type, value)     == [type |-> type, value |-> value]
Findings(type, values)   == [i \in DOMAIN values |-> Finding(type, values[i])]
Result(findings, errors) == [findings |-> findings, errors |-> errors]
Raises                   == Result(<<>>, {"raised"})

\* A text: how it is capitalised (FALSE: not at all), what white space surrounds it
\* (FALSE: none) and separates its parts (FALSE: single spaces).
Word(text, caps, pads, gaps) == [text |-> text, caps |-> caps, pads |-> pads, gaps |-> gaps]

Lower(w)        == Word(w.text, FALSE, w.pads, w.gaps)
Strip(w)        == Word(w.text, w.caps, FALSE, w.gaps)
Collapse(w)     == Word(w.text, w.caps, FALSE, FALSE)
Stripped(words) == [i \in DOMAIN words |-> Strip(words[i])]

\* Python's sorted(set(...)): each value once, in an order of the values alone.
Sorted(values) == SetToSeq(values)
Take(list, n)  == SubSeq(list, 1, IF Len(list) < n THEN Len(list) ELSE n)

-----------------------------------------------------------------------------
(* Host names                                                              *)

Under(name, domain) ==
  /\ Len(name) > Len(domain)
  /\ SubSeq(name, Len(name) - Len(domain) + 1, Len(name)) = domain

\* lstrip("*."): all leading wildcard labels go.
StripWildcards(name) ==
  LET kept == {i \in DOMAIN name : name[i] # star}
  IN  IF kept = {} THEN <<>>
      ELSE SubSeq(name, CHOOSE i \in kept : \A j \in kept : i <= j, Len(name))

-----------------------------------------------------------------------------
(* DNSModule                                                               *)

\* A query that times out, fails, or has a status other than 200 is the same as
\* one without answers, and leaves no error.
Answers(outcome) == IF outcome = Failed THEN <<>> ELSE Stripped(outcome)

RecordFindings(domain, outcomes) ==
  FlattenSeq([i \in DOMAIN RecordTypes |->
    LET type == RecordTypes[i] IN
    [j \in DOMAIN Answers(outcomes[type]) |->
       Finding("dns_record",
               [name |-> domain, record |-> type, data |-> Answers(outcomes[type])[j]])]])

\* Faulty variant: names of other domains on a certificate are kept.
CertifiedNamesOfAll(domain, names) ==
  {StripWildcards(n) : n \in names} \ {domain, <<>>}
\* The names on certificates that are below the domain.
CertifiedNames(domain, names) ==
  {n \in {StripWildcards(m) : m \in names} : Under(n, domain)}

\* The certificate log fails like a query; an answer that is no list of objects
\* raises, which the gather turns into an error beside the records.
SubdomainFindings(domain, log) ==
  IF log \in {Failed, Malformed} THEN <<>>
  ELSE Findings("subdomain", Take(Sorted(CertifiedNames(domain, log)), MaxSubdomains))

DnsExecute(domain, outcomes, log) ==
  Result(RecordFindings(domain, outcomes) \o SubdomainFindings(domain, log),
         IF log = Malformed THEN {"crt.sh query failed"} ELSE {})

-----------------------------------------------------------------------------
(* RDAPModule                                                              *)

\* What an answer holds of a datum the module takes one of.
AtMostOne(type, words) == IF words = <<>> THEN <<>> ELSE <<Finding(type, words[1])>>

\* Faulty variant: nameservers are reported as listed.
NameserversListed(listed) == listed
Nameservers(listed)       == Sorted({listed[i] : i \in DOMAIN listed})

RdapExecute(answer) ==
  CASE answer = Failed    -> Result(<<>>, {"RDAP lookup failed"})
    [] answer = Malformed -> Raises
    [] OTHER -> Result(AtMostOne("registrar", Stripped(answer.registrars))
                       \o Findings("nameserver", Nameservers(answer.nameservers))
                       \o Findings("domain_status", Sorted(answer.statuses))
                       \o AtMostOne("expiry_date", answer.expiries), {})

-----------------------------------------------------------------------------
(* SherlockModule                                                          *)

\* The hits among the lines of the tool's output; a line is Noise, or Malformed when
\* it starts like a hit but lacks its site or URL.
parse_sherlock_file(lines) ==
  FlattenSeq([i \in DOMAIN lines |-> IF lines[i] = Noise THEN <<>> ELSE <<lines[i]>>])

\* Failed: the tool could not be run, or gave an exit code.
SherlockExecute(output) ==
  IF output = Failed THEN Result(<<>>, {"sherlock-rs failed"})
  ELSE IF \E i \in DOMAIN output : output[i] = Malformed THEN Raises
  ELSE Result(Findings("social_account", parse_sherlock_file(output)), {})

-----------------------------------------------------------------------------
(* normalize_finding_value: the key under which a finding is deduplicated.  *)
(* The modules make host names canonical themselves.  A profile is the       *)
(* scheme and host of its URL as a word, the path, the query, whether a      *)
(* slash ends the path, and the fragment.                                    *)

DedupKey(f) ==
  [type |-> f.type,
   value |->
     CASE f.type \in {"subdomain", "nameserver"} -> f.value
       [] f.type = "dns_record" ->
            [name |-> f.value.name, record |-> f.value.record,
             data |-> Collapse(Lower(f.value.data))]
       [] f.type = "social_account" ->
            [host |-> Lower(f.value.host), path |-> f.value.path, query |-> f.value.query]
       [] OTHER -> Strip(Lower(f.value))]
=============================================================================
