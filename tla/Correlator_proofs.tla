-------------------------- MODULE Correlator_proofs --------------------------
(***************************************************************************)
(* Proofs about the correlation rules, for any list of any findings: what   *)
(* they propose is explained by its findings, is exactly what the           *)
(* definition without indexes expects, and does not depend on repetitions.  *)
(***************************************************************************)
EXTENDS Correlator, TLAPS, WellFoundedInduction, SequenceTheorems

-----------------------------------------------------------------------------
\* A nonempty set of naturals has a least element.
LEMMA LeastNatural ==
  ASSUME NEW S, S \subseteq Nat, S # {}
  PROVE  \E i \in S : \A j \in S : i <= j
<1>1. PICK i \in S : \A j \in S : ~(<<j, i>> \in OpToRel(<, Nat))
  BY NatLessThanWellFounded, WFMin
<1>2. \A j \in S : ~(j < i)
  BY <1>1 DEF OpToRel
<1> QED
  BY <1>2

\* A nonempty set of naturals with an upper bound has a greatest element.
LEMMA GreatestNatural ==
  ASSUME NEW n \in Nat, NEW S, S \subseteq 1 .. n, S # {}
  PROVE  \E i \in S : \A j \in S : j <= i
<1> DEFINE T == {m \in Nat : \E i \in S : m = n - i}
<1>1. T \subseteq Nat /\ T # {}
  <2>1. PICK i \in S : TRUE
    OBVIOUS
  <2>2. n - i \in T
    BY <2>1
  <2> QED
    BY <2>2
<1>2. PICK d \in T : \A e \in T : d <= e
  BY <1>1, LeastNatural
<1>3. PICK i \in S : d = n - i
  OBVIOUS
<1>4. \A j \in S : j <= i
  <2> TAKE j \in S
  <2>1. n - j \in T
    OBVIOUS
  <2>2. n - i <= n - j
    BY <1>2, <1>3, <2>1
  <2> QED
    BY <2>2
<1> QED
  BY <1>4

-----------------------------------------------------------------------------
\* An index entry is a listed finding with the name it is filed under.
LEMMA EntryFound ==
  ASSUME NEW fs \in Seq(FindingIds), NEW types, NEW name, Has(fs, types, name)
  PROVE  /\ Entry(fs, types, name) \in Listed(fs)
         /\ Info[Entry(fs, types, name)].type \in types
         /\ Info[Entry(fs, types, name)].name = name
<1> DEFINE P == Positions(fs, types, name)
<1>1. P \subseteq 1 .. Len(fs) /\ P # {} /\ Len(fs) \in Nat
  BY DEF Positions, Has
<1>2. \E i \in P : \A j \in P : j <= i
  <2> HIDE DEF P
  <2> QED
    BY <1>1, GreatestNatural
<1>3. (CHOOSE i \in P : \A j \in P : j <= i) \in P
  BY <1>2
<1> QED
  BY <1>3 DEF Entry, Positions, Listed

LEMMA ListedAreFindings ==
  ASSUME NEW fs \in Seq(FindingIds)
  PROVE  /\ Listed(fs) \subseteq FindingIds
         /\ \A type : OfType(fs, type) \subseteq Listed(fs)
         /\ \A f \in AddressRecords(fs) : f \in Listed(fs) /\ IsAddressRecord(Info[f])
  BY DEF Listed, OfType, AddressRecords, IsAddressRecord

LEMMA ListedConcat ==
  ASSUME NEW S, NEW s \in Seq(S), NEW u \in Seq(S)
  PROVE  s \o u \in Seq(S) /\ Listed(s \o u) = Listed(s) \cup Listed(u)
<1>1. /\ s \o u \in Seq(S) /\ Len(s \o u) = Len(s) + Len(u)
      /\ \A i \in 1 .. Len(s) + Len(u) :
           (s \o u)[i] = IF i <= Len(s) THEN s[i] ELSE u[i - Len(s)]
  BY ConcatProperties
<1>2. DOMAIN s = 1 .. Len(s) /\ DOMAIN u = 1 .. Len(u) /\ DOMAIN (s \o u) = 1 .. Len(s \o u)
      /\ Len(s) \in Nat /\ Len(u) \in Nat
  BY <1>1
<1> DEFINE c == s \o u
<1> HIDE DEF c
<1>3. Listed(c) \subseteq Listed(s) \cup Listed(u)
  <2> SUFFICES ASSUME NEW i \in 1 .. Len(s) + Len(u)
               PROVE  c[i] \in Listed(s) \cup Listed(u)
    BY <1>1, <1>2 DEF Listed, c
  <2>1. CASE i <= Len(s)
    BY <1>1, <1>2, <2>1 DEF Listed, c
  <2>2. CASE ~(i <= Len(s))
    <3>1. i - Len(s) \in 1 .. Len(u) /\ c[i] = u[i - Len(s)]
      BY <1>1, <1>2, <2>2 DEF c
    <3> QED
      BY <1>2, <3>1 DEF Listed
  <2> QED
    BY <2>1, <2>2
<1>4. Listed(s) \subseteq Listed(c)
  <2> SUFFICES ASSUME NEW i \in 1 .. Len(s) PROVE s[i] \in Listed(c)
    BY <1>2 DEF Listed
  <2>1. i \in 1 .. Len(s) + Len(u) /\ c[i] = s[i]
    BY <1>1, <1>2 DEF c
  <2> QED
    BY <1>1, <1>2, <2>1 DEF Listed, c
<1>5. Listed(u) \subseteq Listed(c)
  <2> SUFFICES ASSUME NEW i \in 1 .. Len(u) PROVE u[i] \in Listed(c)
    BY <1>2 DEF Listed
  <2>1. i + Len(s) \in 1 .. Len(s) + Len(u) /\ ~(i + Len(s) <= Len(s)) /\ i + Len(s) - Len(s) = i
    BY <1>2
  <2>2. c[i + Len(s)] = u[i]
    BY <1>1, <2>1 DEF c
  <2> QED
    BY <1>1, <1>2, <2>1, <2>2 DEF Listed, c
<1> QED
  BY <1>1, <1>3, <1>4, <1>5 DEF c

LEMMA ResolvesToExplained ==
  ASSUME NEW fs \in Seq(FindingIds), NEW k \in ResolvesTo(fs)
  PROVE  Explains(k) /\ {k.source, k.target} \subseteq Listed(fs) /\ k.type = "RESOLVES_TO"
<1>1. PICK f \in AddressRecords(fs) :
        /\ Has(fs, {"ip_address"}, Info[f].ip)
        /\ k = Key(f, Entry(fs, {"ip_address"}, Info[f].ip), "RESOLVES_TO")
  BY DEF ResolvesTo
<1>2. /\ Entry(fs, {"ip_address"}, Info[f].ip) \in Listed(fs)
      /\ Info[Entry(fs, {"ip_address"}, Info[f].ip)].type = "ip_address"
      /\ Info[Entry(fs, {"ip_address"}, Info[f].ip)].name = Info[f].ip
  BY <1>1, EntryFound
<1> QED
  BY <1>1, <1>2, ListedAreFindings DEF Explains, Key

LEMMA FoundOnExplained ==
  ASSUME NEW fs \in Seq(FindingIds), NEW k \in FoundOn(fs)
  PROVE  Explains(k) /\ {k.source, k.target} \subseteq Listed(fs) /\ k.type = "FOUND_ON"
<1>1. PICK f \in OfType(fs, "social_account") :
        /\ Has(fs, HostTypes, Info[f].name)
        /\ k = Key(f, Entry(fs, HostTypes, Info[f].name), "FOUND_ON")
  BY DEF FoundOn
<1>2. /\ Entry(fs, HostTypes, Info[f].name) \in Listed(fs)
      /\ Info[Entry(fs, HostTypes, Info[f].name)].type \in HostTypes
      /\ Info[Entry(fs, HostTypes, Info[f].name)].name = Info[f].name
  BY <1>1, EntryFound
<1> QED
  BY <1>1, <1>2, ListedAreFindings DEF Explains, Key, OfType

LEMMA SharesIpExplained ==
  ASSUME NEW fs \in Seq(FindingIds), NEW k \in SharesIp(fs)
  PROVE  Explains(k) /\ {k.source, k.target} \subseteq Listed(fs) /\ k.type = "SHARES_IP"
<1>1. PICK f \in AddressRecords(fs), g \in AddressRecords(fs) :
        Info[f].ip = Info[g].ip /\ f # g /\ k = Key(f, g, "SHARES_IP")
  BY DEF SharesIp
<1> QED
  BY <1>1, ListedAreFindings DEF Explains, Key

LEMMA SubdomainOfExplained ==
  ASSUME NEW fs \in Seq(FindingIds), NEW k \in SubdomainOf(fs)
  PROVE  Explains(k) /\ {k.source, k.target} \subseteq Listed(fs) /\ k.type = "SUBDOMAIN_OF"
<1>1. PICK f \in OfType(fs, "subdomain") :
        ParentDepths(fs, f) # {} /\ k = Key(f, Parent(fs, f), "SUBDOMAIN_OF")
  BY DEF SubdomainOf
<1>2. f \in FindingIds /\ f \in Listed(fs) /\ Info[f].type = "subdomain"
  BY ListedAreFindings DEF OfType
<1> DEFINE D == ParentDepths(fs, f)
           d == CHOOSE i \in D : \A j \in D : i <= j
<1>3. d \in D
  <2>1. Len(Info[f].name) \in Nat
    BY <1>2, NamesAssumption DEF FindingIds
  <2>2. D \subseteq Nat /\ D # {}
    BY <1>1, <2>1 DEF ParentDepths
  <2> HIDE DEF D
  <2> QED
    BY <2>2, LeastNatural
<1>4. ParentName(fs, f) = Suffix(Info[f].name, d)
  BY DEF ParentName
<1>5. /\ Has(fs, {"domain", "dns_record"}, ParentName(fs, f))
      /\ Extends(Info[f].name, ParentName(fs, f))
  BY <1>3, <1>4 DEF ParentDepths, Extends, Suffix
<1>6. /\ Parent(fs, f) \in Listed(fs)
      /\ Info[Parent(fs, f)].type \in Parents
      /\ Info[Parent(fs, f)].name = ParentName(fs, f)
  <2>1. CASE Has(fs, {"domain"}, ParentName(fs, f))
    BY <2>1, EntryFound DEF Parent, Parents
  <2>2. CASE ~Has(fs, {"domain"}, ParentName(fs, f))
    <3>1. Has(fs, {"dns_record"}, ParentName(fs, f))
      BY <1>5, <2>2 DEF Has, Positions
    <3> QED
      BY <2>2, <3>1, EntryFound DEF Parent, Parents
  <2> QED
    BY <2>1, <2>2
<1> QED
  BY <1>1, <1>2, <1>5, <1>6 DEF Explains, Key

\* Whatever the list, every proposal relates two listed findings that explain it.
THEOREM RulesExplained ==
  ASSUME NEW fs \in Seq(FindingIds), NEW k \in run_all_rules(fs)
  PROVE  /\ k \in Keys /\ Explains(k)
         /\ {k.source, k.target} \subseteq Listed(fs)
<1>1. Explains(k) /\ {k.source, k.target} \subseteq Listed(fs) /\ k.type \in RelationTypes
  BY ResolvesToExplained, FoundOnExplained, SharesIpExplained, SubdomainOfExplained
  DEF run_all_rules, RelationTypes
<1>2. \E f, g, t : k = [source |-> f, target |-> g, type |-> t]
  BY DEF run_all_rules, ResolvesTo, SubdomainOf, FoundOn, SharesIp, Key
<1> QED
  BY <1>1, <1>2, ListedAreFindings DEF Keys

\* Nothing is proposed about no findings.
LEMMA NoFindingsNoProposals == run_all_rules(<<>>) = {}
<1>1. Listed(<<>>) = {}
  BY DEF Listed
<1> QED
  BY <1>1 DEF run_all_rules, ResolvesTo, SubdomainOf, FoundOn, SharesIp, OfType, AddressRecords

-----------------------------------------------------------------------------
\* Every listed finding has a first position.
LEMMA FirstPosition ==
  ASSUME NEW fs \in Seq(FindingIds), NEW f \in Listed(fs)
  PROVE  /\ FirstAt(fs, f) \in DOMAIN fs /\ fs[FirstAt(fs, f)] = f
         /\ \A i \in DOMAIN fs : fs[i] = f => FirstAt(fs, f) <= i
<1> DEFINE P == {i \in DOMAIN fs : fs[i] = f}
<1>1. DOMAIN fs = 1 .. Len(fs) /\ Len(fs) \in Nat /\ P \subseteq Nat /\ P # {}
  BY DEF Listed
<1>2. PICK i \in P : \A j \in P : i <= j
  <2> HIDE DEF P
  <2> QED  BY <1>1, LeastNatural
<1>3. i \in DOMAIN fs /\ fs[i] = f /\ \A j \in 1 .. i - 1 : fs[j] # f
  <2> SUFFICES ASSUME NEW j \in 1 .. i - 1, fs[j] = f PROVE FALSE
    OBVIOUS
  <2>1. j \in P /\ j < i
    BY <1>1
  <2> QED  BY <1>1, <1>2, <2>1
<1>4. FirstAt(fs, f) \in DOMAIN fs /\ fs[FirstAt(fs, f)] = f
      /\ \A j \in 1 .. FirstAt(fs, f) - 1 : fs[j] # f
  BY <1>3 DEF FirstAt
<1> HIDE DEF P
<1> QED  BY <1>1, <1>4

\* What an index holds under a name is the last finding of that name.
LEMMA EntryIsLatest ==
  ASSUME NEW fs \in Seq(FindingIds), NEW types, NEW name, NEW g
  PROVE  Has(fs, types, name) /\ g = Entry(fs, types, name)
         <=> /\ g \in Listed(fs) /\ Info[g].type \in types /\ Info[g].name = name
             /\ Latest(fs, g, types)
<1> DEFINE P == Positions(fs, types, name)
<1>1. P \subseteq 1 .. Len(fs) /\ Len(fs) \in Nat /\ DOMAIN fs = 1 .. Len(fs)
  BY DEF Positions
<1>2. ASSUME NEW i \in P, \A j \in P : j <= i
      PROVE  Has(fs, types, name) /\ Entry(fs, types, name) = fs[i]
  <2>1. \A k \in P : (\A j \in P : j <= k) => k = i
    <3> HIDE DEF P
    <3> QED  BY <1>1, <1>2
  <2>2. (CHOOSE k \in P : \A j \in P : j <= k) = i
    <3> HIDE DEF P
    <3> QED  BY <1>2, <2>1
  <2> QED  BY <2>2 DEF Entry, Has
<1>3. ASSUME Has(fs, types, name)
      PROVE  \E i \in P : \A j \in P : j <= i
  <2>1. P # {}
    BY <1>3 DEF Has
  <2> HIDE DEF P
  <2> QED  BY <1>1, <2>1, GreatestNatural
<1>4. ASSUME Has(fs, types, name), g = Entry(fs, types, name)
      PROVE  /\ g \in Listed(fs) /\ Info[g].type \in types /\ Info[g].name = name
             /\ Latest(fs, g, types)
  <2>1. PICK i \in P : \A j \in P : j <= i
    BY <1>3, <1>4
  <2>2. g = fs[i] /\ i \in DOMAIN fs /\ Info[g].type \in types /\ Info[g].name = name
    BY <1>2, <1>4, <2>1 DEF Positions
  <2>3. ASSUME NEW j \in i + 1 .. Len(fs), Info[fs[j]].type \in types,
               Info[fs[j]].name = Info[g].name
        PROVE  FALSE
    <3>1. j \in DOMAIN fs /\ ~(j <= i)
      BY <1>1
    <3>2. j \in P
      BY <2>2, <2>3, <3>1 DEF Positions
    <3> QED  BY <2>1, <3>1, <3>2
  <2> QED  BY <2>2, <2>3 DEF Latest, Listed
<1>5. ASSUME g \in Listed(fs), Info[g].type \in types, Info[g].name = name, Latest(fs, g, types)
      PROVE  Has(fs, types, name) /\ g = Entry(fs, types, name)
  <2>1. PICK i \in DOMAIN fs :
          fs[i] = g /\ \A j \in i + 1 .. Len(fs) :
                         Info[fs[j]].type \in types => Info[fs[j]].name # Info[g].name
    BY <1>5 DEF Latest
  <2>2. i \in P
    BY <1>5, <2>1 DEF Positions
  <2>3. ASSUME NEW j \in P
        PROVE  j <= i
    <3>1. j \in 1 .. Len(fs) /\ Info[fs[j]].type \in types /\ Info[fs[j]].name = Info[g].name
      BY <1>1, <1>5 DEF Positions
    <3>2. j \notin i + 1 .. Len(fs)
      BY <2>1, <3>1
    <3> QED  BY <1>1, <2>1, <3>1, <3>2
  <2> QED  BY <1>2, <2>1, <2>2, <2>3
<1> QED  BY <1>4, <1>5

-----------------------------------------------------------------------------
\* Rules 1 and 3 propose what is expected of them.
LEMMA ResolvesToExpected ==
  ASSUME NEW fs \in Seq(FindingIds), NEW k \in [source : Listed(fs), target : Listed(fs), type : {"RESOLVES_TO"}]
  PROVE  k \in ResolvesTo(fs) <=> Explains(k) /\ Chosen(fs, k)
<1> DEFINE f == k.source
           g == k.target
           T == {"ip_address"}
<1>1. k = Key(f, g, "RESOLVES_TO") /\ f \in Listed(fs) /\ g \in Listed(fs)
  BY DEF Key
<1>2. k \in ResolvesTo(fs)
      <=> /\ f \in AddressRecords(fs) /\ Has(fs, T, Info[f].ip)
          /\ g = Entry(fs, T, Info[f].ip)
  BY <1>1 DEF ResolvesTo, Key
<1>3. f \in AddressRecords(fs) <=> IsAddressRecord(Info[f])
  BY <1>1 DEF AddressRecords, OfType, IsAddressRecord
<1>4. Has(fs, T, Info[f].ip) /\ g = Entry(fs, T, Info[f].ip)
      <=> Info[g].type \in T /\ Info[g].name = Info[f].ip /\ Latest(fs, g, T)
  <2> HIDE DEF T
  <2> QED  BY <1>1, EntryIsLatest
<1> QED  BY <1>2, <1>3, <1>4 DEF Explains, Chosen

LEMMA FoundOnExpected ==
  ASSUME NEW fs \in Seq(FindingIds), NEW k \in [source : Listed(fs), target : Listed(fs), type : {"FOUND_ON"}]
  PROVE  k \in FoundOn(fs) <=> Explains(k) /\ Chosen(fs, k)
<1> DEFINE f == k.source
           g == k.target
<1>1. k = Key(f, g, "FOUND_ON") /\ f \in Listed(fs) /\ g \in Listed(fs)
  BY DEF Key
<1>2. k \in FoundOn(fs)
      <=> /\ f \in OfType(fs, "social_account") /\ Has(fs, HostTypes, Info[f].name)
          /\ g = Entry(fs, HostTypes, Info[f].name)
  BY <1>1 DEF FoundOn, Key
<1>3. f \in OfType(fs, "social_account") <=> Info[f].type = "social_account"
  BY <1>1 DEF OfType
<1>4. Has(fs, HostTypes, Info[f].name) /\ g = Entry(fs, HostTypes, Info[f].name)
      <=> Info[g].type \in HostTypes /\ Info[g].name = Info[f].name /\ Latest(fs, g, HostTypes)
  BY <1>1, EntryIsLatest
<1> QED  BY <1>2, <1>3, <1>4 DEF Explains, Chosen

LEMMA InPrefix ==
  ASSUME NEW fs \in Seq(FindingIds), NEW g, NEW i \in DOMAIN fs
  PROVE  g \in Listed(SubSeq(fs, 1, i)) <=> \E j \in 1 .. i : fs[j] = g
<1> DEFINE before == SubSeq(fs, 1, i)
<1>1. DOMAIN fs = 1 .. Len(fs) /\ Len(fs) \in Nat
  OBVIOUS
<1>2. Len(before) = i /\ before \in Seq(FindingIds) /\ \A j \in 1 .. i : before[j] = fs[j]
  BY <1>1, SubSeqProperties
<1> HIDE DEF before
<1>3. DOMAIN before = 1 .. i
  BY <1>2
<1>4. g \in Listed(before) <=> \E j \in 1 .. i : before[j] = g
  BY <1>3 DEF Listed
<1> QED  BY <1>2, <1>4 DEF before

\* Rule 4: which of two records comes first can be seen in some prefix of the list.
LEMMA SharesIpExpected ==
  ASSUME NEW fs \in Seq(FindingIds), NEW k \in [source : Listed(fs), target : Listed(fs), type : {"SHARES_IP"}]
  PROVE  k \in SharesIp(fs) <=> Explains(k) /\ Chosen(fs, k)
<1> DEFINE f == k.source
           g == k.target
<1>1. k = Key(f, g, "SHARES_IP") /\ f \in Listed(fs) /\ g \in Listed(fs)
  BY DEF Key
<1>2. k \in SharesIp(fs)
      <=> /\ f \in AddressRecords(fs) /\ g \in AddressRecords(fs)
          /\ Info[f].ip = Info[g].ip /\ f # g /\ Before(fs, f, g)
  <2>1. ASSUME k \in SharesIp(fs)
        PROVE  \E q \in AddressRecords(fs) \X AddressRecords(fs) :
                 /\ Info[q[1]].ip = Info[q[2]].ip /\ q[1] # q[2] /\ Before(fs, q[1], q[2])
                 /\ f = q[1] /\ g = q[2]
    BY <2>1 DEF SharesIp, Key
  <2>2. ASSUME f \in AddressRecords(fs), g \in AddressRecords(fs), Info[f].ip = Info[g].ip,
               f # g, Before(fs, f, g)
        PROVE  k \in SharesIp(fs)
    <3> DEFINE q == <<f, g>>
    <3>1. q \in AddressRecords(fs) \X AddressRecords(fs) /\ q[1] = f /\ q[2] = g
      BY <2>2
    <3> HIDE DEF q
    <3> QED  BY <1>1, <2>2, <3>1 DEF SharesIp
  <2> QED  BY <2>1, <2>2
<1>3. \A h \in {f, g} : h \in AddressRecords(fs) <=> IsAddressRecord(Info[h])
  BY <1>1 DEF AddressRecords, OfType, IsAddressRecord
<1>4. Before(fs, f, g) <=> \E i \in DOMAIN fs : fs[i] = f /\ g \notin Listed(SubSeq(fs, 1, i))
  <2>1. DOMAIN fs = 1 .. Len(fs) /\ Len(fs) \in Nat
    OBVIOUS
  <2>2. \A i \in DOMAIN fs : g \in Listed(SubSeq(fs, 1, i)) <=> \E j \in 1 .. i : fs[j] = g
    BY InPrefix
  <2>3. /\ FirstAt(fs, f) \in DOMAIN fs /\ fs[FirstAt(fs, f)] = f
        /\ \A i \in DOMAIN fs : fs[i] = f => FirstAt(fs, f) <= i
        /\ FirstAt(fs, g) \in DOMAIN fs /\ fs[FirstAt(fs, g)] = g
        /\ \A i \in DOMAIN fs : fs[i] = g => FirstAt(fs, g) <= i
    BY <1>1, FirstPosition
  <2>4. ASSUME Before(fs, f, g)
        PROVE  \E i \in DOMAIN fs : fs[i] = f /\ g \notin Listed(SubSeq(fs, 1, i))
    BY <2>1, <2>2, <2>3, <2>4 DEF Before
  <2>5. ASSUME NEW i \in DOMAIN fs, fs[i] = f, g \notin Listed(SubSeq(fs, 1, i))
        PROVE  Before(fs, f, g)
    BY <2>1, <2>2, <2>3, <2>5 DEF Before
  <2> QED  BY <2>4, <2>5
<1> QED  BY <1>2, <1>3, <1>4 DEF Explains, Chosen

-----------------------------------------------------------------------------
\* The proper suffixes of a name.
LEMMA SuffixOfSuffix ==
  ASSUME NEW S, NEW name \in Seq(S)
  PROVE  /\ Len(name) \in Nat
         /\ \A i \in 1 .. Len(name) - 2 : Len(Suffix(name, i)) = Len(name) - i
         /\ \A i, j \in 1 .. Len(name) - 2 : Suffix(name, i) = Suffix(name, j) => i = j
<1>1. Len(name) \in Nat
  OBVIOUS
<1>2. ASSUME NEW i \in 1 .. Len(name) - 2
      PROVE  Len(Suffix(name, i)) = Len(name) - i
  <2>1. i + 1 \in Int /\ Len(name) \in Int /\ i + 1 <= Len(name)
        /\ \A j \in i + 1 .. Len(name) : name[j] \in S
    BY <1>1
  <2>2. Len(SubSeq(name, i + 1, Len(name))) = Len(name) - (i + 1) + 1
    BY <2>1, SubSeqProperties
  <2> QED  BY <1>1, <2>2 DEF Suffix
<1>3. ASSUME NEW i \in 1 .. Len(name) - 2, NEW j \in 1 .. Len(name) - 2,
             Suffix(name, i) = Suffix(name, j)
      PROVE  i = j
  <2>1. Len(name) - i = Len(name) - j
    BY <1>2, <1>3
  <2> QED  BY <1>1, <2>1
<1> QED  BY <1>1, <1>2, <1>3

\* Rule 2: the parent is the last finding of the longest suffix that has one, and a
\* domain if that suffix has one.
LEMMA SubdomainOfExpected ==
  ASSUME NEW fs \in Seq(FindingIds), NEW k \in [source : Listed(fs), target : Listed(fs), type : {"SUBDOMAIN_OF"}]
  PROVE  k \in SubdomainOf(fs) <=> Explains(k) /\ Chosen(fs, k)
<1> DEFINE f == k.source
           g == k.target
           name == Info[f].name
           D == ParentDepths(fs, f)
<1>1. /\ k = Key(f, g, "SUBDOMAIN_OF") /\ k.type = "SUBDOMAIN_OF"
      /\ f \in Listed(fs) /\ g \in Listed(fs) /\ f \in FindingIds
  BY DEF Key, Listed
<1>2. k \in SubdomainOf(fs) <=> Info[f].type = "subdomain" /\ D # {} /\ g = Parent(fs, f)
  BY <1>1 DEF SubdomainOf, OfType, Key
<1> SUFFICES ASSUME Info[f].type = "subdomain"
             PROVE  D # {} /\ g = Parent(fs, f) <=> Explains(k) /\ Chosen(fs, k)
  BY <1>1, <1>2 DEF Explains
<1>3. /\ Len(name) \in Nat
      /\ \A i \in 1 .. Len(name) - 2 : Len(Suffix(name, i)) = Len(name) - i
  BY <1>1, NamesAssumption, SuffixOfSuffix
<1>4. \A i : i \in D <=> i \in 1 .. Len(name) - 2 /\ Has(fs, Parents, Suffix(name, i))
  BY DEF ParentDepths, Parents
<1>5. \A n : Extends(name, n) <=> \E i \in 1 .. Len(name) - 2 : n = Suffix(name, i)
  BY DEF Extends, Suffix
<1>6. \A types, n : Has(fs, types, n) <=> \E h \in Listed(fs) : Info[h].type \in types /\ Info[h].name = n
  BY DEF Has, Positions, Listed
<1> DEFINE d == CHOOSE i \in D : \A j \in D : i <= j
<1>7. D # {} => d \in D /\ \A j \in D : d <= j
  <2>1. D \subseteq Nat
    BY <1>3, <1>4
  <2> HIDE DEF D
  <2> QED  BY <2>1, LeastNatural
<1>8. ParentName(fs, f) = Suffix(name, d)
  BY DEF ParentName
<1> DEFINE T == IF Has(fs, {"domain"}, Suffix(name, d)) THEN {"domain"} ELSE {"dns_record"}
<1>9. Parent(fs, f) = Entry(fs, T, Suffix(name, d))
  BY <1>8 DEF Parent
<1>10. D # {} => Has(fs, T, Suffix(name, d))
  <2> SUFFICES ASSUME D # {}, ~Has(fs, {"domain"}, Suffix(name, d))
               PROVE  Has(fs, {"dns_record"}, Suffix(name, d))
    OBVIOUS
  <2>1. Has(fs, Parents, Suffix(name, d))
    BY <1>4, <1>7
  <2> QED  BY <1>6, <2>1 DEF Parents
<1>11. Has(fs, T, Suffix(name, d)) /\ g = Entry(fs, T, Suffix(name, d))
       <=> Info[g].type \in T /\ Info[g].name = Suffix(name, d) /\ Latest(fs, g, T)
  <2> HIDE DEF T, d, name
  <2> QED  BY <1>1, EntryIsLatest
<1> HIDE DEF D, d, name, f, g
<1>12. ASSUME D # {}, g = Parent(fs, f)
       PROVE  Explains(k) /\ Chosen(fs, k)
  <2>1. Info[g].type \in T /\ Info[g].name = Suffix(name, d) /\ Latest(fs, g, T)
    BY <1>9, <1>10, <1>11, <1>12
  <2>2. T = {Info[g].type} /\ Info[g].type \in Parents
    BY <2>1 DEF Parents
  <2>3. d \in 1 .. Len(name) - 2 /\ Extends(name, Info[g].name)
    BY <1>4, <1>5, <1>7, <1>12, <2>1
  <2>4. ASSUME NEW h \in Listed(fs), Info[h].type \in Parents, Extends(name, Info[h].name)
        PROVE  \/ Len(Info[h].name) < Len(Info[g].name)
               \/ Info[h].name = Info[g].name /\ (Info[h].type = "domain" => Info[g].type = "domain")
    <3>1. PICK i \in 1 .. Len(name) - 2 : Info[h].name = Suffix(name, i)
      BY <1>5, <2>4
    <3>2. i \in D
      BY <1>4, <1>6, <2>4, <3>1
    <3>3. CASE i = d
      <4>1. ASSUME Info[h].type = "domain" PROVE Info[g].type = "domain"
        <5>1. Has(fs, {"domain"}, Suffix(name, d))
          BY <1>6, <3>1, <3>3, <4>1
        <5> QED  BY <2>1, <5>1
      <4> QED  BY <2>1, <3>1, <3>3, <4>1
    <3>4. CASE i # d
      <4>1. d < i /\ Len(Info[h].name) = Len(name) - i /\ Len(Info[g].name) = Len(name) - d
        BY <1>3, <1>7, <1>12, <2>1, <2>3, <3>1, <3>2, <3>4
      <4> QED  BY <1>3, <2>3, <4>1
    <3> QED  BY <3>3, <3>4
  <2>5. Explains(k)
    BY <1>1, <2>2, <2>3 DEF Explains, f, g, name
  <2>6. Chosen(fs, k)
    BY <1>1, <2>1, <2>2, <2>4 DEF Chosen, f, g, name
  <2> QED  BY <2>5, <2>6
<1>13. ASSUME Explains(k), Chosen(fs, k)
       PROVE  D # {} /\ g = Parent(fs, f)
  <2>1. Info[g].type \in Parents /\ Extends(name, Info[g].name)
    BY <1>1, <1>13 DEF Explains, f, g, name
  <2>2. /\ Latest(fs, g, {Info[g].type})
        /\ \A h \in Listed(fs) : Info[h].type \in Parents /\ Extends(name, Info[h].name)
             => \/ Len(Info[h].name) < Len(Info[g].name)
                \/ Info[h].name = Info[g].name /\ (Info[h].type = "domain" => Info[g].type = "domain")
    BY <1>1, <1>13 DEF Chosen, f, g, name
  <2>3. PICK i \in 1 .. Len(name) - 2 : Info[g].name = Suffix(name, i)
    BY <1>5, <2>1
  <2>4. i \in D /\ D # {}
    BY <1>1, <1>4, <1>6, <2>1, <2>3
  <2>5. d \in D /\ d <= i /\ d \in 1 .. Len(name) - 2
    BY <1>4, <1>7, <2>4
  <2>6. PICK h \in Listed(fs) : Info[h].type \in Parents /\ Info[h].name = Suffix(name, d)
    BY <1>4, <1>6, <2>5
  <2>7. ~(Len(Info[h].name) < Len(Info[g].name))
    BY <1>3, <2>3, <2>5, <2>6
  <2>8. Info[g].name = Suffix(name, d)
    BY <1>5, <2>2, <2>5, <2>6, <2>7
  <2>9. ~(Len(Info[g].name) < Len(Info[g].name))
    BY <1>3, <2>5, <2>8
  <2>10. Has(fs, {"domain"}, Suffix(name, d)) => Info[g].type = "domain"
    <3> SUFFICES ASSUME NEW e \in Listed(fs), Info[e].type = "domain", Info[e].name = Suffix(name, d)
                 PROVE  Info[g].type = "domain"
      BY <1>6
    <3>1. Info[e].type \in Parents /\ Extends(name, Info[e].name)
      BY <1>5, <2>5 DEF Parents
    <3> QED  BY <2>2, <2>8, <2>9, <3>1
  <2>11. ~Has(fs, {"domain"}, Suffix(name, d)) => Info[g].type = "dns_record"
    BY <1>1, <1>6, <2>1, <2>8 DEF Parents
  <2>12. T = {Info[g].type}
    BY <2>10, <2>11
  <2>13. g = Entry(fs, T, Suffix(name, d))
    BY <1>11, <2>2, <2>8, <2>12
  <2> QED  BY <1>9, <2>4, <2>13
<1> QED  BY <1>12, <1>13

\* The rules propose exactly the explained relations that the choices among equal
\* names, nested parents and the two directions of a pair leave, for every list.
THEOREM RulesAsExpected ==
  ASSUME NEW fs \in Seq(FindingIds)
  PROVE  run_all_rules(fs) = Expected(fs)
<1>1. ASSUME NEW k \in run_all_rules(fs)
      PROVE  k \in Expected(fs)
  <2>1. /\ k \in Keys /\ k.source \in Listed(fs) /\ k.target \in Listed(fs)
    BY RulesExplained
  <2>2. k \in [source : Listed(fs), target : Listed(fs), type : {k.type}]
        /\ k \in [source : Listed(fs), target : Listed(fs), type : RelationTypes]
    BY <2>1 DEF Keys
  <2>3. \/ k \in ResolvesTo(fs) /\ k.type = "RESOLVES_TO"
        \/ k \in SubdomainOf(fs) /\ k.type = "SUBDOMAIN_OF"
        \/ k \in FoundOn(fs) /\ k.type = "FOUND_ON"
        \/ k \in SharesIp(fs) /\ k.type = "SHARES_IP"
    BY ResolvesToExplained, FoundOnExplained, SharesIpExplained, SubdomainOfExplained
    DEF run_all_rules
  <2>4. Explains(k) /\ Chosen(fs, k)
    BY <2>2, <2>3, ResolvesToExpected, FoundOnExpected, SharesIpExpected, SubdomainOfExpected
  <2> QED  BY <2>2, <2>4 DEF Expected
<1>2. ASSUME NEW k \in Expected(fs)
      PROVE  k \in run_all_rules(fs)
  <2>1. /\ k \in [source : Listed(fs), target : Listed(fs), type : {k.type}]
        /\ k.type \in RelationTypes /\ Explains(k) /\ Chosen(fs, k)
    BY DEF Expected
  <2>2. CASE k.type = "RESOLVES_TO"
    BY <2>1, <2>2, ResolvesToExpected DEF run_all_rules
  <2>3. CASE k.type = "SUBDOMAIN_OF"
    BY <2>1, <2>3, SubdomainOfExpected DEF run_all_rules
  <2>4. CASE k.type = "FOUND_ON"
    BY <2>1, <2>4, FoundOnExpected DEF run_all_rules
  <2>5. CASE k.type = "SHARES_IP"
    BY <2>1, <2>5, SharesIpExpected DEF run_all_rules
  <2> QED  BY <2>1, <2>2, <2>3, <2>4, <2>5 DEF RelationTypes
<1> QED  BY <1>1, <1>2

-----------------------------------------------------------------------------
\* Listing everything twice, as for a target linked twice, proposes nothing else.
THEOREM RepetitionChangesNothing ==
  ASSUME NEW fs \in Seq(FindingIds)
  PROVE  run_all_rules(fs \o fs) = run_all_rules(fs)
<1> DEFINE twice == fs \o fs
           n == Len(fs)
<1>1. twice \in Seq(FindingIds) /\ Listed(twice) = Listed(fs)
  <2>1. fs \o fs \in Seq(FindingIds) /\ Listed(fs \o fs) = Listed(fs) \cup Listed(fs)
    <3>1. \A S, s, u : s \in Seq(S) /\ u \in Seq(S) =>
            s \o u \in Seq(S) /\ Listed(s \o u) = Listed(s) \cup Listed(u)
      BY ListedConcat, Zenon
    <3> QED  BY <3>1, Zenon
  <2> QED  BY <2>1
<1>2. /\ n \in Nat /\ DOMAIN fs = 1 .. n /\ DOMAIN twice = 1 .. n + n /\ Len(twice) = n + n
      /\ \A i \in 1 .. n : twice[i] = fs[i] /\ twice[n + i] = fs[i]
      /\ \A i \in 1 .. n + n : i \in 1 .. n \/ (i - n \in 1 .. n /\ twice[i] = fs[i - n])
  <2>1. /\ n \in Nat /\ DOMAIN fs = 1 .. n /\ Len(twice) = n + n /\ DOMAIN twice = 1 .. n + n
    OBVIOUS
  <2>2. \A i \in 1 .. n + n : twice[i] = IF i <= n THEN fs[i] ELSE fs[i - n]
    BY ConcatProperties
  <2> HIDE DEF twice, n
  <2>3. \A i \in 1 .. n : twice[i] = fs[i]
    BY <2>1, <2>2
  <2>4. ASSUME NEW i \in 1 .. n
        PROVE  twice[n + i] = fs[i]
    <3>1. n + i \in 1 .. n + n /\ ~(n + i <= n) /\ n + i - n = i
      BY <2>1
    <3>2. twice[n + i] = fs[n + i - n]
      BY <2>1, <2>2, <3>1
    <3> QED  BY <3>1, <3>2
  <2>5. \A i \in 1 .. n + n : i \in 1 .. n \/ (i - n \in 1 .. n /\ twice[i] = fs[i - n])
    BY <2>1, <2>2
  <2> QED  BY <2>1, <2>3, <2>4, <2>5
<1> HIDE DEF twice, n
<1>3. ASSUME NEW g \in Listed(fs), NEW types, Info[g].type \in types
      PROVE  Latest(twice, g, types) <=> Latest(fs, g, types)
  <2> DEFINE Ends(s, i, l) == s[i] = g /\ \A j \in i + 1 .. l :
                 Info[s[j]].type \in types => Info[s[j]].name # Info[g].name
  <2>1. /\ Latest(twice, g, types) <=> \E i \in 1 .. n + n : Ends(twice, i, n + n)
        /\ Latest(fs, g, types) <=> \E i \in 1 .. n : Ends(fs, i, n)
    BY <1>2 DEF Latest, n
  <2>2. ASSUME NEW i \in 1 .. n, Ends(fs, i, n)
        PROVE  Ends(twice, n + i, n + n)
    <3>1. twice[n + i] = g
      BY <1>2, <2>2
    <3>2. ASSUME NEW j \in n + i + 1 .. n + n, Info[twice[j]].type \in types
          PROVE  Info[twice[j]].name # Info[g].name
      <4>1. j \in 1 .. n + n /\ j \notin 1 .. n /\ j - n \in i + 1 .. n
        BY <1>2
      <4>2. twice[j] = fs[j - n]
        BY <1>2, <4>1
      <4> QED  BY <2>2, <3>2, <4>1, <4>2
    <3> QED  BY <3>1, <3>2
  <2>3. ASSUME NEW i \in 1 .. n + n, Ends(twice, i, n + n)
        PROVE  \E m \in 1 .. n : Ends(fs, m, n)
    <3>1. i \notin 1 .. n
      <4> SUFFICES ASSUME i \in 1 .. n PROVE FALSE
        OBVIOUS
      <4>1. n + i \in i + 1 .. n + n /\ twice[n + i] = g
        BY <1>2, <2>3
      <4> QED  BY <1>3, <2>3, <4>1
    <3>2. i - n \in 1 .. n /\ fs[i - n] = g
      BY <1>2, <2>3, <3>1
    <3>3. ASSUME NEW j \in i - n + 1 .. n, Info[fs[j]].type \in types
          PROVE  Info[fs[j]].name # Info[g].name
      <4>1. j \in 1 .. n /\ n + j \in i + 1 .. n + n
        BY <1>2, <3>2
      <4>2. twice[n + j] = fs[j]
        BY <1>2, <4>1
      <4> QED  BY <2>3, <3>3, <4>1, <4>2
    <3> QED  BY <3>2, <3>3
  <2>4. ASSUME NEW i \in 1 .. n
        PROVE  n + i \in 1 .. n + n
    BY <1>2
  <2> HIDE DEF Ends
  <2> QED  BY <2>1, <2>2, <2>3, <2>4
<1>4. ASSUME NEW f \in Listed(fs), NEW g \in Listed(fs)
      PROVE  (\E i \in DOMAIN twice : twice[i] = f /\ g \notin Listed(SubSeq(twice, 1, i)))
             <=> \E i \in DOMAIN fs : fs[i] = f /\ g \notin Listed(SubSeq(fs, 1, i))
  <2>1. /\ \A i \in DOMAIN twice : g \in Listed(SubSeq(twice, 1, i)) <=> \E j \in 1 .. i : twice[j] = g
        /\ \A i \in DOMAIN fs : g \in Listed(SubSeq(fs, 1, i)) <=> \E j \in 1 .. i : fs[j] = g
    BY <1>1, InPrefix
  <2>2. ASSUME NEW i \in 1 .. n
        PROVE  /\ i \in DOMAIN twice /\ twice[i] = fs[i]
               /\ (\E j \in 1 .. i : twice[j] = g) <=> \E j \in 1 .. i : fs[j] = g
    <3>1. \A j \in 1 .. i : j \in 1 .. n /\ twice[j] = fs[j]
      BY <1>2
    <3> QED  BY <1>2, <3>1
  <2>3. ASSUME NEW i \in 1 .. n + n, i \notin 1 .. n
        PROVE  \E j \in 1 .. i : twice[j] = g
    <3>1. PICK j \in 1 .. n : fs[j] = g
      BY <1>2 DEF Listed
    <3>2. j \in 1 .. i /\ twice[j] = g
      BY <1>2, <2>3, <3>1
    <3> QED  BY <3>2
  <2> QED  BY <1>2, <2>1, <2>2, <2>3
<1>5. ASSUME NEW k \in [source : Listed(fs), target : Listed(fs), type : RelationTypes], Explains(k)
      PROVE  Chosen(twice, k) <=> Chosen(fs, k)
  <2> DEFINE f == k.source
             g == k.target
  <2>1. f \in Listed(fs) /\ g \in Listed(fs)
    OBVIOUS
  <2>2. CASE k.type = "RESOLVES_TO"
    <3>1. Info[g].type \in {"ip_address"}
      BY <1>5, <2>2 DEF Explains
    <3>2. Latest(twice, g, {"ip_address"}) <=> Latest(fs, g, {"ip_address"})
      BY <1>3, <2>1, <3>1
    <3> QED  BY <2>2, <3>2 DEF Chosen
  <2>3. CASE k.type = "SUBDOMAIN_OF"
    <3>1. Latest(twice, g, {Info[g].type}) <=> Latest(fs, g, {Info[g].type})
      BY <1>3, <2>1
    <3> QED  BY <1>1, <2>3, <3>1 DEF Chosen
  <2>4. CASE k.type = "FOUND_ON"
    <3>1. Info[g].type \in HostTypes
      BY <1>5, <2>4 DEF Explains
    <3>2. Latest(twice, g, HostTypes) <=> Latest(fs, g, HostTypes)
      BY <1>3, <2>1, <3>1
    <3> QED  BY <2>4, <3>2 DEF Chosen
  <2>5. CASE k.type = "SHARES_IP"
    BY <1>4, <2>1, <2>5 DEF Chosen
  <2> QED  BY <2>2, <2>3, <2>4, <2>5 DEF RelationTypes
<1>6. Expected(twice) = Expected(fs)
  BY <1>1, <1>5 DEF Expected
<1> QED  BY <1>1, <1>6, RulesAsExpected DEF twice

=============================================================================
