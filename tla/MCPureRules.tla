---------------------------- MODULE MCPureRules -----------------------------
(***************************************************************************)
(* Instances of PureRules for TLC: six findings, three users, the answers   *)
(* that the sources of one domain may give, and a few profiles.             *)
(***************************************************************************)
EXTENDS PureRules, FiniteSets, TLC

CONSTANTS siteA, site, deep, deepA, account, address, ip, none,
          secret, letter, alias, text, john, profile, page

-----------------------------------------------------------------------------
(* Correlation rules                                                       *)

Row(type, name, record, data) ==
  [type |-> type, name |-> name, record |-> record, ip |-> data, target |-> none]

MCInfo ==
  siteA      :> Row("dns_record", <<"site", "org">>, "A", ip)
  @@ site    :> Row("domain", <<"site", "org">>, "none", none)
  @@ deep    :> Row("subdomain", <<"v1", "api", "site", "org">>, "none", none)
  @@ deepA   :> Row("dns_record", <<"api", "site", "org">>, "A", ip)
  @@ account :> Row("social_account", <<"site", "org">>, "none", none)
  @@ address :> Row("ip_address", ip, "none", none)

(* Identity: users whose text ends in a digit, or in a colon and a digit,  *)
(* at single digits of time.                                               *)

MCCharacters == Digits \cup {letter, colon}
MCUsers == {<<letter>>, <<letter, 0>>, <<letter, colon, 4>>}
MCTexts == {<<d>> : d \in Digits} \cup {<<0, d>> : d \in Digits}
           \cup {<<d, colon, e>> : d, e \in 3 .. 5} \cup {<<letter>>, <<>>}
MCTimes == 1 .. 4
MCClock == 0 .. 9
MCSecret == <<secret>>
MCApiKeys == {<<letter>>}

(* Domain scan: of the domain acme.org                                     *)

MCDomain == <<"acme", "org">>
Plain(w)  == Word(w, FALSE, FALSE, FALSE)
Caps(w)   == Word(w, TRUE, FALSE, FALSE)
Padded(w) == Word(w, FALSE, TRUE, FALSE)
Gapped(w) == Word(w, FALSE, FALSE, TRUE)

MCRecordTypes == <<"A", "AAAA", "TXT">>
MCLists(S) == {<<>>} \cup {<<x>> : x \in S} \cup {<<p[1], p[2]>> : p \in S \X S}

MCRecordOutcomes ==
  [A : {Failed, <<Padded(ip), Plain(alias)>>},
   AAAA : {<<>>, <<Plain(alias), Plain(ip)>>},
   TXT : {<<Plain(text), Caps(text)>>, <<Padded(text), Gapped(text)>>}]
CertificateNames ==
  {MCDomain, <<star>> \o MCDomain, <<"api">> \o MCDomain, <<star, "api">> \o MCDomain,
   <<"www">> \o MCDomain, <<"rival", "org">>}
MCLogs == {Failed, Malformed} \cup SUBSET CertificateNames
MCRdapAnswers ==
  {Failed, Malformed} \cup
  [registrars : {<<Plain(text)>>},
   nameservers : MCLists({<<"ns", "acme", "org">>, <<"ns", "rival", "org">>}),
   statuses : {{Plain(text), Caps(text), Padded(text)}},
   expiries : {<<>>}]
MCScope == [allowed_target_types |-> {"domain", "ip"}, allowed_domains |-> {MCDomain},
            allowed_ip_ranges |-> {{ip}}, include_subdomains |-> TRUE]

(* Username scan                                                           *)

MCProfiles ==
  [host : {Plain(none)}, query : {none}, slash : {FALSE}, fragment : {none},
   path : {<<>>, <<john>>, <<profile>>, <<john, page>>, <<profile, john>>}]
MCOutputs == {Failed} \cup MCLists(MCProfiles \cup {Noise, Malformed})
=============================================================================
