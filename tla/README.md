# OpenRecon API: a TLA+ verification development

OpenRecon (`src/`) is an OSINT reconnaissance API: FastAPI handlers on one
asyncio event loop, SQLAlchemy `AsyncSession`s on PostgreSQL, and modules that
query DNS, crt.sh, RDAP and Sherlock. Almost everything that can go wrong in it
goes wrong *between two awaits*: handlers look rows up and insert them in
separate statements, no unique constraint backs any of those lookups, sessions
keep objects that have since changed, and failures of one statement decide what
the rest of a request can still do. This directory models that behaviour in
TLA+, checks it with TLC, and proves the central facts with TLAPS for any
number of requests and any data.

## 1. Inventory

| Component | State it keeps | Operations | Hard behaviour | What makes it correct |
|---|---|---|---|---|
| **Scan pipeline** `services/scan.py`, `routers/scan.py` | the `ScanResult` of a request, its session | `run_scan`, `run_scan_for_investigation`, the scan handler | requests for one target interleave; each module, lookup, commit and refresh can fail; a rollback expires objects used later | no duplicate findings; what is reported is stored; no loss without an error; every request ends |
| **Storage, deduplicator** `services/storage.py`, `core/deduplicator.py` | tables `targets`, `findings`, `evidence` | `get_or_create_target`, `store_module_result`, `deduplicate_findings` | select-then-insert without constraint; all lookups of a batch precede its inserts | one row per `(target, type, normalized_value)`; every row has evidence |
| **Rate limiter** `core/ratelimiter.py` | in-memory dict of last starts | `check`, `record`, `check_and_record`, `reset`, `reset_all` | records starts, not ends; lost on restart | at most one flight per module and target |
| **Adaptive scan** `services/adaptive.py`, `core/adaptive.py`, `core/scope.py` | queue, `session_seen`, hops, skipped leads | `run_adaptive_scan`, `extract_leads`, `Scope.check`, the adaptive handler | leads form cycles; guards in several places; depth boundary; a hop may fail; the investigation may be closed meanwhile | each target once, at its least depth; none lost; all eligible leads covered; termination |
| **Investigations** `services/investigation.py`, `routers/investigation.py` | `investigations`, `investigation_targets` | create, list, get, add target, scan, adaptive scan, correlate, close, report, summary | status check and link insert are separate steps; a session sees the status it first loaded | closed means read-only; one link per target; accepted scans are linked |
| **Correlator** `core/correlator.py` | none (pure) | `run_all_rules`, four rules | last-wins indexes; longest-suffix search; direction of a symmetric relation | proposes what the findings explain, no more, no less |
| **Correlation service** `services/correlation.py` | table `relations` | `run_correlation_for_investigation`, `run_correlation`, listing reads | overlapping runs; partial failures with and without rollback | explained, atomic, idempotent |
| **Report and summary** `services/report.py`, `get_investigation_summary` | none | reads | counts over links and findings that change; stale collections | counts agree with the rows |
| **Authentication** `core/auth.py` | none | API key, signed identity with an expiry | strict comparisons at both ends of a window; a signed text built from parts a caller chooses | an assertion is accepted for the user and expiry it was made for, while it lasts |
| **Engine** `db/database.py` | connection pool (2 + 1 overflow) | sessions take and return connections | a search or scan holds one across a subprocess without time limit, or its modules; a waiter's timeout races a release | no connection leaks; who waits is served or refused |
| **Modules** `modules/*.py`, `core/module.py`, `utils/sherlock_parser.py` | none | `execute` | answers that are missing, malformed, repeated or not of the type asked for | no two findings of a scan share a key by accident |
| **Normalizer, confidence** `core/normalizer.py`, `core/confidence.py` | none | string conversions | spellings of one thing | one key per thing |
| **Legacy Sherlock search** `services/sherlock.py`, `routers/sherlock.py` | tables `searches`, `results` | search (a subprocess between two commits), list of searches | a failure or stop between the commits; reading in two statements meanwhile | what was answered is listed, whole; no search is listed in part |
| **Recon, EXIF, dorks**; **application, migrations** | none | stateless handlers; start-up | | |

Interactions. The handlers of `routers/investigation.py` call the investigation
service, `run_scan_for_investigation`, `run_adaptive_scan` (which calls
`run_scan` once per hop) and `run_correlation_for_investigation`; `run_scan`
calls the limiter, the modules and `store_module_result`. All share the database
and, within a process, the limiter; nothing else is shared. There is no locking
anywhere, so the isolation of the database (READ COMMITTED) and the await points
of the code are the whole concurrency model. The hazards this creates, each at
its line, are listed in `PROJECT.json` with the properties that watch them.

## 2. The modules

| Module | Models | State ↔ code | An action is |
|---|---|---|---|
| `RateLimiter` | the limiter | `last_seen` = `_last_seen`; `now` = `time.monotonic()` | `check` and `record` as operators, used in one step because `check_and_record` does not await |
| `SingleFlight` | *abstract*: at most one request runs a module on a target | `holders` | take-off, landing, crash |
| `ScanPipeline` | `run_scan` of concurrent requests for one `(type, value)` | tables as row counts; per request `pc`, `tid`, `mod`, `batch`, `known`, `session`, `reported`, `errors` | what a request does between two awaits; `Tick`; `Restart` |
| `AdaptiveScan` | one `run_adaptive_scan` and its handler, with a concurrent close | `queue`, `session_seen`, `hops`, `leads_skipped`, `targets_scanned` as in the code; `linked`, `inv_status` | one turn of the loop up to the scan, the scan's outcome, one lead, the end of a hop |
| `Investigations` | add, scan and close on one investigation and one target value | `status`, `links` (row counts), `targets`; per request `view` = the status in its session | one statement or commit |
| `ConnectionPool` | the engine's pool with its waiters and their timeout | `idle`, `overflow` as in the library's queue pool; `holders`, `waiting` | taking, opening, waiting, giving up, releasing, as operators the sessions use |
| `SherlockSearch` | concurrent searches and readers of the direct Sherlock endpoints, each with a session over the pool | `searches`, `results` = the tables; per request `pc`, `parsed`, `selected`, `lists` | a connection obtained or refused, a statement with its commit, the end of the subprocess; `Restart` |
| `Identity` | the API key gate and the signed identity | headers, environment and clock as arguments; a signature is the text it signs with its secret | (pure) |
| `Sources` | what the DNS, RDAP and Sherlock modules make of the answers of their sources, and the key of each finding | an answer is a record of values, or `Failed`, or `Malformed` | (pure) |
| `Leads` | `extract_leads` and `Scope.check` on the findings of `Sources` | `seen` of the code as "an earlier finding named it" | (pure) |
| `Correlator` | the rules, as operators on a sequence of findings | `run_all_rules`; dictionaries as "the last position with this name" | (pure) |
| `Correlation` | concurrent correlation requests, findings and links arriving | `relations` as rows `(key, request)`; `seen` = `all_findings`, `created` = `relations_created`, `failed` = `errors` is not empty | one statement with what follows it |
| `Report` | the reads of an investigation (summary, report, listing of relations, findings of a target) among concurrent writers | `links`, `evidence` (rows per finding), `relations`; per reader `view` = the links in its session, `listed`, `counts`, `rels`, `details` = what it has read so far | one statement of a reader, or one commit of a writer |
| `PureRules` | the correctness statements of the four modules of pure rules above (`Identity`, `Sources`, `Leads`, `Correlator`), over any set of names and findings | a state is one input of the rules | one more finding; the other inputs are chosen at the start |

`ScanPipeline` extends `RateLimiter` and implements `SingleFlight` (`INSTANCE` with
`holders` mapped to the requests in flight); `Correlation` extends `Correlator`;
`SherlockSearch` extends `ConnectionPool`; `Leads` extends `Sources`. `AdaptiveScan`
and `ScanPipeline` take any leads and any lists of findings as parameters, so that
what they claim does not rest on `Leads` and `Sources`. `PureRules` states the
properties of the four modules of pure code: its states are inputs, a list of findings
that grows by a finding a step among them. `MC*` modules give the constants values for TLC and
`*_proofs` hold the theorems. Definitions marked *Faulty* are what a plausible bug
would make of the definition next to them; `PROJECT.json` pairs each with the
property that detects it. They are not part of any specification.

Abstractions shared by all: a target, key or finding is a model value; messages,
reasons, metadata, timestamps and logging are left out. Rows are counted or
tagged rather than named by primary keys. Statements are atomic. Four facts
about SQLAlchemy carry weight and come from how `src/` configures it:
`expire_on_commit=False`, so that a session keeps the attributes it loaded first;
a rollback expires every persistent object of the session but leaves the
attributes of objects it had only added; a lazy load outside an awaited call
raises in an `AsyncSession`; a statement that fails in PostgreSQL makes the
transaction refuse the later ones until a rollback.

## 3. What is checked

Passing runs:

| Run | Instance | Shows |
|---|---|---|
| `scan_pipeline` | 2 requests (one a handler's, one an adaptive hop), 2 target ids, modules dns and rdap, 3 keys, interval 2, run time ≤ 1, clock ≤ 2, 1 restart | `SingleFlightSpec`, hence `UniqueFindings`; `FindingsHaveEvidence`, `ReportedArePersisted`, `NoSilentLoss` under every failure; `RequestsEnd` |
| `adaptive_scan` | 4 targets (two domains, a username whose scan may hang, one of an unsupported type), all lead lists of up to 2, chosen freely at each scan, `max_depth` 0–3 | `ScannedOnce`, `ScansAllowed`, `ShortestDepth`, `LeadsAccounted`, `CompleteCoverage`, `HopsLinked`, `RequestEnds` |
| `investigations` | 2 adders (one a stranger's), a scanner, a closer, 2 target ids | `LateRequestsRefused`, `RepeatLinksNothing`, `AcceptedScansLink` |
| `pure_rules` | lists of ≤ 5 out of 6 findings, with repetitions; assertions of 3 users issued at 4 times, against every header set of small texts and 10 clock readings; the answers of DNS, certificate log and RDAP of one domain; the output of a username scan of ≤ 2 lines | `RulesMatchReference`, `RepetitionHarmless`; `AssertionsHonoured`; `RepeatsOnlyBySpelling`, `LeadsComplete` |
| `correlation` | 2 requests, 1 investigation, ≤ 2 links (a double link included), 4 findings of 2 targets, committed as a scan finds them (a module's whole batch, or one without the record whose query failed); every query returns its rows in any order | `RelationsExplained`, `AllOrNothing`, `RepeatsCreateNothing`, `OneDirection` |
| `report` | 1 reader of any kind, 2 targets, ≤ 2 links (a double link included), 3 findings with ≤ 2 evidence rows, a relation inside a target and one across | `CountsInRange`, `EvidenceNotBehind`, `QuietAnswersExact`, `RelationsTraceable`, `ListingDescribed` |
| `sherlock_search` | 2 searches for one username, a reader of it and a reader of another, 2 sites, a pool of 1 + 1, failures of every statement, hanging subprocesses, restarts | `ConnectionsAccounted`, `AnswersRetrievable`, `ListedWhole`, `RequestsEnd` |

Runs that end in a counterexample, because the code does not do what a document
or comment in `src/` says:

| Run | Property | The code instead |
|---|---|---|
| `repeated_finding` | `UniqueFindings` | looks a whole batch up before inserting, so a key twice in a batch is stored twice (two TXT records that differ in case or white space) |
| `unanswered_scan` | `StoredIsAnswered` | the handler reads `f.evidence`, never loaded: a scan that stored something is not answered |
| `closed_investigation` | `ClosedIsReadOnly` | an accepted scan links its target after the close: its session still says open |
| `linked_twice` | `LinkedOnce` | two overlapping requests both find no link and insert one |
| `ghost_relations` | `ReportedRelationsExist` | answers with relations whose commit failed |

### Why the bounds are enough

The hazards are about pairs: two requests between a lookup and an insert, two hops
that point at one target, two positions in a list. Two requests and two target ids
make every such pair possible. `adaptive_scan` needs three scannable targets to have
a cycle, a diamond and a late shorter path. With them a target is at most two hops
away: `max_depth` 0 and 1 cut such a path short, 2 cuts off the leads of its end, and
3 leaves them. In `scan_pipeline`, clock 2 with interval 2 lets a module be started a
second time after the interval, and one restart lets it be started inside.
The six findings of `pure_rules` hold two records that can be each other's parent
candidate at different depths, a domain finding competing with a record, and both
ends of each rule; five positions allow a repetition on either side of a pair. In
`report` one reader is enough, because readers write nothing and so cannot meet; the
writers commit between any two of its statements. In `sherlock_search` the pool is
one smaller than the configured 2 + 1, so that two searches are enough to exhaust it
and a third request to wait; three searches over a pool of 2 + 1 pass as well (about
a million states). The inputs of `pure_rules` hold, for each branch of the code, a
value that takes it: a user id that ends in a digit or in a colon and a digit (two
splittings of one signed text), records whose data differ in capitals, in the white space around them or between
their parts, aliases among addresses, names of the certificate log that are the
domain itself, wildcards, duplicates once stripped, foreign, or beyond the cap (of
one name there, where two are below the domain), and profiles whose first path
segment is no username. The data of one DNS answer are taken to be distinct, as DNS
defines a record set. `MaxTime`, `MaxRestarts`, `MaxLinks`, `MaxEvidence`,
`MaxLeads`, `DepthLimit` and `MaxFindings` are the only bounds that the code does
not have (`PoolSize`, `MaxOverflow` and `MaxSubdomains` are its own, at smaller
values), and no guard of the code reaches them. (The handler's own limit on
`max_depth`, 4, is above `DepthLimit`; the proofs hold for any.)

Sensitivity. With `MaxRun` equal to `MinInterval`, `SingleFlightSpec` fails: a
module may be restarted in the tick in which its first result is stored. The
assumption `MaxRun < MinInterval` is justified for DNS (8 s), crt.sh (15 s) and
RDAP (12 s) against an interval of 60 s; Sherlock runs without an overall
timeout, so for it the assumption is about its deployment, and no unique
constraint would catch a violation. The direction of a `SHARES_IP` relation is that
of the list it was computed from, and neither the links nor the findings are
selected in an order (`services/correlation.py:60`, `192-196`). In the model every
query returns its rows in any order, another one each time, and `OneDirection`
claims what remains: one request never stores a pair both ways, however its list
repeats the findings. That two requests do, having listed them in opposite orders,
does happen in the `correlation` run. Two overlapping correlations may also store
one relation twice, by the same pattern as `linked_twice`. The requests of
`correlation` are interchangeable, so that symmetry under their permutations is
sound (only safety is checked there). The counts of a summary are
claimed only where the links in its view are distinct: a target linked
twice is counted twice by a summary and once by a report.

### Fairness

`RequestsEnd` of `scan_pipeline`, a scan with the modules dns and rdap, assumes weak
fairness of each request's own step: asyncio resumes a coroutine whose awaited call
has completed, and the awaited calls complete because the DNS, crt.sh and RDAP
clients carry timeouts and database calls return or raise. Nothing is assumed about
the other requests, the clock, a close, or which outcome a call has. An adaptive run
may also scan usernames, and `modules/sherlock.py:86` awaits its subprocess without
an overall limit (the flag given to the tool bounds each site). `FairSpec` therefore
assumes nothing of a request while it awaits one (`AwaitsSubprocess`), and
`RequestEnds` claims that the request ends or waits for ever for one such
subprocess: no cycle of leads keeps it going, and nothing else holds it up. Without
the second disjunct TLC finds the run that hangs.

`RequestsEnd` of `sherlock_search` assumes weak fairness of the steps of each
session, the wait for a connection included, because the pool's timeout ends it; it
assumes nothing of the subprocess, which may hang and keep its connection for ever,
and nothing of restarts. `Investigations`, `Correlation` and `Report` are
straight-line code, of which termination says little; they are checked for safety
only. `CHECK_DEADLOCK` is off because requests end and the bounds stop the rest.

## 4. What is proved

TLAPS checks every proof to the last leaf, for arbitrary constants.

* `AdaptiveScan_proofs`: `TypeCorrect`, `SessionDedup`, `DepthAndSupport`,
  `ScannedAreLinked`, `Completeness`, `NoLeadIsLost`, `BreadthFirst`. The
  invariant `IInv` links the properties, which speak of hops, to the bookkeeping:
  everything scanned is in `session_seen`, and every lead of a hop was taken from
  the queue, waits in it, or is still unfiled. Without the last part (`CoverInv`),
  completeness is not inductive: a lead dropped because it was seen must be known
  to be scanned, or to be refused. `BreadthInv` adds that the queue is ordered by
  depth, that no two of its depths, nor the current one, are more than one apart,
  and that every item has a hop it came from: the usual argument for breadth
  first search, with guards that drop items on the way.
* `ScanPipeline_proofs`: `TypeCorrect`; `SingleFlightImplemented` (assuming
  `MaxRun < MinInterval`): every step of the pipeline is a step or a stutter of
  `SingleFlight`. `FlightInv` says the limiter remembers the start of each
  flight and the flight is young, from which `Exclusive` follows.
  `NoDuplicateFindings` adds `DistinctKeys`, that no batch names a key twice and
  no two modules share one, and `LookupInv`: what was looked up and not found has
  no row until its own request inserts it. `EveryFindingHasEvidence`,
  `ReportsArePersisted` and `LossIsReported` need no such condition: `StoreInv`
  says what a request has returned, stored and noted at each of its places.
* `Investigations_proofs`: `TypeCorrect`, `ClosedToLateRequests`,
  `SequentialRequestsIdempotent`, `AcceptedScansAreLinked`. `HistoryInv` relates
  the state to the one in which a request began, `PlaceInv` what each program
  place knows.
* `Correlator_proofs`: for any list of any findings, repetitions included,
  `RulesExplained` (a proposal is explained by two listed findings), `RulesAsExpected`
  (the proposals are exactly the explained relations that the reference `Expected`
  chooses, which uses neither indexes nor searches) and `RepetitionChangesNothing`
  (a list twice over proposes the same). They rest on the greatest position of a
  name, the nearest parent and the first position of a finding being defined, which
  comes from the well-foundedness of the naturals (`LeastNatural`).
* `Correlation_proofs`: `TypeCorrect`, `RelationsAreExplained`, `CorrelationIsAtomic`,
  `RepetitionIsIdempotent`, `SharedOneWay`. `ListsInv` ties proposals to the list
  they were computed from, `PlaceInv` says which of them are in the table. For
  `SharedOneWay` no order of rows is assumed (`RowsAreListed` says only that a query
  returns the rows there are): a stored pair is in the order of the first positions
  of its findings in the list of the request that stored it, which no repetition in
  the list can turn round.
* `Report_proofs`: `TypeCorrect`, `RelationsAreTraceable`, `ListingsAreDescribed`,
  although links, findings, evidence and relations are read in statements of their
  own: rows are only added, and relations are read last (`ReaderInv`). For the counts,
  `CountsAreInRange`, `EvidenceIsNotBehind` and `QuietAnswersAreExact`, the invariant
  `CountInv` says what a reader has counted at each of its places: between what the
  tables held when it began and what they hold now, and exactly what they held as long
  as nothing was committed in between. Each part is needed: a count that is made
  target by target (`CountingInv`) is bounded only by the parts still to be read, and
  evidence is ahead of findings only because every finding has evidence when it
  commits (`StoredHaveEvidence`) and because findings are counted first. Sums over
  the findings of a target are sets of rows, so that they add up and grow by the
  theorems on finite sets (`PartsAdd`, `CountsAreMonotonic`).
* `SherlockSearch_proofs`: `TypeCorrect`, `ConnectionsAreAccounted`,
  `AnswersAreRetrievable`, `SearchesListedWhole`, for any requests and any size of
  the pool. That the overflow counter stays in its range is itself not inductive:
  it needs that every open connection is idle or held.
* `PureRules_proofs`: `AssertionBinding`, `AssertionLifetime` (the signed text
  `user:expiry` can be split in only one way because the expiry is digits, and the
  window of the clock skew is exact) and from them `AssertionsAlwaysHonoured`, the
  gate included; `ListsAsExpected` and `ListsMayRepeat` from `Correlator_proofs`;
  `RepetitionsDifferInSpelling`, for any answers of the sources (equal keys are
  taken apart by `KeyTells`); `LeadsAreComplete`, for
  any findings. The functions that recur over a list are followed by an invariant of
  the recursion: `Flattens` (what stands in a flattened list, and in which order) and
  `Keeps` (of the first leads, those that are the first to their target). That a
  function with such a recursion exists at all is `RecursionExists`.

Assumptions on constants are the named `ASSUME`s of the modules, which TLC
evaluates in every run, and the two conditions named above. Those of `PureRules` say
what the code takes for granted of its surroundings: that a keyed hash is never the
text of a header that is not ASCII, that a source answers with lists and finite sets,
and that no DNS answer holds a record twice (`AnswersAssumption`). In `Report`
and `Correlation` the findings are finitely many, and in the latter a scan commits
any of a given set of batches.

Every invariant that a passing run checks is the statement of a theorem. Only
model-checked, because it is out of the installed provers' reach, is liveness
(fairness and `ENABLED`): `RequestsEnd` and `RequestEnds`. The induction theorems of the
library take an operator, which the provers cannot instantiate; induction over an
interval and recursion on it are therefore stated in terms of sets here
(`IntervalInduction`, `RecursionExists`), and `Deduplicated` and
`parse_sherlock_file` are written with a recursive function and a flattened list
rather than with a fold and a filter.

## 5. Divergences without a run of their own

* `routers/investigation.py:311` promises that an adaptive scan keeps to the
  investigation's scope. The handler passes none (lines 338-346), so that the run is
  `UNRESTRICTED` (`services/adaptive.py:127`), and no investigation has a scope.
  `AdaptiveScan` models the scope the request has (`InScope`), by which
  `ScansAllowed` shows that the scope guard never refuses anything: a lead of any
  domain is scanned. `Leads` models `Scope.check` as the function it is, and what
  `LeadsComplete` says of a scope is about that function, not about a request.
* `core/correlator.py:295` says that `SHARES_IP` links findings of one target;
  `run_correlation_for_investigation` gives the rule the findings of all targets.
* `services/scan.py:112-115` documents the limiter as recording a module's
  *success*; `check_and_record` at line 170 records its start, so a module that
  fails is refused for a minute.
* The messages for closed investigations ask to re-open them; no operation does.
* `RESOLVES_TO` needs an `ip_address` finding, and the `domain` and `http_service`
  branches of the rules findings of those types; no module makes any. The
  `pure_rules` run includes them because the rules are specified on the documented
  types; the `correlation` run does not.
* `run_correlation` (one target) is not called.
* The summary in the answer to an adaptive scan (`routers/investigation.py:391`)
  lists the links the session loaded before the scan, and so leaves out the targets
  the scan has just linked, unless a rollback expired the object. Nothing documents
  it otherwise; `Report` models it (kind "adaptive").
* `services/adaptive.py:66` documents `targets_scanned` as the targets scanned; a
  target is added to it before the guards that may refuse it. `LeadsAccounted` says
  what the code keeps instead: a target without a hop is reported skipped.
* `routers/sherlock.py` says of the list of searches that each includes the results
  found; a search that failed, or is still running, is listed as one that found
  nothing, because its row is committed before the subprocess starts.
* `core/module.py:80-81` asks a module to put all errors into `ModuleResult.errors`.
  A DNS query or certificate log that cannot be reached leaves neither finding nor
  error; malformed output of RDAP or Sherlock raises instead, which `run_scan`
  catches.
* The AAAA answer of an alias holds the alias too, and the module takes every answer
  for one of the type it asked for: the alias is stored as the data of an AAAA
  record, and `extract_leads` makes it a lead of type `ip`. `Scope.check` refuses it
  wherever an IP range is set (`LeadsComplete`).
* A name of the certificate log that is an e-mail address under a subdomain is kept
  as a subdomain, and a target written with a trailing dot finds none.
* `core/auth.py:25-26` answers invalid headers with 401; a signature header that is
  not ASCII makes the comparison raise, which becomes a 500, and so does such a key.
  `Identity` models it as an outcome of its own.
* `routers/recon.py:31` takes any `ValueError` for an invalid query, the one of an
  upstream answer that is no JSON included, and answers 400.

## 6. Not modelled, and the plan

Not modelled at all:

* Recon, EXIF and dork handlers: they keep no state, call no other component, and
  are lookups, file metadata and text templates.
* Start-up and migrations, which run once before any request, and the table of
  routes.
* Wording and layout of outputs, and of the report its grouping, sorting, timeline
  and Markdown.

Partly modelled, with the rest in the notes of `PROJECT.json`:

* Storage: the upgrade of a finding's confidence can never fire, because each
  module gives a finding type one confidence.
* Normalizer: the key of each type the modules make. A text is what it says and how
  it is spelled: capitals, the white space around it, the white space between its
  parts (`Word`); of each spelling there is one other than the canonical. Host names
  are sequences of labels without white space, as the modules make them. Types that
  no module makes are left out.
* Engine: the pool is composed with the direct search only. A scan, too, keeps a
  connection while its modules run, from the statement that found its target or
  read it back after the commit (`services/storage.py`). To the pool it is a
  request like a search: it takes a connection, keeps it across something that may
  hang, and returns it at a commit or at the end; `ScanPipeline` leaves that out
  and counts a connection that cannot be had among the failures of a statement.
* Investigations: one investigation and one target value; creating and listing do
  not interact with the rest.
* Correlation service: `run_correlation` for one target, which nothing calls.

Order of work, all of it done: `RateLimiter`, `SingleFlight`, `ScanPipeline`;
`AdaptiveScan`; `Investigations`; `Correlator`, `Correlation`; `Report`;
`ConnectionPool`, `SherlockSearch`; `Identity`; `Sources`, `Leads`; and a proof of
each safety property. What remains worth doing is to
compose `ScanPipeline` with `ConnectionPool`, so that a scan's modules and the
direct searches compete for one pool, and to revisit `MaxRun < MinInterval`
whenever a module gains or loses a timeout.
