# RedVeil: a TLA+ verification project

RedVeil is a web-security scanner. `src/src/redveil` is the scanning library
(command line, checks, HTTP client, evidence, reports); `src/redveil_ui` is a
dashboard around it: one FastAPI/asyncio process that keeps targets, scans,
findings and evidence in SQLite, runs each scan as a background task and streams
its progress to browsers. This directory holds TLA+ models of the parts where
order, concurrency and failure matter, the TLC configurations that check them on
small instances, and theorems checked by TLAPS.

Paths below are relative to the repository: `src/redveil_ui/...` for the
dashboard, `src/src/redveil/...` for the library.

## 1. Inventory

### 1.1 Dashboard

| component | state | operations | interacts with |
|---|---|---|---|
| Scans routes and driver (`api/routes/scans.py`) | rows of `scans`; `_SCAN_TASKS`: scan id -> task | create, start, cancel, `_drive_scan`, stream, read routes | engine adapter, bus, database |
| Scheduler (`api/scheduler.py`, `routes/schedules.py`) | rows of `scheduled_scans`; APScheduler job table | add/remove job, trigger, `run_scheduled_scan`, load at startup | the same rows, adapter and bus, but not `_SCAN_TASKS` |
| Orphan recovery (`api/scan_recovery.py`, `api/main.py` lifespan) | none | one sweep at startup | rows of `scans` |
| Targets (`routes/targets.py`) | rows of `targets`, cascading to scans, findings, evidence | create, update, delete | scan rows of running drivers |
| Event bus (`api/event_bus.py`) | per scan: set of subscriber queues | subscribe, unsubscribe, publish, close | drivers publish, SSE generators consume |
| Engine adapter (`api/scanner.py`) | one queue and one producer task per run; one registry shared by all runs | `run_scan`, persistence of findings and evidence, mapping of library events | library orchestrator, database |
| Database (`db.py`, `db_wal.py`, `db_retry.py`) | WAL-mode SQLite | sessions, `retry_on_lock` | everything |
| Auth and audit (`auth.py`, `middleware.py`) | key file, audit log with rotation | classify a request, let it through or refuse it, record it | every request |
| Probe builder (`routes/probes.py`, library `probe/runner.py`) | presets in memory | plan and run a bounded series of requests | HTTP client |
| Findings/replay/config/AI/OpenAPI/scope routes | rows, one config file | mostly reads and one-row writes | library |
| Server start, TLS, first run, CLIs | files | process set-up | operating system |
| Frontend (`ui/frontend`) | browser | calls the routes above | routes |

### 1.2 Library

| component | state | operations | interacts with |
|---|---|---|---|
| Orchestrator (`core/orchestrator.py`) | lifecycle state, context with findings, semaphore | phases: environment, discovery, model, checks, validation, dedup, report | checks, client, bus, gate |
| Lifecycle (`core/lifecycle.py`) | one state | guarded transitions | orchestrator |
| Library bus (`core/event_bus.py`) | subscribers, history | subscribe, publish | adapter |
| Scope (`core/scope.py`) | policy | allow/deny a URL | client, crawler |
| HTTP client (`http/client.py`, `rate_limit.py`, `session_rules.py`) | request counter, semaphore, token bucket, token cache | send, send_raw, retries, redirects, 401 refresh | every check |
| Plugin registry (`plugins/`) | registered plugins, bound context | register, bind, load | orchestrator |
| Checks (`checks/`) | per-run lists | requests + comparisons | client, gate, validation engines |
| Validation (`validation/`) | gate decisions, replay counts | ask, classify, replay, control probe, staged validation | checks, orchestrator |
| Findings (`findings/`) | list of clusters | add, merge | orchestrator |
| Discovery (`discovery/`) | frontier, visited set | crawl, wordlist, subdomains | client |
| Attack surface, behaviour, evidence, reporting, AI, knowledge | data | build, format | orchestrator |

### 1.3 What is hard, and what makes each part correct

* **Scan rows.** Several tasks read a row, suspend, and write it. `/start` can
  race the request that created the scan; `/cancel` decides on a status that may
  be old; a cancellation can be delivered at any await; the process can die.
  Correct means: the status only moves along its arcs, `cancelled` is final,
  `/cancel` reaches the task that runs a scan, and a row that says `running`
  has something that will still change it.
* **Streams.** Clients come, leave, and arrive late. Correct means: every stream
  is an ordered, gapless part of what was published and ends when the scan does.
* **A run.** A producer task, a queue, a consumer that may be cancelled, writes
  that may fail on a locked database. Correct means: exactly one outcome,
  reported after everything it summarises; a run that failed is not reported as
  completed.
* **HTTP budget.** Concurrent checks share one counter, one semaphore, one token
  bucket and one session token. Correct means: no more requests than the budget
  beyond what the code's own accounting admits, and nobody waits for ever.
* **Findings.** Deduplication merges in arrival order. Correct means: no finding
  is lost and the count of a cluster is the number of its members.
* **Gate and validation.** A destructive request goes out only under a
  permission of its level; a finding is confirmed only when its probe differs
  from its control.

## 2. Plan

Order of the modules, the most important behaviour first. `done` is on disk.

| module | of | composes | abstract view / theorems wanted | state |
|---|---|---|---|---|
| `ScanLifecycle` | rows, drivers, registry, recovery | – | registry, orphans, status machine and reachability proved | done |
| `ScanStream`, `StreamContract` | bus and SSE clients, what a stream promises | `ScanLifecycle` | implements `ScanLifecycle` and `StreamContract`; stream = gapless run of the published events; proved | done |
| `Orchestrator` | run, phases, semaphore, shared registry | – | phase barrier and one SCAN_FINISHED, proved | done |
| `ScanEngine` | producer, queue, driver loop, persistence | `Orchestrator` | implements `Orchestrator`; one verdict, after everything it sums up; proved | done |
| `TokenBucket` | rate limit | – | rate bound in every window, proved | done |
| `HttpClient` | budget, semaphore, redirects, session rules | `TokenBucket` | implements `TokenBucket`; permits, overshoot and wire proved | done |
| `Findings` | deduplicator and its registration, severity and confidence ranks | – | cluster = summary of its members, proved | done |
| `ActionGate` | gate, risk | – | consent grows with the weight of a plan, proved | done |
| `CheckRun`, `CheckContract` | the life of one check, its contract with the orchestrator | `ActionGate` | `CheckRun` refines `CheckContract`, checked for every check and its safety proved | done |
| `ControlProbe` and the modules of the checks | decision logic of the 18 checks | `CheckRun` | a finding needs a difference between probe and control; escalation only on what was seen; proved | done |
| `Crawler`, `ProbeSeries`, `Replay` | crawler, probe builder, replays | – | depth and completeness, accounts, earned verdicts; proved | done |
| `Access`, `Schedules`, `ScopePolicy`, `AttackSurface` | authentication and audit, schedules and jobs, scope and redirects, model of the target | – | rotations end sessions, rows match jobs, hops stay in scope, endpoints are stable; proved | done |

Runs are kept few: one passing run per composition, with all its invariants and
liveness properties together, and a violation run only where the code contradicts
its own documentation on a matter a user would notice. Instances that differ in
configuration (session rules or not, which tasks send) are chosen in the initial
states instead of in runs of their own.

## 3. Modules

### `ScanLifecycle`

One scan id is a row of the table; a driver is a background task with the point
where it is suspended; a request is in flight with what it has read. An action is
the code between two awaits, so a row is read by one action and written by a later
one. Correspondence:

| code | actions |
|---|---|
| `create_scan` | `CreateRead`, `CreateInsert`, `CreateDispatch` |
| `start_scan` | `StartRead`, `StartDispatch`, `StartNoTarget` |
| `cancel_scan` | `CancelRead`, `CancelAct` (pop the task, `task.cancel()`), `CancelCommit` |
| `trigger_schedule`, `trigger_scan` | `TriggerInsert`, `TriggerDispatch` |
| `delete_target` with its cascade | `DeleteRead`, `DeleteCommit` |
| `_drive_scan`, `run_scheduled_scan` | `BeginRead`/`SchedBeginRead`, `Commit`, `Enter`, `RunEnds`, `HandlerRead`, `FinalRead`, `DoneCallback` |
| failures | `CommitFails`, `CancelCommitFails`, `Crash`, then `Recover` |

Details that matter. SQLAlchemy writes only attributes that differ from what the
session loaded, so `Written` compares with the value seen, not with the value in
the row. An UPDATE of a deleted row raises `StaleDataError`, outside the `try`
block. Ids are `max + 1` and a deleted last id is given out again. A cancellation
inside the `try` block starts the `except` clause; anywhere else it ends the task,
and a commit already handed to the database thread may or may not have landed.
`lost` is a history variable: scans whose driver was killed or could not commit
while it owed the row a final status.

Abstractions: one target; the two reads of `run_scheduled_scan` (scan, target) are
one step; the target read of `/start` is merged with its dispatch; a graceful
shutdown is not modelled (`Crash` covers the end of the process); the columns
other than `status` are left out.

### `ScanStream` and `StreamContract`

`ScanLifecycle` composed with `_channels` of the bus and the clients of the stream
route. Every lifecycle action is reused and joined with its effect on the bus:
`RunEnds` closes the channel (after an optional `scan.failed`), `HandlerRead`
publishes `scan.cancelled`, the commit in the `except` clause is followed by the
close of the `finally` clause whether it succeeds or raises. Bus operations never
suspend (queues are unbounded), so each is one step. `closed` is left out: the
channel that is marked closed is popped in the same step. An event is its number
modulo `Wrap`.

`StreamContract` is what the route promises to whoever opens it, without rows, tasks, channels
or queues: events are announced for a scan, a listener is owed each of those announced between its
joining and the closing of the channel, hears them one after the other, and is told the end
when nothing is due. Property `KeepsPromise` is the refinement, with fairness: `Listening` maps a live
client to what it heard last, to the length of its queue without the sentinel, and to whether
it is still in the channel. A client that has read the row, or gets the snapshot, has not joined.

### `Orchestrator`

`run()` is a coroutine with the place where it waits (`build`, `gather`,
`closing`); the tasks of a phase are coroutines under the semaphore.

| code | actions |
|---|---|
| `Orchestrator.__init__`, `_bind_all_checks`, start of `run` | `Start` |
| `_build_application_model` | `Build` (may fail: an ERROR event, and the run goes on) |
| the three phases and the states between them | `PhaseEnds`, `Enter` |
| the `except` clause of `run` | `RunFails` |
| `HttpClient.__aexit__` | `Closed` |
| `_with_sem` and the per-check functions | `Acquire`, `Discovered`, `Candidates`, `Validated`, `Collected`, `Assessed`, `Raises` |
| cancellation of the producer | `Cancel` |

`gather` is used without `return_exceptions`: the first exception ends the phase and
leaves the other tasks running, which is why `task` outlives the phase. `bound`
is the one set of dependencies a check object holds, since all scans use the same
registry. The names of checks, candidates and evidence are left out: `left` counts
candidates, `found` is the set of checks with a registered finding.

### `ScanEngine`

`Orchestrator` composed with the producer (`_run_producer`), its queue, and the loop
of `_drive_scan` over `run_scan`. Only the events the driver looks at are kept:
`scan.started` with and without a directory, `scan.failed` in its two forms (the text of an
exception, or the dictionary of an ERROR event of the run), `scan.completed`, the sentinel, and "check" for
what a task that a failed phase left behind still puts behind it; the other events of checks
pass through and decide nothing. `EngineTask` and `EngineRaises` are the steps of the tasks with what they
put into the queue. `WriteFindings`, `LockedAgain` and `WriteFails` are `_persist_findings`
under `retry_on_lock`; `EvidenceDone` stands for the evidence write, whose failure
is logged, and the terminal event. `StopProducer` is the `finally` clause of
`run_scan`. `Conclude` is the last commit of the driver: with a dictionary in `scan.error`, a text
column, it raises outside the `try` block and the verdict is `unwritten`.

### `TokenBucket` and `HttpClient`

`TokenBucket` is `acquire` of one bucket per host and a global one, with the lazy
refill of the code; time is counted in ticks and tokens in parts, so that the real
numbers of the code become integers. `HttpClient` composes it with `send`,
`send_raw`, `_do_send` and the session rule engine:

| code | actions |
|---|---|
| checks before the first await of `send` | `Send` (and the third disjunct of `Prepare`, and `Denied`, for nested sends) |
| `PerHostLimiter.acquire`, `TokenBucket.acquire` | `AcquireHost`, `AcquireGlobal` |
| `async with self._semaphore`, `_request_count += 1` | `Permit`, `Queue` |
| `prepare_request`, `_fetch_token` | `Prepare`, `TokenFetched` |
| `_do_send` | `Transmit`, `Redirected`, `Respond`, `Raise` |
| `handle_401` | `Denied`, `LoggedIn` |
| the surroundings | `Cancel`, `Close`, `TokenExpires`, `Clock` |

`running` holds the task that has not suspended since it resumed, and every other
action waits for it: the sequence from the budget check to the transport is one
atomic step when tokens and permits are there, and is interrupted where they are
not, exactly as in the code. One session rule stands for the list; the scope's
decision on a URL is a free choice; a response is what its consumer distinguishes. The retry after a login
copies the headers of the refused request: `got` is the token they hold, `missed` that the fetch made for the
retry gave none, so that the old one goes out again.

### `Findings`

`Add` is one call of `FindingDeduplicator.add` with the registration that follows it
in `_validate_one`, under the evidence lock and without a suspension; which task calls
next is the order of the actions. Its four disjuncts are the ways `add` ends: no
fingerprint, a known fingerprint, a known root cause, a new finding. The two
dictionaries hold copies that drift apart, as in the code: `MergeTwo` reaches only
`byFp`, `MergeCluster` starts from the copy in `byRc`. `MergeTwo` compares severities as
strings (`Alphabetical`), `MergeCluster` by rank. `added` and `members` are history: what was
registered, and what each cluster took in. Text, reproduction and status of a
finding are left out, and clustering is on, as the orchestrator has it.

### `ActionGate`, `CheckRun` and `CheckContract`

`ActionGate.Ask` is `ask` with the decision it logs: modes, `MustUnlock`, the tiers of
the prompt and the operator's answer as one of the things a typed line can be. A
plan without a level has `Weight` 3, wherever the code looks.

`CheckRun` is what the orchestrator does with any check, and what every module of a
check uses: `Begin` and `BeginGated` (the switches, the gate), `At`/`Step`
(one request and what the check makes of its answer), `Found`, then
`validate`, `collect_evidence` and `assess` in `Judge`, and `Raised`
for an exception anywhere. `CheckContract` is what the orchestrator and the operator
may rely on, with no check in sight: nothing is sent before consent, a
candidate is judged once and in order, and only what was validated is reported. The
property `KeepsContract` is the refinement, with the state of `CheckRun` mapped to the
four variables of the contract.

| module | checks | kept of an answer |
|---|---|---|
| `XssCheck` | xss | where in the page the canary stands and whether it is escaped |
| `ControlProbe`, `SqliCheck`, `CommandInjectionCheck` | the control and probe sequence; sqli-time-based, command-injection | delay class, WAF and rate-limit signs, failed samples |
| `SsrfCheck` | ssrf, with the server's callback as an action of the environment | redirect, echo, callback |
| `PathTraversalCheck` | path-traversal | status, length class, echo of a file |
| `BolaCheck` | bola | status, shape and content of the body, as whom it was asked |
| `SessionCookieCheck` | session-cookie | flags of the cookie, reflection of the canary |
| `GraphqlCheck` | graphql | schema, types, data or errors |
| `MutationChecks` | mass-assignment, http-methods | fields, status, Allow |
| `AuthorizationChecks` | bfla, bfla-behavior, session-invalidation | status, markers, principal |
| `ObservationChecks` | headers, cors, redirect, source-maps, disclosure | headers and status |

Each action is one request of the check with everything it does until the next; parameters,
paths and payloads are members of small sequences in the order of the code.
`Nothing` is what `assess` returns for no finding. A check whose loops do not depend on
one another (sqli pairs) is followed through one iteration.

### `Crawler`

`PopRefused`, `PopFails` and `PopAnswered` are the three ways an entry leaves the queue; `Finish`
is the end of the loop, at the cap or when the queue is empty. `site` fixes what pages link to and what
robots.txt says; links of a page are a set and enter the queue in any order. URLs are names,
whose prefix tests (`excluded_paths`, disallow rules, host) are membership in `Closed` and `robots`.

### `ProbeSeries`

One `POST /api/probes/custom`: `ProbeRefuse` (the checks in their order), `ProbeBegin` (the list of
sends of the mode), `SkipPayload` and `SendPayload` for each of them, `PersistProbe`. The client is
its budget; everything it can raise becomes a sample, as in the code.

### `Replay`

Both replay endpoints over `ReplayEngine.replay`: samples that raise leave no trace
(`SampleRaises`), the others are compared by `Consistent` and `Reliable`, and `Verdict` gives the badge.

### `Access`

Keys are in four places, which the server reads afresh for every request: `env` and `file` as they are,
`single` and `listed` as hashes. `RotateFile` and `RotateHash` are the two writes of `rotate-key`, `AddKey` and
`RemoveKey` the other commands of cli_auth.py; requests come between the two writes. A request is
`Arrive` (AuthMiddleware), `Route` (any route and its answer) and `WriteEntry` (the audit entry, after the
response); requests overlap, and `Login`, the commands and the clock go on between them. Only keys held as
they are check a cookie, those held as a hash authenticate by the header. `past` is history: what the
commands have done to which key, and a request keeps what it was when it arrived.

### `Schedules`

Row and job are changed by different steps: the creator commits the row, then reads it again
(`RefreshSchedule`), then sets the job (`AddJob`); `Unschedule` comes before `DeleteSchedule` or `DeleteFails`;
`Stop` and `Start` are the end of the process and the load at startup, which may fail as a whole (`loaded`).
A row is on, off, or `odd`: on, with a cron that the request's validation takes and APScheduler
refuses. Ids are the successor of the largest, as SQLite gives them.

### `ScopePolicy`

`InScope` is `check`, `ChainInScope` is `check_redirect_chain`, and the actions are one request that is
redirected by the target as it likes. Glob patterns are sets of path classes.

### `AttackSurface`

`MapHome`, `MapHeadless`, `MapSeeds` and `MapSpec` are the parts of `build` in their order, each of
which may fail. `Linked` drops the first name of a query, as the pattern of the code does, and
`MapSpec` adds an OpenAPI document to an empty model only. Of several links with one method and path
the first one makes the endpoint (`EndpointOf`), and what is in the model is left alone.

`MCServices` puts these seven in one instance, one service per behaviour: they share no state in the
code but the database's rows, which `ScanLifecycle` has.

## 4. Runs

| run | checks | instance | shows |
|---|---|---|---|
| `lifecycle_all` | `OrphansAccounted`, `RegistrySound` | 1 id, 2 drivers, 2 requests, every route, faults | a row stays `running` only for the recorded causes; the registry never points at another row's or a cancelled task |
| `lifecycle_polite` | `CancelCanReach`, `StatusMachine` | 2 ids, polite clients, faults | with the dashboard's own use of the routes every driver can be cancelled, and a status that is final stays so, but for a `/cancel` that overtakes its scan (`Overtaken`) |
| `lifecycle_sched_cancel` | `CancelledIsTerminal` | violation | a scheduled scan cancelled while pending runs anyway |
| `stream_all` | `StreamFaithful`, `SentinelLast` | 2 drivers, 1 client | gapless order; the sentinel reaches everyone dropped |
| `stream_pair` | `EndMeansOver`, `KeepsPromise`, `CancelWorks` | 1 driver, 2 clients, faults, fair | each stream keeps the contract whatever the other client does; the end is the end; a cancel ends the running state and every open stream |
| `engine_all` | `PhaseDiscipline`, `QuietAfterSuccess`, `OneFinish`, `VerdictTrue`, `SentinelClosesQueue`, `NoProducerLeft`, `ScanEnds` | 1 scan, 3 checks, 2 permits, fair | barriers, one terminal event, a true verdict, nothing of the verdict behind the sentinel, nothing left behind, an end |
| `engine_shared` | `OwnClient` | violation: 2 scans, 1 check | the second scan rebinds the check object the first one is using |
| `engine_cancel` | `CancelKeepsFindings` | violation | a cancelled scan loses its findings |
| `http_all` | `PermitsConserved`, `WithinBudget`, `FreshRetry`, `RateBound`, `SendsEnd` | 3 tasks, 2 permits, budget 3, one redirect | see 3; permits, budget, wire, rate, retries with a fresh token unless their fetch gave none, no deadlock while a permit is left for nested sends |
| `findings_all` | `NothingLost`, `ClusterFaithful`, `EndpointsComplete`, `EvidenceKept` | 4 findings, 3 fingerprints, 2 causes | nothing is lost; a cluster speaks for its members |
| `checks_all` | `Consent`, `DelayEarned`, `EscalationEarned`, `ComparisonsMatched`, `AskedAsClaimed`, `KeepsContract` | one check per behaviour, every check, gate mode, profile and target of the instance; fair | consent, what makes a finding of which strength, refinement of the contract with its liveness |
| `services_all` | `CrawlFaithful`, `ProbeTruthful`, `ReplayTrue`, `AccessTruthful`, `JobsMatch`, `HopsInScope`, `SurfaceFaithful` | one service per behaviour | what each of the seven services promises, see 3 from `Crawler` to `AttackSurface` |

Properties. A run's properties are conjunctions of named parts, each stated with the
part of the code it is about in its module: `WithinBudget` is `OvershootBound` and
`WireBound`, `CrawlFaithful` is `DepthTrue`, `CrawlComplete` and `CrawlAccounts`, and so on.
Type invariants are in the modules; they, and `SizeBound`, are theorems (those of the services are parts
of the invariants in `ServicesProofs`), and no run repeats them.

Bounds. Two drivers and two requests are what a race needs: one that reads and one
that writes in between. One id is enough for what concerns a row, because rows
share nothing but the registry and the id allocation, which the proofs cover for
any number of ids. `MaxQueue` bounds the events waiting for one client; order is
already lost or kept with two of them (a full queue may be followed by one last event and the
sentinel). Three checks with two permits make a check wait, run and fail while
another runs and a third waits; one candidate is enough since candidates of a check
are handled one after the other. `MaxAttempts = 3` is one retry that is not the
last and one that is. In `http_all` three tasks share two permits, so that one queues;
with session rules one sender (never blocked by its own nested sends) and two
(who may block each other, which the liveness property excludes and the
invariants do not). Budget 3 lets a send, its token fetch and its login be counted,
and tasks overshoot it. `MaxTime` is long enough for six tokens, more than the
budget. Four findings are a cluster whose head changes, a repetition of one of its
members, and a merge of the copies that drifted apart; the severities `low`, `medium` and
`critical` contain a pair that sorts alike as text and as rank and one that does not.

`checks_all`: two paths, parameters or payloads of each kind are one that decides and one after it that
must, or must not, be asked; three samples of the control probe are a median and one that fails; two
principals and one owner are what the authorization checks compare. `services_all`: the sites
have two ways of different length to one page, and behind it one that is at the depth limit by the
shorter way and beyond it by the longer; loops, a link to robots.txt and one out of bounds; a cap of
two pages is reached with and without failures; a budget of 3 is below and above the payloads; three
samples are one that fails and two that disagree; three keys are one that is installed and two that the
commands make, which is a key rotated away, one added and one removed in any order, and one session and one
request fall between any of them, before and after the session's time is over (how requests overlap is left to
the theorem, which holds for any number of them); two ids and four requests are two creators and two
deletes of one id with a restart; two redirects are one that is allowed and one that
leaves the scope after it; two links are a repeated endpoint. The caps of the code (500 sends, 10
samples) are 3 in the instance; nothing depends on their value.

Deadlock is not checked, because all these systems may stop: a server without
requests and scans, a scan that is over, a client nobody uses.

## 5. Fairness

`FairStreamSpec`, `FairEngineSpec`, `FairHttpSpec` and the `Spec` of `MCChecks` assume weak fairness of the steps of
tasks (drivers, generators, checks with their requests, senders) and of the clock: the event loop runs
tasks that are ready, the database thread answers, requests have time-outs, and
the gate of a dashboard scan is not interactive. Nothing is assumed of clients
(arrivals, disconnections), of a scan coming to an end in `ScanStream` (`RunEnds`),
of crashes, restarts, cancellations, or of tasks starting a send.

## 6. Proofs

Every safety invariant and every safety action property that a passing run checks is a theorem, for
every value of the constants that the assumptions admit. The theorems are in eight modules,
each of them beside the module or the modules it is about. In all of them the argument is the same:
an inductive invariant that adds to the property what the code relies on silently, one
lemma per action or per group of actions that touch the same state, and one line of temporal logic.

| proof module | theorems | inductive invariant |
|---|---|---|
| `ScanLifecycleProofs` | `TypeCorrect`, `RegistryCorrect`, `NoUnexplainedOrphan`; `EveryDriverReachable`, `StatusFollowsArcs` of polite clients; `OneTaskPerScan` | `IInv`; `PoliteInv` |
| `ScanStreamProofs` | `StreamsDriveScans` (refinement), `StreamTypes`, `SentinelComesLast`, `StreamsAreFaithful`, `StreamsKeepPromise` (refinement), `EndsMeanOver` | `StreamInv`; `OneRun` and `EndInv` |
| `EngineProofs` | `OrchTypes`, `ScansRunTheOrchestrator` (refinement), `EngineTypes`, `PhasesAreBarriers`, `RunsFinishOnce`, `SuccessIsQuiet`, `SentinelEndsTheQueue`, `DriversLeaveNothing`, `VerdictsAreTrue` | `OrchInv`; `EngineInv` |
| `TokenBucketProofs` | `BucketTypeCorrect`, `RateLimited` | `BucketInv` |
| `HttpClientProofs` | `ClientUsesBuckets` (refinement), `ClientIsRateLimited`, `HttpTypes`, `PermitsAreConserved`, `BudgetHolds`, `RetriesAreFresh` | `HttpInv` |
| `FindingsProofs` | `FindingsTypeCorrect`, `EveryFindingReported`, `ClustersFaithful`, `ClustersNameEndpoints`, `ClusterSizesBounded`, `FingerprintsKeepEvidence` | `FindingsInv`, and `PlainStored` for the last one |
| `ChecksProofs` | `GateTakesConsent`, `ChecksTakeConsent`, `ChecksKeepContract` (refinement), `EscalationsAreEarned`, `ComparisonsAreMatched`, `ChecksAskAsClaimed`, `DelaysAreEarned` | `GateInv`, `RunInv`; `EarnedInv`, `MatchedInv`, `AskedInv`, `DelayInv` |
| `ServicesProofs` | `SchedulesMatchJobs`, `RedirectsStayInScope`, `ReplaysAreTrue`, `ProbesAreTruthful`, `AccessIsTruthful`, `SurfacesAreFaithful`, `CrawlsAreFaithful` | `SchedInv`, `ScopeInv`, `ReplayInv`, `ProbeInv`, `AccessInv`, `SurfInv`, `CrawlInv` |

### Scans

`IInv` is `TypeOK /\ RegistrySound /\ OrphansAccounted`. `OrphansAccounted` alone is not inductive: when
`/cancel` cancels a registered task it is needed that this task works on the same scan and is not
already in its `except` clause, which is what `RegistrySound` says. For polite clients `OneRun`
(one task at most works on a scan, and none while a request is about to hand it over) and `RowsFollow`
(what the row says at each place of its task, and what a `/cancel` under way has seen of it) join it. `EveryDriverReachable` assumes that no target is
deleted, `StatusFollowsArcs` also that no scan is triggered: a deleted last id is given out
again while the old task is still running, and `lifecycle_sched_cancel` shows what a triggered scan does.
`OneTaskPerScan` states the part of `OneRun` that matters elsewhere, for systems without deletions: a row, a
channel and a run directory have one writer. It holds of polite clients, and of any clients
where nobody uses `/start`, the one route that can hand out a scan that has a task (section 7).

`StreamsDriveScans` is `StreamSpec => Spec`: the bus and its clients never make a scan do anything it could
not do without them, so that what is proved of the rows holds with streams as well. `QueueFits`
says of each client that the numbers waiting for it continue what it last received, up to the last
event published while its channel is open, and to the sentinel when it is not; `SentinelLast` and `StreamFaithful` are read off it.

`StreamsKeepPromise` is `StreamSpec => Promise!Safe`, the contract without its fairness. Each move of the bus is mapped:
what is sent on a channel is owed to those it feeds, and to nobody else (`SentIsOwed`: an entry of a client that is
not fed stays as it was, because its channel goes on, or was already gone); a delivery takes the
event that follows the last (`DeliverHears`, from `QueueFits`); a client that leaves disturbs no other; the steps of the lifecycle
stutter.

`stream_pair` has one driver and no `/start`: what two drivers of one scan do to a stream, and a client that
subscribes after the close, are in section 7 and not in the run.

`EndMeansOver` rests on the stronger `EndInv`, that no request and no task will publish for a scan whose end was
delivered. It assumes that neither `/start` nor a deletion is used, as the run does: `/start`
may put two tasks on one scan, and an id given out again starts its events anew.

### A run of the scanner

`OrchInv` puts each check where the phase of its run wants it (`AllPlaced`, `AllFit`) and counts the permits of the
semaphore. `EngineInv` adds what the producer, its queue and the driver know of one another:
where the run stands at each place of the producer (`Produces`), that no end is in the queue before the
producer's last step (`Open`), that the sentinel follows a terminal event and is followed only by events of
tasks that a failed run left behind (`Closes`), that the terminal event says what became of the run (`Sums`).
`VerdictTrue` needs all four. `EngineSpec => Spec` carries the results on the
orchestrator over to the composition.

### Requests

`RateBound` does not see what a bucket still holds; `Credit` adds to the tokens handed out those that a
refill would put into the bucket now, and is inductive. The client uses the buckets as specified (`HttpSpec => BucketSpec`), so
it is rate limited too. `Budgeted` bounds the requests counted with those let in by
the check of the budget and not counted yet; `WireAccounted` reserves for every request in flight what
it may still put on the wire (its redirects, the token it fetches, its login and its retry), and
so bounds the wire by the counter. `RetriesAreFresh` rests on `AllSend`, which knows at each place of a send the token a task has seen and whether
its last fetch gave one. With the two permits of the run a login and another task's fetch exclude one another; the theorem
covers any number of permits.

### Findings

The invariant adds three facts. Numbers are fresh and name one registered finding; every copy held
anywhere agrees with the registered one in its keys and endpoint (`AllKnown`), which is what makes the
identity test of the registration enough; `Leads` joins what a head says of its members with the
endpoint of a cluster of one. `OutranksByWeight` turns the two-level comparison of the code into the order
of one number. `PlainStored`: a finding that has a fingerprint and no root cause is stored under its
fingerprint, so that the next one with this fingerprint is merged with it.

### Gate and checks

Consent follows from what the log is made of: each entry is a decision of this gate in this mode. For the
checks, each action of the 18 checks is first shown to begin, to send, or to close (`Begins`, `Sends`,
`Closes`); those three moves keep `RunInv` and implement the steps of `CheckContract`, so
`ChecksKeepContract` is the safety part of `KeepsContract`. Each check has an invariant of its own, which says
what its candidate was built from and that its result is the judgement of that candidate; the four
properties of the run are conjunctions of those. `DelayInv` rests on the samples being sorted: `SampleOrders`,
`MedianBetween` and `MinIsLeast` are the lemmas about the operators that insert and pick.

### Services

The properties of the services are inductive with their types, or with little more: counters that agree with
lists (`ProbeInv`, `ReplayInv`), the rows creators have read (`SchedInv`), that a hop that
changes something stems from a request that did (`ScopeInv`). `SurfInv` keeps, for every endpoint, that it is the
first one of its source with that name, and that the seeds are in the model when the OpenAPI document comes.
`AccessInv` says that what a command has done to a key is not undone by later ones (`KeysInv`: a key that is made is new), that
a cookie's signer was once held as it is (`Signed`), and what a request was taken for when it arrived.
`CrawlInv` describes the breadth-first order on the URLs asked followed by those in the queue: depths
ascend by one at most (`InLine`), each entry has an earlier one that links to it (`Parented`), and what a
page that was parsed links to is in the list, as deep as it should be (`Followed`). That depths are those of a shortest way follows from it by taking
the least depth at which it would fail, which stands in for an induction; `WithinSteps` does the same for
the recursive function the property is stated with.

### Assumptions

All of them are named, stand in the module that declares the constants, and are evaluated by TLC in each run.

* Types and sizes: `OrchestratorAssumption`, `EngineAssumption`, `ClientAssumption`, `BucketAssumption`, `FindingsAssumption`,
  `ReplayAssumption`, `ProbeAssumption`, `AccessAssumption`, `SchedAssumption`, `ScopeAssumption`, `TimesAssumption`,
  `StatusesAssumption`; in `LifecycleAssumption`, `StreamAssumption` and `IssueAssumption` also that `None` is
  different from the values it is compared with.
* `ClientAssumption`: one bucket's capacity is the number of permits, as `HttpClient.__init__` has it.
* `RunAssumption`: lists of payloads and paths are not empty, and no path is listed twice (they are literals of the checks).
* `GateAssumption`: the confirmation word of a plan is not the yes of the lower tiers (an empty one is `None` in
  the model). The code does not enforce it (risk.py:103-106), but no plan sets such a word.
* `SurfaceAssumption`: the seeds are a literal list that does not name the home page (wordlist.py:69-82).
* `CrawlAssumption`: a page has finitely many links.

### Only model-checked

The liveness properties `CancelWorks`, `ScanEnds` and `SendsEnd`, and the fairness in `KeepsContract`
and `KeepsPromise`:
liveness under fairness and `ENABLED` are out of the prover's reach. The three violation runs are
counterexamples and need no proof.

## 7. Divergences

The violation runs show where the code and its documentation disagree. Others were
met while modelling; the properties checked are stated so that they say what does hold.

* `/start` on a row whose creating request has committed but not dispatched
  (scans.py:138-165) puts two drivers on the scan, one of which `/cancel` cannot reach;
  `CancelCanReach` is therefore checked and proved for polite clients.
* A cancel that lands while the driver still closes the session that committed
  `running` (scans.py:194-199), or in its last session (263-275), ends the task
  without its `except` clause; the row stays `running` until a restart although
  scans.py:234-237 says such rows do not linger. `OrphansAccounted` lists it in `lost`.
* A stream whose row was read before the status became final, and that subscribes
  after the bus was closed, or one on a scan whose driver was cancelled before its
  `try` block, waits on a channel nobody closes (event_bus.py:7-8 promises a
  sentinel). `SentinelLast` speaks of the subscribers a close has seen.
* A check that raises ends its phase while its siblings go on, so events follow
  SCAN_FINISHED of a failed run (orchestrator.py:172-174 calls it the terminal signal).
  `QuietAfterSuccess` holds for runs that complete.
* A failed model build is "non-fatal" (orchestrator.py:148), but its ERROR event becomes a
  `scan.failed` whose `error` is the event's dictionary (scanner.py:638-643). If the run then completes, the
  driver assigns it to a text column (scans.py:267-268, models.py:54; scheduler.py:189-198 alike) and the
  commit raises outside the `try` block: the row stays `running` until a restart. `VerdictTrue` calls it
  `unwritten`, `OrphansAccounted` lists it in `lost`.
* `/cancel` reads the row (scans.py:395), waits, and marks it cancelled (415-419) if it was pending then, even when
  the scan has run and ended since, although a terminal scan is answered 409 because "the action had
  no effect" (391-393, tests/test_scan_cancel_already_completed.py). `StatusMachine` allows it as `Overtaken` only.
* The tasks a failed phase leaves behind put events behind the sentinel (scanner.py:501, 597-645); nobody reads them.
  `SentinelClosesQueue` says that nothing else is there.
* The retry after a 401 copies the headers of the refused request (client.py:174-182). If the fetch made for it
  gives no token (session_rules.py:112-114) or is refused, the refused token is sent again. `FreshRetry` excepts it.
* With session rules, a send keeps its permit while it fetches a token or logs in
  with `send_raw`: with as many concurrent senders as permits the client stops
  for ever (client.py:154-187). `SendsEnd` holds while a permit is left.
* A redirect hop is built without `auth_override_headers` and `auth_override_cookies`
  (client.py:323-332), so a request sent as a second principal continues as the first
  one, although "the override always wins" (client.py:228-231). Not modelled: where a check compares
  two principals (`AskedAsClaimed`), the answer it judges after a redirect may be the first one's.
* `_merge_two` compares severities as strings, so of two findings with one fingerprint an
  `info` one leads a `critical` one, although "Keep the higher-severity one as the head"
  (deduplicator.py:105).
* A merge by fingerprint does not reach the copy in `_by_root_cause`; the next member of
  the cluster overwrites it and its evidence, although the cluster "accumulates
  evidence_ids from all merged findings" (deduplicator.py:13). `EvidenceKept` therefore
  speaks of findings without a root cause, `ClusterFaithful` of what the cluster took in.
* `cluster_size` starts again at two when the head changes, and counts a repeated
  endpoint again when its fingerprint was not stored, although it is the "number of
  merged findings" and of "endpoints affected" (deduplicator.py:14, 32). `SizeBound` is what is left.
* `ctx.findings` keeps the first copy of a finding: later evidence and cluster sizes do
  not reach the report's list, announced as "the final deduplicated list" (orchestrator.py:460-462).
* "limits.max_requests - hard cap on total outbound requests per scan" (USER_GUIDE.md:211): redirect hops
  (client.py:333) and the retry after a login (184) go out uncounted, and tasks that passed the
  check at 139 count at 155 only. `WireBound` and `OvershootBound` are what holds.
* "Multiple findings that share the same root_cause [...] are clustered into one report-level finding"
  (finding.py:67-69): a finding without a fingerprint is kept apart before its root cause is looked at
  (deduplicator.py:42-44), and when the new member takes the lead the old head stays in the list (62-64).

Gate and checks (`validation/`, `checks/`):

* risk.py says of BLOCKED that it never executes; `ask` approves it with `allow_destructive`, and
  STRICT prompts where it is documented to refuse. The exact action word is asked for, and
  `CONFIRM-LEVEL-5` is accepted as well.
* control_probe.py:15-23 has controls confirm a delay and asks for reproducible ones (sqli.py:531-534 as well); the times of
  the controls enter no decision, only their WAF and rate-limit signs, and one probe sample that
  survives convicts. `DelayConfirmed` says what it does take: a steady baseline, undisturbed
  probes none of which was fast, and the slowest two seconds above the median of the baseline.
* xss.py (9-12, 158, 351-352, tests/test_xss_context_aware_wave14.py) promises that encoded reflections are
  dropped or lowered; the encoding of an answer to a GET is never noticed (285), so an encoded canary in an executable
  construct is confirmed. `XssContextHonoured` speaks of the construct alone. A page with several contexts
  is judged by the first.
* sqli.py plans ten requests for a pair, and the sequence with its cheap comparison sends more.
* ssrf: the evidence is always "likely", a blind candidate is never polled for, and terms are not required.
* path_traversal.py:236 has a backslash inside an f-string expression, a SyntaxError before Python 3.12 although
  pyproject allows 3.11; the first changed payload ends a parameter; a 404 that becomes a 200 is
  compared with the middle baseline only (15-16 says stability is established before). A 500 that echoes the canary is
  confirmed, although 5xx answers are downgraded to inconclusive (13-14).
* bola.py:396-411 (identical bodies are proof, like shapes are likely, 5xx is inconclusive): a like shape
  confirms, 3xx is accepted, 5xx is dropped, and the evidence always says "confirmed".
* graphql "never requests user data" and asks `{ users { id } }`; an empty introspection is assessed as confirmed.
* mass-assignment writes every sensitive field without the terms its doc (10-12) requires; http-methods is in the
  passive profile and sends PUT, DELETE and PATCH, and reports methods answered 401, 403 or 405 when
  they are advertised (20-22 says they are no findings). session-cookie sends its canary in the passive profile.
* bfla-behavior (95, 135) asks without the principal it reports on. session-invalidation never sends
  anything, because the mapper gives no identity an auth method (mapper.py:77-84).
* disclosure compares debug paths with the missing page, backup files not (disclosure.py:196-209): any 200 that is
  not empty is reported.
* The orchestrator stores evidence also when `assess` returns no finding; `classify_all` (staged.py:189-192)
  passes no thresholds on. In the behaviour models `execute` ignores the identity of a step, the
  header comparison of differential.py looks at equal items only, and its length branch is unreachable.

Services:

* Crawler: `max_pages` is documented as a cap on pages visited, failed fetches do not count; robots.txt is
  fetched twice; `_fetch` is said to record errors and does not; `urls_visited` holds URLs that were queued and never requested;
  a negative depth crawls nothing though it is "treated as 0".
* Probes: "stops when budget exceeded" (runner.py:21-22) holds of no loop, every further send is refused and
  becomes a sample; the presets whose entries are not pairs raise IndexError (probes.py:288); cluster_bomb makes
  n times m sends on a budget of n, and the refusals of the budget are counted as scope rejections (runner.py:98, 244).
* Replay: ten is a cap on sends, each of which may follow five redirects; "Reproducible" is documented as all samples succeeded (schemas.py:485-487); samples that raised are
  dropped, so one of three is enough, and one success among failures of like status is impossible only because
  the status must not vary. "Flaky" is never given, the recipe's expected values are not compared,
  the 403 of the repeater is unreachable (`check` returns its refusal), and `time.sleep` stops the event loop
  (validation/replay.py:151).
* Keys: `rotate-key` says "All existing sessions are invalidated immediately" (cli_auth.py:20-21, README.md:315), and
  those of keys in the environment go on. It leaves the listed hashes, to which `add-key` has moved the single one
  (cli_auth.py:71), so that a key rotated away still authenticates by its header; it ignores `REDVEIL_CONFIG`
  (23-27, auth.py:63 reads it). `remove-key` takes the hash only: a key that is also in the file or the
  environment stays valid. `SessionsEnd` and `KeysEnd` are what holds. `/cancel` is open to anonymous callers.
* Audit: 409, 422, 429 and 500 are "allowed" although that means "authorized and executed" (middleware.py:257);
  a remote holder of a hash-only key is recorded as "loopback", and its login gives a cookie that never validates.
* Schedules: the cron job is a plain lambda, which APScheduler runs in a thread, where `asyncio.create_task` raises:
  cron ticks start no scan; `/trigger` ignores `enabled`; a schedule deleted before its creator adds the job
  leaves a job without a row; a delete that fails leaves an enabled row without a job until the next start.
  `add_job` swallows the crons APScheduler refuses (scheduler.py:62-63): `@daily`, six fields or `0 2 * * 7` pass
  `croniter.is_valid` (schemas.py:296), so an enabled row may never have a job. A load that fails at startup is
  swallowed (214-215) and no job runs until the next start. A creator whose row was deleted and its id given
  out again sets its job on the other's row. `JobsMatch` excepts each of them.
  Foreign keys are not enabled in SQLite, so schedules outlive their target (models.py:132-133).
* Scope: hops are checked as GET (scope.py:173) while 307 and 308 keep the method (client.py:320): a POST that was in
  scope may be repeated on a destructive path. `HopsInScope` says that nothing else can be.
* Attack surface: `merge_into_model` iterates over the keys of a dictionary (openapi.py:99), the error is
  swallowed and an OpenAPI document never reaches a model that has its seeds; the first name of a
  query is never recorded (mapper.py:33, 228). Links count as same-origin (211, 222) by their netloc alone (223): those without one
  (`mailto:`, `tel:`) and those of another scheme are taken as own.

## 8. Not modelled

* Text, layout, formatting: the knowledge base (4054 lines of descriptions), reports, prompts.
* AI adapters and routes, server start, TLS, first run, command lines: I/O and calls to other programs.
* The subdomain finder and its plugin: a set of look-ups that do not depend on one another, and a
  confirmation without condition.
* Behaviour models, flakiness and the rest of the staged validation: no check calls them.
* What a pattern matches in a text: an answer is the set of features the check tells apart.
* The operating system, SQLite's locking protocol (a commit succeeds, or raises
  "database is locked"), Starlette and APScheduler beyond how the code calls them.
* The frontend: its use of the routes is the polite client of `ScanLifecycle`.
