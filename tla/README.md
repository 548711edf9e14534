# Verification of CIRT Lens

CIRT Lens is an incident-response platform: a FastAPI backend on PostgreSQL and
Redis Streams, a background worker, and a React console.  This directory holds
TLA+ models of the backend, the TLC runs that check them on small instances and
TLAPS proofs of what holds for all of them.  `PROJECT.json` lists every run,
property, theorem, hazard, and the source lines each definition stands for.

## 1. Inventory

| Component | State | Operations | What is hard |
| --- | --- | --- | --- |
| Ingestion queue (`platform_api.ingest`, `worker.py`) | `ingestion_jobs` rows, Redis stream, consumer group (cursor, pending list), dead-letter stream | ingest, read, process, complete, acknowledge, retry, dead-letter | two stores and no transaction across them: any process may die, and any Redis command may fail or be applied unseen, between two steps; blind row updates |
| Response actions (`response_actions.py`, approval endpoints) | `action_approvals`, `connector_executions`, the incident row (recommended actions, residual risk, status), audit rows | request, approve, execute, expire, change status | the incident row is read at the start of a request and written back at its end; a provider call before the commit; a unique constraint over a status |
| Playbooks and classification (`playbook_engine.py`, `infer_incident_type`) | none | select, recommend, progress, residual risk | two classifiers that must agree; an objective no action serves |
| Correlation (`correlation_engine.py`) | incidents: fingerprint, evidence, type, status | group events, create, enrich, reuse a case | late batches, concurrent pipelines, closed cases, fingerprints that collide |
| Pipeline (`pipeline.py`) | events, findings, risk flags | normalise, detect over history, store, correlate, one transaction | event ids shared between tenants, windows, partial history |
| Detection rules (`detection_engine.py`) | none | the rules over a time-ordered list of events | order, windows, thresholds |
| Risk and confidence (`risk_engine.py`) | none | risk score, severity, residual risk, confidence score | caps that must not turn more evidence into less risk; a case that changes its type forgets what was executed |
| Rule catalogue (`platform_api.py` rules endpoints) | `detection_rules` | bootstrap, create, promote, replay | requests that read, decide and commit over each other: two ACTIVE versions, a retired one brought back |
| Auth0 connector (`connectors.py`) | cached token and its expiry, failure counter, circuit deadline, per process | request with retries, circuit breaker, token cache | all three are shared by threads without a lock; a call that succeeded and looks failed |
| Case work (`main.py` notes, bookmarks, disposition, questions) | notes, bookmarks, the disposition, activity (audit rows) | add, bookmark, set, ask | duplicate bookmarks, audit rows that contradict the row, an enrichment under way |
| AI investigation (`investigation_ai.py`) | none | two attempts, then the local answer | citations checked against a case that changes meanwhile |
| Authentication and RBAC (`auth.py`) | users | token check, permission check, tenant scope | permission claims against role tables |
| Event feed (`platform_api.py` cursor, `main.py` offset) | the client's place | next page | pages over a table that grows and shrinks, rows of one timestamp |
| Retention (`scripts/retention.py`) | none | deletes telemetry older than a cutoff | cases and traversals that still refer to it |
| Read endpoints, reports, serialisers | none | queries | |
| Frontend, migrations, observability, deployment, evaluation, seed data, scenario generator | | | see section 8 |

Components meet in the database and in Redis, nowhere else: API threads (a
thread pool, two replicas in `deploy/kubernetes.yaml`) and workers (two
replicas) share rows under READ COMMITTED.  A SQLAlchemy session reads at the
start of a request and writes, at a flush or the commit, the columns whose value
changed, whatever the row has become since.  No statement of the backend locks
what it reads (there is no `with_for_update` and no version column), so unique
constraints and the order of commits are all that serialises requests.

What makes each part correct:

- *ingestion queue*: an accepted job is stored or dead-lettered, whatever dies;
  one entry per job is worked on; the row says COMPLETED only if it is;
- *response*: two persons behind a high-impact action; a case claims nothing
  that was not carried out; CONTAINED is earned and residual risk matches;
- *playbooks*: the two classifications agree and every playbook can contain;
- *pipeline, detection, correlation*: findings have a cause and are found however
  telemetry is cut into batches; cases stand on stored evidence that is kept;
  batches are not lost to fingerprints; running a batch again adds nothing;
- *risk*: more findings never make a case look better;
- *rule catalogue*: a promotion leaves one ACTIVE version, and RETIRED is final;
- *Auth0 connector*: no request goes out with a stale token, an answer tells what was
  done, and the circuit closes once the provider is back;
- *case work and investigation*: what is cited belongs to the case, and the audit
  trail is that of the rows;
- *event feed*: a traversal gives every event that was there from start to end.

## 2. Modules

| Module | Models | State | Actions |
| --- | --- | --- | --- |
| `Ingestion` | `ingest`, `run_once`, Redis | `jobs` (rows), `stream`, `cursor`, `pel`, `dlq`, `stored`, `accepted`, the program counters `handler` and `worker`, `faults` | each commit and each Redis command of either process: `Lookup`, `InsertJob`, `Enqueue`, `RecordStreamId`, `MarkUnavailable`; `Read`, `Fetch`, `Start`, `ProcessOk`/`ProcessFails`, `Reload`, `Complete`, `Ack`, `Failed`, `Decide`, `DeadLetter`, `Retry`, `AckFailure`; and the faults between any two |
| `JobLedger` | what a client is promised: a job is submitted, attempted, finished or given up; `Ingestion!Book` reads the rows as a ledger | status and attempts per key | `Submit`, `Attempt`, `Finish`, `GiveUp` |
| `Playbook` | `playbook_engine.py`, `infer_incident_type` | none | pure definitions |
| `ResponseActions` (extends `Playbook`) | one incident: approvals, `execute`, PATCH of the status, enrichment, connector, and the findings on its events | `findings` (pairs of an event and a flag), `incident` row, `approvals`, `executions`, `provider` (effects outside), `audit`, `thread` | each handler cut at its reads and its commit; `Annotate`: a transaction that records findings on the events of the case and does not enrich it |
| `CaseLife` | what the response promises of one case, without requests, rows or a connector: an authorization is used up by one execution, findings come at every stage and never lead back, only an open case is assessed again; `ResponseActions!Life` reads it off the rows | `stage`, `playbook` (that of the recommendations), `evidence` (the playbook that the findings select), `done`, `granted` (actions with an authorization in force) | `Grant`, `Lapse`, `Respond`, `Find`, `Reassess`, `TakeUp`, `Resolve` |
| `Grouping` | scores, anchors, components, guardrails of `correlation_engine.py` | none | pure definitions |
| `Detection` (extends `Grouping`) | `detection_engine.py` rule by rule, `historical_context`, recording of findings | `stored`, `rows` (findings with their contribution), `overtaken` (history) | `Process(batch)` |
| `Correlation` (extends `Playbook`) | `_process_raw_telemetry` and `create_or_update_incidents` as transactions | `stored`, `findings`, `cases`, `pipe` (open transactions), `last` (history) | `Begin`, `Insert`, `Detect`, `Gather`, `Enrich`, `Open`, `Commit`, `Abort`, `CloseCase` |
| `Assessment` (extends `Playbook`) | `risk_engine.py`, `infer_incident_type` against `select_playbook`, over the findings of one case | `flags`, `strength`, `impact` | a finding or an event comes and the case is assessed anew |
| `RuleCatalog` | the `rules` endpoints of `platform_api.py`, one rule | `catalog` (a row per version), `request` (what each request has loaded) | `Bootstrap`, `CreateRule`, `AddRule`; `LoadRule`, `Survey`, `CommitPromotion`; `RequestGone` |
| `Auth0Connector` | `Auth0IdentityConnector`, one object and its threads | `token`, `breaker`, `up` (the provider), `caller` (each thread) | `Execute`, `UseToken`, `CheckCircuit`, `SendOk`/`SendFails`/`SendRejected`, `CountFailure`, `StoreFailure`, `Trip`, `Succeed`, `KeepToken`, `StampToken`, `TakeToken`; `Tick`, `Outage`, `Restored` |
| `CaseWork` | notes, bookmarks, disposition, `ask`, enrichments that overlap requests and each other, retention | `file` (the row), `desk`, `trail` (audit), `session`, `enricher` (transactions of the pipeline); history: `purged`, `dropped` (evidence an overtaken enrichment has taken away) | each request and each enrichment cut at what it loads and its commit |
| `EventFeed` | both ways to page through the events, the pipeline's inserts, retention | `table`, `reader`, `steady` (history) | `StartReading`, `CursorPage`, `OffsetPage`, `InsertEvent`, `Retention` |
| `IngestionProofs`, `ResponseProofs`, `DetectionProofs`, `CorrelationProofs`, `ConnectorProofs`, `CaseProofs` | theorems of one module each | | |
| `PlatformProofs` (extends `MCPlatform`, `CaseProofs`, `ConnectorProofs`) | theorems of `Assessment`, `RuleCatalog`, `EventFeed` and of the composition | | |
| `OrderLemmas` | least and greatest elements of finite sets of numbers | | |
| `MC*` | instances for TLC | | |

How the modules compose.  `Ingestion` sees the pipeline as one step that stores a
payload or fails; `Correlation` opens that step, and in it takes detection and
grouping as parameters (`MCCorrelation` gives it the groups of `Grouping`);
`Detection` is the inside of that parameter with whole batches, one at a time.
`ResponseActions` begins with the case `Correlation` has opened and takes part of
`Enrich` (the columns an execution writes as well) as one of its requests.
`CaseWork` takes the evidence column of the same row, with its enrichments and with
retention; `EventFeed` takes the table that the pipeline fills and retention empties.
`Assessment` is what `Enrich` computes, and shares `Playbook` with the response.
What a connector answers `ResponseActions` takes as any answer with or without an
effect; `Auth0Connector` shows which of them are true.
`MCPlatform` runs the parts that share no state side by side, one per behaviour
(`part` says which), so the parts do not multiply each other's states;
the lemma `PartsRunAsSpecified` of `PlatformProofs` carries over what is proved of a part.
`CorrelationProofs!BatchesAreAtomic` justifies the one step that `Ingestion` takes a
pipeline for: the whole batch is stored, or nothing happens.

### Conventions

- A row is a record of the columns that matter; "no row" is a value of its own.
- A blind write is `Column(loaded, new, current)`: the new value if the session
  changed it, what the row has by then otherwise (`Flushed` in `ResponseActions`,
  `Merged` in `Correlation`).  A JSON column is one column.
- A unique constraint is an action that waits for an uncommitted rival and fails
  once that has committed (`Blocked`, `Clash`, `Taken`).
- Faults are actions with a common budget (`MaxFaults`) and a constant set of
  kinds, so that a run can say which failures it is about.
- Definitions with a comment that begins with "Mutant" are wrong on purpose: put
  in the place of the definition they are named after, each violates a property.
  They show that the property is about that code.

## 3. Runs

Every run is exhaustive within its bounds.

| Run | Bounds | What it shows |
| --- | --- | --- |
| `ingestion_safety` | 2 keys, 2 threads, 2 workers, batches of 2, 2 attempts, any 2 of the four kinds of fault | nothing is lost, COMPLETED is stored, one live entry per job, attempts and dead letters as configured |
| `ingestion_live` | 2 keys, 1 thread, 2 workers, 1 death or failed commit, fair | accepted jobs are decided, the stream drains, the rows refine `JobLedger` |
| `ingestion_pending` | 1 key, 1 worker, 1 death, fair | *violation*: pending entries are not recovered |
| `ingestion_outage` | 1 key, 1 refused XADD | *violation*: 202 for work nothing tracks |
| `platform` | *assessment*: all sets of flags, growing, with every strength and impact, and all sets of executed actions; *catalogue*: 3 versions, 2 of them shipped, 2 overlapping requests; *connector*: 2 threads, 2 attempts, 2 failures open the circuit, time in steps of 60 s that may pass at any point, tokens of 120 s, a provider that goes and comes back at will; *case*: 2 events, one of which retention reaches, 2 analysts, 2 pipelines, 2 dispositions, 1 claim, at most 2 transactions under way (`MaxBusy`) and 2 notes, bookmarks and audited decisions together (`MaxEntries`); *feed*: 5 events, 2 with one timestamp, limits 0, 2 and 9, pages of at most 3 and 2 | classifications agree, containment is possible and never free, risk only rises; promotions are sound; tokens are valid, answers true, and the circuit recovers; citations and the audit trail; complete traversals |
| `response_serial` | 1 thread, 2 users, 3 actions (one of low impact, offered by two playbooks), 3 events, findings that change the playbook, 2 approvals that may expire, 2 risk scores, 2 faults of 3 kinds | containment, residual risk and approvals match what was executed; the rows implement `CaseLife` |
| `response_races` | 2 threads, 2 users, one high- and one low-impact action, 1 approval, findings that change the playbook, 1 death or lost reply | two-person control and backing of claims under any overlap |
| `response_resolved`, `response_reuse` | 1 and 2 threads | *violations*: RESOLVED becomes CONTAINED; one approval, two executions |
| `detection` | 10 events of 2 users in 2 hours, 11 batches in every order, repeated at will | causes of findings, completeness for what comes in order, anchors |
| `correlation` | 5 events, 3 batches (two clusters and a bridge), 2 pipelines, 2 case ids | evidence, fingerprints, redelivery |
| `correlation_duplicates` | 1 pipeline | *violation*: a second case with the same evidence |

Why the bounds are enough.  A fault matters by what it interrupts: two faults let a
second one hit the handling of the first, two workers and two threads are the
smallest instance in which each step of one can come between any two of another,
and two attempts reach both the retry and the dead letter.  The telemetry of
`MCDetection` has each window both met and missed, logins from two countries with
another after them, a burst that is cut by batches, and a privileged action whose
cause has left the lookback.  The telemetry of `MCCorrelation` opens two cases, bridges
them, changes the type (and so the fingerprint) of one, and, with closed cases,
needs the second fingerprint of a kind.  Its two users share a laptop, so that an
event is in the context of another user's batch (`Related`).

In `MCPlatform` identifiers and timestamps of events are in different orders, two
events are tied, a traversal takes up to five pages, and a limit is below, at and above
the cap.  Three versions let two promotions meet a third one in force; two
transactions at once are any overlap of two requests, of two enrichments or of one
and one, two entries let two decisions be audited in either order, and one more
event than a case has makes a citation it does not have.  Two threads reach a refresh within a refresh,
an increment lost to another, and failures that are counted after the circuit has
closed.

`MCIngestionSafety` uses symmetry over keys, threads and workers, which no
property tells apart, and a VIEW that drops `accepted`: no action and none of
the invariants of that run reads it.  The response runs use symmetry over users and threads, `MCCorrelation`
over pipelines.  The other runs use neither.

`CHECK_DEADLOCK FALSE` is said where the system really may stop: once every
case is closed and every id used, when all telemetry is stored, when a case is
resolved and the fault budget spent, or, in `MCPlatform`, when every version of a rule is
retired.

## 4. Fairness

`Ingestion!Fairness` has weak fairness for the steps of each worker and of each
request under way.  `worker.main()` loops for ever and the orchestrator restarts a
worker that dies (a Deployment in `deploy/kubernetes.yaml`); a request that has begun runs
in its thread to its end.  Arrivals and faults have no fairness.  The violation of
`PendingIsRecovered` is found under that fairness: the entry stays pending although
every worker goes on.

`Auth0Connector!ConnectorFairness` has weak fairness for the steps of each thread
within a call (each phase of a send has a timeout of eight seconds, and there are three
sends at most) and for `Tick` (time passes).  Whether anybody calls, whether a send fails and whether the provider comes
back is left open; `CircuitRecovers` is about the behaviours in which it does.
The other components promise safety only.

## 5. Theorems

Each is proved for every value of the constants that satisfies the named
assumptions of its module; tlapm checks every leaf.

| Theorem | Statement | Argument |
| --- | --- | --- |
| `IngestionProofs!TypeCorrect` | `[]TypeOK` | TypeOK is inductive once it says that a busy worker's entries have been delivered (`item..last` within `cursor`) |
| `IngestionProofs!NothingIsLost` | `[]NothingLost` | an entry leaves the pending list only by `Acked`, and each program counter from which that is possible implies that the telemetry is stored, or the dead letter or the replacing entry appended; the invariant says so for each of them |
| `IngestionProofs!CompletedIsTrue` | `[]CompletedIsStored` | the same invariant: only a worker past the pipeline's commit writes COMPLETED, and what is stored stays |
| `IngestionProofs!OneEntryPerJob` | `[]OneLiveEntry` | `LInv`: the entries before two workers are disjoint, an idle worker has none, and a thread about to enqueue a job is the only one and the job has no entry yet; then a retry replaces the one entry of its job |
| `IngestionProofs!LedgerIsImplemented` | `ImplementsLedger` under `Calm` (no Redis faults) | `PInv`: what each step of a worker finds in the row (`Stage`), and that jobs of entries nobody works on may be attempted (`Waits`, `Undelivered`, `Submitted`); it rests on `LInv`, because only then no one else writes the row in between; with it each step is one of `JobLedger` or leaves `Book` as it is |
| `IngestionProofs!DeadLettersAreEarned` | `[]DeadLetterEarned` under `Calm` | by the ledger: its steps keep the bound on attempts and the dead stay dead; a worker about to write a dead letter is the only one at that job |
| `ResponseProofs!TypeCorrect` | `[]TypeOK` | by columns (`Flushed`) |
| `ResponseProofs!TwoPersonControlHolds` | `[]TwoPersonControl` | an approver is recorded once and never removed; a thread past `Authorize` holds the index of an approval with two persons behind it |
| `ResponseProofs!ClaimsAreAlwaysBacked` | `[]ClaimsAreBacked` | what a thread has loaded or is about to write is itself backed, so whatever columns it overwrites stay backed |
| `ResponseProofs!ContainmentIsEarned`, `ResidualIsConsistent` | `[]ContainedIsEarned`, `[]ResidualMatches`, under `Serial` (at most one thread; other transactions record findings all the while) | `SInv`: the loaded row is the present row, so a write is an atomic step; an execution contains the case only if the objectives of the recommendations it has loaded complete a playbook, and no playbook is completed by another one's |
| `ResponseProofs!ApprovalsAreConsumed`, `ActionsAreExecutedOnce` | `[]ConsumedWithSuccess`, `[]ExecutedOnce`, under `Serial` | `HInv`: an action has succeeded at most once for each playbook that the case has left behind, and once more if it is shown as EXECUTED (`Counted`; growing evidence never leads back to a playbook); no action has two CONSUMED approvals (`OneConsumed`, the unique constraint over the status); an execution under way is of an action not yet EXECUTED and holds an APPROVED approval of it; what it was computed from are findings that are still there (`Lawful`) |
| `ResponseProofs!CaseLifeIsImplemented` | `ImplementsCaseLife` under `Serial` | `KInv`: `HInv`; no action has two APPROVED rows (`OneInForce`), so that the approval a success consumes was the only one in force; and what a request is about to write was made from the row as it is (`Made`), with findings that may have grown since (`Grounded`). Then one lemma for each commit (`ApprovalLives`, `ExpiryLives`, `AgeLives`, `InsertLives`, `ExecutionLives`, `RowLives`) and one for the findings of others (`AnnotateLives`): it is a step of `CaseLife`, or leaves what `CaseLife` sees as it is |
| `ResponseProofs!ContainmentIsKept` | a case leaves CONTAINED only for RESOLVED and never becomes NEW again, under `Serial` | by the refinement: it is so of the steps of `CaseLife` |
| `DetectionProofs!RowsAreTyped`, `RowsHaveCauses` | `[]TypeOK`, `[]RowsAreExplained` | every rule finds causes among the events it is given, those are stored with the batch, and what is stored stays |
| `DetectionProofs!TravelIsAlwaysCharged`, `FatigueIsAlwaysSeen`, `PrivilegeIsAlwaysSeen` | `[]TravelIsCharged`, `[]FatigueIsSeen`, `[]PrivilegeIsSeen` | when the last event of a pattern is stored in order, all of the pattern is in the context of its batch; a row, once there, stays |
| `DetectionProofs!NoEdgeIsLost` | `MinScore > 3 => []EdgesAreCompared` | time alone gives 3 points, so a pair with more shares something, and what it shares is an anchor of both, or an address on different sides |
| `CorrelationProofs!CasesStandOnEvidence` | `[]CasesAreGrounded` | `IInv`: what a transaction has still to deal with and what it has made of a case stands on what is committed plus what it will commit itself; that only grows, and flags are finitely many, so more evidence never carries fewer flags |
| `CorrelationProofs!EvidenceIsKept` | `EvidenceKept` | `EInv`: a transaction nobody has overtaken has loaded the evidence cases still have and has only added to it (`Kept`); ids of new cases are in no row and in no other transaction (`Apart`) |
| `CorrelationProofs!GroupsHaveCases`, `FindingsOfHistory` | `GroupsAreCased`, `HistoryIsSeen` | `GInv`: such a transaction has found all that its context implies (`Searched`), and each of its groups is either to be dealt with or within a case it holds (`Covered`); an earlier login that makes an impossible travel is in the context, since the window of `TravelAssumption` is the one it reads |
| `CorrelationProofs!TablesAreTyped` | `[]TypeOK` | `TInv`: the objects of a transaction are rows already (`Typed`) |
| `CorrelationProofs!FreshBatchesGoThrough` | `[]BatchesGoThrough` | `CInv`: whatever transactions make of a case, it keeps the events its fingerprint hashes (`Carried`), so that a case that shares no evidence with a group cannot have the second fingerprint of the group; what a transaction nobody has overtaken has loaded is current (`Based`), and no fingerprint it has given is that of a case it does not hold (`Unclaimed`) |
| `CorrelationProofs!RedeliveryIsHarmless` | `RedeliveryIsNoOp` | `RInv`: after the commit of a batch all it implies is found, and each of its groups is in an open case with the type of its evidence (`Settles`); a repeat therefore has nothing new, cannot open a case, and finds the case its group is in (`Repeat`) |
| `CorrelationProofs!BatchesAreAtomic` | `[][AllOrNothing]_vars` | by the same invariant: what a transaction does not insert of its batch was stored when it began (`Typical`) |
| `PlatformProofs!ClassificationsAgree`, `CasesCanBeContained` | `[]TypeMatchesPlaybook`, `[]Containable` | by the playbook chosen, whatever the flags |
| `PlatformProofs!RiskNeverFalls` | `RiskOnlyRises` | each summand grows with the findings and the caps are monotone; what a case forgets when its type changes only reduced its residual risk |
| `PlatformProofs!RequestsAreUpToDate`, `PromotionsAreAlwaysSound` | `PromotionsAreSound` | a request nobody has overtaken has loaded the rows that are there and surveyed the versions that are in force |
| `ConnectorProofs!TokensAreValid`, `AnswersAreAlwaysTrue` | `[]TokenIsValid`, `[]AnswersAreTrue` | `ConnectorInv`: the cached token outlives its expiry by the margin, less its age when it was assigned (`TokenInv`), and the time left of a token plus the time lost since it was found current exceeds the margin (`Holds`); where in a call the user may have been blocked (`Consistent`) |
| `CaseProofs!CitationsStand`, `TrailIsAlwaysExact` | `[]CitesTheCase`, `[]TrailIsExact` | `CaseInv`: whatever a session has loaded of the evidence is still the case's, or purged or dropped; an enrichment nobody has overtaken has loaded the evidence as it is (`EnricherKnows`); a decision is committed after those its request has seen (`Ordered`), and a request that has begun since the decision in force has loaded that one (`Decided`) |
| `PlatformProofs!TraversalsAreComplete` | `[]FeedIsComplete` | `FeedInv`: what was there all the while and is behind the cursor has been given; an untied one that has not been given has at least as many newer ones in the table as the offset |
| `PlatformProofs!PlatformIsTyped` | `[]PlatformTypeOK` | the type invariants of the parts |

The invariants of the runs are not inductive by themselves: each says something of
what is committed, and the step that commits takes it from the private state of a
transaction or a process.  The inductive invariant adds what those private states
guarantee.

The assumptions are what the code or its configuration gives: telemetry is a finite set,
no batch is empty (the request schema demands an event), an impossible travel is
between two logins of one user within the history detection reads
(`TravelAssumption`: the lookback is the widest of the windows), logins are authentications
(`AuthenticationAssumption`).  `MinScore > 3` is a hypothesis of one theorem only; the
least score in `config.py` is 5.

Every invariant and every action property of the passing runs is the statement of
a theorem, and so are the refinements of `JobLedger` and `CaseLife`.  Only model-checked: liveness
(`AcceptedIsDecided`, `StreamDrains`, `CircuitRecovers`), which needs
fairness and is out of the prover's reach.  Not proved either is what grouping
computes: `connected_groups` is a recursive definition, checked by TLC on the telemetry
of `MCCorrelation`; the theorems of `Correlation` take any grouping into sets of the events
it is given, those of `Detection` stop at the pairs that are compared.

## 6. What the runs found

Five statements of the documentation do not hold of the code; each has a run whose
counterexample is the scenario (`findings` in `PROJECT.json`):

- `worker.py:1` promises pending recovery; only new entries are ever read.
- `operations-evidence.md:31,33`: after an outage of Redis the retry is answered 202
  and nothing tracks the work.
- `security-model.md:7` and `main.py:374`: RESOLVED is final, but `execute` turns it
  into CONTAINED.
- `response_actions.py:63`: an approval is single-use, but two overlapping
  executions use it twice.
- `architecture.md:33`: evidence-set matching prevents duplicates, but not with
  cases that are closed.

Conditions in properties that name what the code does not do, with the hazard of
the same line in `PROJECT.json`: `EvidenceKept` and `GroupsAreCased` are about
transactions nobody has overtaken (overlapping ones lose each other's evidence);
`BatchesGoThrough` holds while no case is closed (then a fingerprint may be taken for good)
and for batches that do not give two cases one fingerprint between two flushes;
`RedeliveryIsNoOp` keeps rows and findings, and the evidence where each group finds its case;
`TravelIsCharged`, `FatigueIsSeen` and `PrivilegeIsSeen` except telemetry that came
after something later (and of a burst that goes on, detection flags the first part in
sight, which `FatigueIsSeen` allows); `EdgesAreCompared` excepts an address that is a source here
and a destination there; `ResidualMatches` and `ContainedIsEarned` need requests
that do not overlap, and so does `ImplementsCaseLife`: there an authorization is used up by
one execution, and with overlapping requests it is not (`response_reuse`).  `ExecutedOnce` allows an action of low impact once per playbook
that offers it: a case that changes its type forgets what was executed, so
escalating it is offered, and done, again.  `ImplementsLedger` and (in its strict form) `DeadLetterEarned` need a
Redis that does what it is asked: an applied XADD taken for a failed one lets the
API overwrite a row a worker is at.  `PromotionsAreSound` is about commits nobody
has overtaken (overlapping promotions leave two ACTIVE versions or bring a retired
one back), and a release that ships a new version puts it beside the one in force.
`FeedIsComplete` excepts, by offset, events that share their timestamp, and in both
ways what comes in behind the reader.  `CitesTheCase` excepts telemetry that
retention has deleted, and what an enrichment has taken off the case that another had
overtaken: it writes `event_ids` as it has computed them (`correlation_engine.py:327`),
so that bookmarks and answers may name events a case no longer has.  `TrailIsExact` says
that the disposition in force is an audited one that no request which began later
replaces.  When PATCHes overlap, it need not be the last of the trail: an audit row is
stamped before its commit (`main.py:468`), and an analyst who sets the disposition he saw
writes no column but an audit row.  `TokenIsValid` is about tokens of one lifetime of 90
seconds or more, and excepts a call that loses more than the margin of 60 seconds
between the check of the expiry and the last request, or while the answer with the token
is on its way: `httpx.Client(timeout=8)` (`connectors.py:68`) bounds each phase of a
request, not the request, and each is sent up to three times.  `ContainedIsEarned` is about
the playbook the case recommends: findings that a later batch records on the events of a
CONTAINED case may select another one, none of whose objectives are completed, and the
case stays CONTAINED, for only NEW and INVESTIGATING cases are assessed again.

Two more statements of the documentation are not so, and the models show it on the way:

- `architecture.md:47`: "Only high-impact containment actions can automatically mark a
  case contained."  Progress counts the objectives of every executed action
  (`playbook_engine.py:96-101`).  When a forced password reset, of 10 points and so in no
  need of an approval, is the last action executed, it is the one that sets CONTAINED.
- `architecture.md:47`, `src/README.md:99`: "Original risk is immutable."  Enrichment
  computes it anew (`correlation_engine.py:329`).

Two scenarios came out of proofs that failed; TLC then confirmed each on an instance made
for it, and the property now names the case:

- *Two cases, one fingerprint.*  Two open cases of one user and one time bucket, of
  different types and more than an hour apart, each get a login of an impossible
  travel from one batch.  Both become Credential Compromise with the same principal and
  bucket.  The lookup before the fingerprint is assigned (`correlation_engine.py:313`) does
  not see the first assignment, which is not flushed (`database.py:14`, `autoflush=False`), so
  the commit violates the unique `incident_fingerprint`: at each attempt, until the batch is
  dead-lettered (`Twins` in `BatchesGoThrough`).
- *A group that goes astray.*  A batch adds its first group to an older case by shared
  evidence, and its second opens a case whose fingerprint is the one the first group
  has by itself.  When the batch is run again the lookup by fingerprint, which comes first
  (`correlation_engine.py:225`), gives the first group to the second case.  Nothing is stored
  twice, but evidence is then in two cases, although `src/README.md:103` says that
  "Deterministic fingerprints make reprocessing idempotent" (`Unmistaken` in
  `RedeliveryIsNoOp`).

Two assumptions about libraries: the Redis client sends a command once (a client
that resends after a lost reply would append twice), and PostgreSQL runs at its
default isolation level.

## 7. Plan

Done: every component of section 1 that keeps state, by the order of its weight:
ingestion, response, playbooks; detection, grouping, correlation; risk, the rule
catalogue, the connector, case work with the investigation, the event feed with
retention; the refinements of `JobLedger` and `CaseLife`, checked and proved; theorems of every
safety property that a passing run checks.

Left:

1. `Correlation` with retention: telemetry that is deleted under an open case.
2. The hazards without a property: a second EXPIRED or CONSUMED approval of an action, and
   two ACTIVE versions of a rule.

## 8. Not modelled

- Authentication: verification of tokens is library code, and roles are a table looked
  up once per request; tenants never meet in a query but for the ids of events, so
  the models are of one tenant.
- The confidence score, ATT&CK techniques, texts, risk history and the correlation
  graph of a case: derived data that no other step reads.
- The limits of 1000 rows in queries of the pipeline and of correlation.
- The moments between the reads of `existing_keys` and the flush of the findings:
  `Correlation!Detect` is one step that waits for a rival's findings and then sees them. The
  code fails on `uq_finding` there; `Abort` is that failure.
- Ties of timestamps within a rule: `Detection` numbers events in the order of their
  timestamps, and of two at once it takes the lower number for the earlier.
- The length of the stream and of the dead-letter stream.
- `reconcile` of an execution: it overwrites the status and detail of the row with
  what the connector says of the request, and no other step reads them.
- `replay` of a rule and the status of the queue: they only read.
- Incidents of the demonstration whose ids are set by hand.
- Read endpoints, reports, serialisers, the console, migrations, metrics, logs and
  deployment: no state of their own.
- Seed data and scenarios, evaluation, benchmarks, load tests: offline scripts over
  the same code.
